------------------------- MODULE OverlayBridgeProofs -------------------------

(***************************************************************************)
(* The bridge with one controller: types, and what start, stop, the        *)
(* detector and the presents may not do to each other, for any number of   *)
(* game threads, workers, detectors and stops.  First for every game,      *)
(* whatever its threads present with; then for a game that presents with   *)
(* OpenGL, up to that nothing ends the process before somebody calls stop  *)
(* when one thread presents; last, who patches a pointer before the first  *)
(* stop.                                                                   *)
(***************************************************************************)
EXTENDS OverlayBridge, TLAPS

USE DEF Workers

WorkerPlaces == {"none", "begin", "stopFirst", "poll", "polled", "get", "got",
                 "giveUp", "own", "start", "startSaved", "free", "end", "ended"}

PassPlaces == {"dLibrary", "dHook", "dInstall", "dRecord", "dFinish", "dDecide"}

ExitPlaces == {"xDone", "xUnhook", "xDelete"}

DetectPlaces == {"dLock", "dEnter", "dReset"} \cup PassPlaces \cup ExitPlaces

FreePlaces == {"fStop", "fDelete", "fMembers"}

CallerPlaces == {"out", "sLock", "gLock"} \cup FreePlaces \cup DetectPlaces

LockedPresent == {"pCall", "pCheck", "hRestore", "hUnhook", "hRenderer", "hDone",
                  "pLeave"}

PresentPlaces == {"out", "pLock"} \cup LockedPresent

FramePlaces == {"out", "prepare", "callback", "state", "draw", "original"}

StopPlaces == {"signal", "join", "take", "notify", "unhook", "free", "clearReady"}

ControlPlaces == {"idle", "clear", "spawn"} \cup StopPlaces

Results == APIs \cup {"none", "continue", "done"}

Places ==
    /\ pc \in [Threads -> CallerPlaces \cup PresentPlaces]
    /\ \A g \in GameThreads : pc[g] \in PresentPlaces
    /\ \A w \in Workers : pc[w] \in CallerPlaces
    /\ wpc \in [Workers -> WorkerPlaces]
    /\ cpc \in [Controllers -> ControlPlaces]
    /\ fpc \in [GameThreads -> FramePlaces]

Objects ==
    /\ instance \in 0 .. MaxInst
    /\ created \in 0 .. MaxInst
    /\ instance <= created
    /\ freed \subseteq 1 .. created
    /\ self \in [Threads -> 0 .. MaxInst]
    /\ \A t \in Threads : pc[t] # "out" => self[t] \in 1 .. created

DetOK == det \in [1 .. MaxInst -> DetectorType]

HooksOK == hookObj \in [APIs -> HookType]

Values ==
    /\ loaded \subseteq APIs
    /\ entry \in [APIs -> {"driver", "detector", "hook"}]
    /\ table \in {"driver", "detector", "hook"}
    /\ lib \in [Callers -> APIs]
    /\ restart \in [Callers -> BOOLEAN]
    /\ ret \in [Callers -> Results]
    /\ fault \in {"none", "null", "trampoline", "freed"}

Bridge ==
    /\ g_started \in BOOLEAN /\ g_stop \in BOOLEAN /\ g_ready \in BOOLEAN
    /\ g_renderer \in APIs \cup {"none"}
    /\ spawned \subseteq Workers
    /\ g_worker \in spawned \cup {NoThread}
    /\ \A w \in Workers : wpc[w] = "none" <=> w \notin spawned
    /\ victim \in [Controllers -> APIs \cup {"none"}]
    /\ \A c \in Controllers : cpc[c] \in {"unhook", "free"} => victim[c] # "none"
    /\ fgen \in [GameThreads -> Nat]
    /\ stops \in 0 .. MaxStops

\* A worker is inside the call that its place in WorkerMain says.
Calls ==
    \A w \in Workers :
        /\ pc[w] # "out" =>
             \/ wpc[w] \in {"stopFirst", "polled"} /\ pc[w] \in DetectPlaces
             \/ wpc[w] \in {"poll", "free"} /\ pc[w] = "sLock"
             \/ wpc[w] = "got" /\ pc[w] = "gLock"
             \/ wpc[w] = "end" /\ pc[w] \in FreePlaces
        /\ wpc[w] = "polled" => restart[w]

\* The renderer that a worker was given.
Returned ==
    \A w \in Workers :
        /\ wpc[w] = "got" /\ pc[w] = "out" => ret[w] \in APIs \cup {"none"}
        /\ wpc[w] \in {"own", "start", "startSaved"} => ret[w] \in APIs

Types == Places /\ Objects /\ DetOK /\ HooksOK /\ Values /\ Bridge /\ Calls /\ Returned

\* A step inside a call moves the worker within the call or out of it.
Moves(w, to) ==
    /\ Goto(w, to)
    /\ to \in CallerPlaces
    /\ pc[w] # "out" /\ pc[w] \in CallerPlaces
    /\ pc[w] \in DetectPlaces => to \in DetectPlaces \cup {"out"}
    /\ pc[w] \in {"sLock", "gLock"} => to = "out"
    /\ pc[w] \in FreePlaces => to \in FreePlaces \cup {"out"}

\* A step inside a call leads to a place of the same call or out of it.
LEMMA CallerMoves ==
  ASSUME NEW w \in Workers, CallerStep(w)
  PROVE  \E to \in CallerPlaces : Moves(w, to)
<1> USE DEF Moves, At, Within, CallerPlaces, FreePlaces, DetectPlaces, PassPlaces, ExitPlaces
<1>1. CASE DetectLock(w) \/ LibraryLock(w)
  BY <1>1 DEF DetectLock, LibraryLock, Acquire
<1>2. CASE DetectEnter(w)
  BY <1>2 DEF DetectEnter
<1>3. CASE DetectReset(w)
  BY <1>3 DEF DetectReset
<1>4. CASE SkipLibrary(w)
  BY <1>4 DEF SkipLibrary, NextLibrary
<1>5. CASE HookLibrary(w)
  BY <1>5 DEF HookLibrary, NextLibrary
<1>6. CASE Install(w) \/ FinishLock(w)
  BY <1>6 DEF Install, FinishLock
<1>7. CASE Record(w)
  BY <1>7 DEF Record, NextLibrary
<1>8. CASE Decide(w)
  BY <1>8 DEF Decide
<1>9. CASE ExitRestore(w) \/ ExitUnhook(w) \/ ExitDelete(w)
  BY <1>9 DEF ExitRestore, RestorePatches, ExitUnhook, UnhookAll, ExitDelete
<1>10. CASE Stop(w) \/ FreeStop(w)
  BY <1>10 DEF Stop, FreeStop, StopDetection
<1>11. CASE Get(w)
  BY <1>11 DEF Get
<1>12. CASE FreeDelete(w) \/ FreeMembers(w)
  BY <1>12 DEF FreeDelete, FreeMembers, UnhookAll
<1> QED
  BY <1>1, <1>2, <1>3, <1>4, <1>5, <1>6, <1>7, <1>8, <1>9, <1>10, <1>11, <1>12 DEF CallerStep

\* A step inside a present moves the game's thread within it or out of it.
LEMMA PresentMoves ==
  ASSUME NEW g \in GameThreads, PresentStep(g)
  PROVE  /\ pc[g] \in PresentPlaces /\ pc[g] # "out"
         /\ \/ \E to \in PresentPlaces : Goto(g, to)
            \/ pc' = pc
<1> USE DEF At, Within, PresentPlaces, LockedPresent
<1>1. CASE PresentLock(g)
  BY <1>1 DEF PresentLock
<1>2. CASE PresentCall(g)
  BY <1>2 DEF PresentCall
<1>3. CASE PresentCheck(g)
  BY <1>3 DEF PresentCheck
<1>4. CASE HandOffRestore(g) \/ HandOffUnhook(g)
  BY <1>4 DEF HandOffRestore, RestorePatches, HandOffUnhook, UnhookAll
<1>5. CASE HandOffRenderer(g) \/ HandOffDone(g) \/ PresentLeave(g)
  BY <1>5 DEF HandOffRenderer, HandOffDone, PresentLeave
<1> QED
  BY <1>1, <1>2, <1>3, <1>4, <1>5 DEF PresentStep

\* What no step inside a call changes.
LEMMA CallerKeeps ==
  ASSUME NEW w \in Workers, CallerStep(w)
  PROVE  UNCHANGED <<loaded, created, self, restart, fault>>
<1>1. CASE DetectLock(w) \/ LibraryLock(w)
  BY <1>1 DEF DetectLock, LibraryLock, Acquire
<1>2. CASE DetectEnter(w) \/ DetectReset(w) \/ SkipLibrary(w) \/ HookLibrary(w)
  BY <1>2 DEF DetectEnter, DetectReset, SkipLibrary, HookLibrary
<1>3. CASE Install(w) \/ Record(w) \/ FinishLock(w) \/ Decide(w)
  BY <1>3 DEF Install, Record, FinishLock, Decide
<1>4. CASE ExitRestore(w) \/ ExitUnhook(w) \/ ExitDelete(w)
  BY <1>4 DEF ExitRestore, ExitUnhook, ExitDelete
<1>5. CASE Stop(w) \/ FreeStop(w) \/ Get(w)
  BY <1>5 DEF Stop, FreeStop, StopDetection, Get
<1>6. CASE FreeDelete(w) \/ FreeMembers(w)
  BY <1>6 DEF FreeDelete, FreeMembers
<1> QED
  BY <1>1, <1>2, <1>3, <1>4, <1>5, <1>6 DEF CallerStep

\* Only FreeDetector takes the detector out of _Instance and frees it.
LEMMA CallerFrees ==
  ASSUME NEW w \in Workers, CallerStep(w)
  PROVE  /\ \/ UNCHANGED instance
            \/ instance' = 0 /\ pc[w] = "fDelete" /\ Goto(w, "fMembers")
         /\ \/ UNCHANGED freed
            \/ /\ freed' = freed \cup {self[w]} /\ pc[w] = "fMembers"
               /\ Goto(w, "out") /\ UNCHANGED instance
<1>1. CASE DetectLock(w) \/ LibraryLock(w)
  BY <1>1 DEF DetectLock, LibraryLock, Acquire
<1>2. CASE DetectEnter(w) \/ DetectReset(w) \/ SkipLibrary(w) \/ HookLibrary(w)
  BY <1>2 DEF DetectEnter, DetectReset, SkipLibrary, HookLibrary
<1>3. CASE Install(w) \/ Record(w) \/ FinishLock(w) \/ Decide(w)
  BY <1>3 DEF Install, Record, FinishLock, Decide
<1>4. CASE ExitRestore(w) \/ ExitUnhook(w) \/ ExitDelete(w)
  BY <1>4 DEF ExitRestore, ExitUnhook, ExitDelete
<1>5. CASE Stop(w) \/ FreeStop(w) \/ Get(w)
  BY <1>5 DEF Stop, FreeStop, StopDetection, Get
<1>6. CASE FreeDelete(w) \/ FreeMembers(w)
  BY <1>6 DEF FreeDelete, FreeMembers, UnhookAll, Within, At
<1> QED
  BY <1>1, <1>2, <1>3, <1>4, <1>5, <1>6 DEF CallerStep

\* What no step inside a present changes.
LEMMA PresentKeeps ==
  ASSUME NEW g \in GameThreads, PresentStep(g)
  PROVE  UNCHANGED <<loaded, hookObj, instance, created, freed, self, lib, restart, ret>>
<1>1. CASE PresentLock(g) \/ PresentCall(g) \/ PresentCheck(g)
  BY <1>1 DEF PresentLock, PresentCall, PresentCheck
<1>2. CASE HandOffRestore(g) \/ HandOffUnhook(g)
  BY <1>2 DEF HandOffRestore, HandOffUnhook
<1>3. CASE HandOffRenderer(g) \/ HandOffDone(g) \/ PresentLeave(g)
  BY <1>3 DEF HandOffRenderer, HandOffDone, PresentLeave
<1> QED
  BY <1>1, <1>2, <1>3 DEF PresentStep

-----------------------------------------------------------------------------

\* The steps of Next, by what they are to the detector.
Begin(w) == \/ FirstPass(w) \/ StopFirst(w) \/ PollAgain(w) \/ GetRenderer(w)
            \/ GiveUp(w) \/ FreeLast(w)

Between(w) == \/ PollEnd(w) \/ Polled(w) \/ Got(w) \/ Own(w) \/ StartHook(w)
              \/ StartHookSaved(w) \/ WorkerEnd(w)

Frame(g) == \/ FrameEnter(g) \/ FrameReady(g) \/ FrameSkip(g) \/ FrameCallback(g)
            \/ FrameState(g) \/ FrameDraw(g) \/ FrameOriginal(g)
            \/ FrameOriginalLost(g) \/ FrameUseFreed(g)

Idle == \/ (\E t \in Threads : UseFreed(t) /\ UNCHANGED bridgeVars)
        \/ Load
        \/ UNCHANGED vars

\* Every step is one of these.
LEMMA NextSteps ==
  ASSUME [Next]_vars
  PROVE  \/ \E c \in Controllers : Controller(c)
         \/ \E w \in Workers : CallerStep(w) /\ UNCHANGED bridgeVars
         \/ \E w \in Workers : Begin(w)
         \/ \E w \in Workers : Between(w)
         \/ \E g \in GameThreads : fpc[g] = "out" /\ Present(g) /\ UNCHANGED bridgeVars
         \/ \E g \in GameThreads : PresentStep(g) /\ UNCHANGED bridgeVars
         \/ \E g \in GameThreads : Frame(g)
         \/ Idle
BY DEF Next, Worker, Game, Begin, Between, Frame, Idle, Crashed

\* The call that a worker begins.
CallBegun(w) ==
    \/ wpc[w] = "begin" /\ wpc'[w] = "stopFirst" /\ pc'[w] = "dLock"
    \/ wpc[w] = "stopFirst" /\ wpc'[w] = "poll" /\ pc'[w] = "sLock"
    \/ wpc[w] = "poll" /\ wpc'[w] = "polled" /\ pc'[w] = "dLock" /\ restart'[w]
    \/ wpc[w] = "get" /\ wpc'[w] = "got" /\ pc'[w] = "gLock"
    \/ wpc[w] = "giveUp" /\ wpc'[w] = "free" /\ pc'[w] = "sLock"
    \/ wpc[w] = "free" /\ wpc'[w] = "end" /\ pc'[w] = "fStop"

\* Beginning a call takes the singleton and moves the worker into the call.
LEMMA Begins ==
  ASSUME NEW w \in Workers, Begin(w), Places, Values
  PROVE  /\ fault = "none" /\ pc[w] = "out"
         /\ \E to \in {"dLock", "sLock", "gLock", "fStop"} : TakeInst(w, to)
         /\ \E to \in WorkerPlaces : wpc' = [wpc EXCEPT ![w] = to]
         /\ CallBegun(w)
         /\ restart' \in [Callers -> BOOLEAN]
         /\ \A x \in Workers : x # w => restart'[x] = restart[x]
         /\ UNCHANGED <<loaded, redirects, hookObj, freed, det, lib, ret, fault, sharedVars>>
<1> USE DEF WGo, WorkerPlaces, CallBegun, Places, Values, TakeInst, Goto, Threads
<1>1. CASE FirstPass(w)
  BY <1>1 DEF FirstPass, DetectCall
<1>2. CASE PollAgain(w)
  BY <1>2 DEF PollAgain, DetectCall
<1>3. CASE StopFirst(w)
  BY <1>3 DEF StopFirst, StopCall, Call
<1>4. CASE GetRenderer(w)
  BY <1>4 DEF GetRenderer, GetCall, Call
<1>5. CASE GiveUp(w)
  BY <1>5 DEF GiveUp, StopCall, Call
<1>6. CASE FreeLast(w)
  BY <1>6 DEF FreeLast, FreeCall, Call
<1> QED
  BY <1>1, <1>2, <1>3, <1>4, <1>5, <1>6 DEF Begin

coreVars == <<loaded, instance, created, freed, det, pc, self, lib, restart, ret>>

\* Between two calls a worker touches neither detector nor singleton.
LEMMA Betweens ==
  ASSUME NEW w \in Workers, Between(w)
  PROVE  /\ pc[w] = "out" /\ fault = "none"
         /\ \E to \in {"poll", "get", "giveUp", "own", "start", "startSaved", "free", "ended"} :
                wpc' = [wpc EXCEPT ![w] = to]
         /\ wpc[w] \in WorkerPlaces \ {"none", "begin", "ended"}
         /\ UNCHANGED <<coreVars, fault, g_started, g_stop, g_ready, g_worker,
                        spawned, cpc, victim, fpc, fgen, stops>>
<1> USE DEF WGo, WorkerPlaces, coreVars, detVars, sharedVars
<1>1. CASE PollEnd(w) \/ WorkerEnd(w)
  BY <1>1 DEF PollEnd, WorkerEnd
<1>2. CASE Polled(w)
  BY <1>2 DEF Polled
<1>3. CASE Got(w)
  BY <1>3 DEF Got
<1>4. CASE Own(w)
  BY <1>4 DEF Own
<1>5. CASE StartHook(w)
  BY <1>5 DEF StartHook
<1>6. CASE StartHookSaved(w)
  BY <1>6 DEF StartHookSaved
<1> QED
  BY <1>1, <1>2, <1>3, <1>4, <1>5, <1>6 DEF Between

\* start and stop touch neither detector nor singleton.
LEMMA Controls ==
  ASSUME NEW c \in Controllers, Controller(c)
  PROVE  /\ fault = "none"
         /\ cpc[c] \in ControlPlaces
         /\ \E to \in ControlPlaces : cpc' = [cpc EXCEPT ![c] = to]
         /\ UNCHANGED <<coreVars, fault, fpc, fgen>>
<1> USE DEF CGo, ControlPlaces, StopPlaces, coreVars, detVars
<1>1. CASE StartExchange(c) \/ StartClear(c) \/ StartSpawn(c)
  BY <1>1 DEF StartExchange, StartClear, StartSpawn
<1>2. CASE StopExchange(c) \/ StopSignal(c) \/ StopJoin(c) \/ StopTake(c)
  BY <1>2 DEF StopExchange, StopSignal, StopJoin, StopTake
<1>3. CASE StopNotify(c)
  BY <1>3 DEF StopNotify
<1>4. CASE StopUnhook(c) \/ StopFree(c) \/ StopReturn(c)
  BY <1>4 DEF StopUnhook, StopFree, StopReturn
<1> QED
  BY <1>1, <1>2, <1>3, <1>4 DEF Controller

\* A frame through the hook touches neither detector nor singleton.
LEMMA Frames ==
  ASSUME NEW g \in GameThreads, Frame(g)
  PROVE  /\ fault = "none"
         /\ \/ UNCHANGED fpc
            \/ \E to \in FramePlaces : fpc' = [fpc EXCEPT ![g] = to]
         /\ \/ UNCHANGED fgen
            \/ fgen' = [fgen EXCEPT ![g] = hookObj[PresentAPI[g]].gen]
         /\ \/ UNCHANGED fault
            \/ UNCHANGED hookObj /\ fault' \in {"null", "trampoline", "freed"}
         /\ UNCHANGED g_ready \/ g_ready' = TRUE
         /\ UNCHANGED frameFrame
<1> USE DEF FGo, FramePlaces
<1>1. CASE FrameEnter(g)
  BY <1>1 DEF FrameEnter
<1>2. CASE FrameReady(g) \/ FrameSkip(g)
  BY <1>2 DEF FrameReady, FrameSkip
<1>3. CASE FrameCallback(g) \/ FrameState(g) \/ FrameDraw(g)
  BY <1>3 DEF FrameCallback, FrameState, FrameDraw
<1>4. CASE FrameOriginal(g)
  BY <1>4 DEF FrameOriginal
<1>5. CASE FrameOriginalLost(g)
  BY <1>5 DEF FrameOriginalLost
<1>6. CASE FrameUseFreed(g)
  BY <1>6 DEF FrameUseFreed
<1> QED
  BY <1>1, <1>2, <1>3, <1>4, <1>5, <1>6 DEF Frame

\* Loading a library or crashing changes nothing else.
LEMMA Idles ==
  ASSUME Idle
  PROVE  UNCHANGED <<redirects, hookObj, instance, created, freed, det, pc, self,
                     lib, restart, ret, bridgeVars>>
BY DEF Idle, UseFreed, Load, LoadLibrary, vars, detVars

-----------------------------------------------------------------------------

\* Threads stay in places they have.
LEMMA PlacesStep ==
  ASSUME Places, Values, [Next]_vars
  PROVE  Places'
<1> USE DEF Places
<1>1. CASE \E c \in Controllers : Controller(c)
  <2>1. PICK c \in Controllers : Controller(c)
    BY <1>1
  <2>2. cpc' \in [Controllers -> ControlPlaces]
    BY <2>1, Controls
  <2>3. wpc' \in [Workers -> WorkerPlaces]
    BY <2>1 DEF Controller, StartExchange, StartClear, StartSpawn, StopExchange,
       StopSignal, StopJoin, StopTake, StopNotify, StopUnhook, StopFree, StopReturn,
       WorkerPlaces
  <2> QED
    BY <2>1, <2>2, <2>3, Controls DEF coreVars
<1>2. ASSUME NEW w \in Workers, CallerStep(w), UNCHANGED bridgeVars
      PROVE  Places'
  BY <1>2, CallerMoves, ThreadAssumption DEF Moves, Goto, Threads, bridgeVars
<1>3. ASSUME NEW w \in Workers, Begin(w)
      PROVE  Places'
  BY <1>3, Begins, ThreadAssumption DEF TakeInst, Goto, Threads, sharedVars, CallerPlaces,
     DetectPlaces, FreePlaces
<1>4. ASSUME NEW w \in Workers, Between(w)
      PROVE  Places'
  BY <1>4, Betweens DEF coreVars, WorkerPlaces
<1>5. ASSUME NEW g \in GameThreads, fpc[g] = "out", Present(g), UNCHANGED bridgeVars
      PROVE  Places'
  BY <1>5, ThreadAssumption DEF Present, TakeInst, Goto, Threads, PresentPlaces, bridgeVars
<1>6. ASSUME NEW g \in GameThreads, PresentStep(g), UNCHANGED bridgeVars
      PROVE  Places'
  BY <1>6, PresentMoves, ThreadAssumption DEF Goto, Threads, bridgeVars
<1>7. ASSUME NEW g \in GameThreads, Frame(g)
      PROVE  Places'
  BY <1>7, Frames DEF frameFrame
<1>8. CASE Idle
  BY <1>8, Idles DEF bridgeVars
<1> QED
  BY <1>1, <1>2, <1>3, <1>4, <1>5, <1>6, <1>7, <1>8, NextSteps

\* Detectors are numbered as they are constructed.
LEMMA ObjectsStep ==
  ASSUME Places, Values, Objects, [Next]_vars
  PROVE  Objects'
<1> USE DEF Objects
<1>1. CASE \E c \in Controllers : Controller(c)
  BY <1>1, Controls DEF coreVars
<1>2. ASSUME NEW w \in Workers, CallerStep(w), UNCHANGED bridgeVars
      PROVE  Objects'
  <2>1. self[w] \in 1 .. created /\ self[w] \in 1 .. created'
    BY <1>2, CallerMoves, CallerKeeps DEF Moves, Threads
  <2>2. \A t \in Threads : pc'[t] # "out" => pc[t] # "out"
    BY <1>2, CallerMoves DEF Moves, Goto, Places, Threads
  <2>3. UNCHANGED <<self, created>>
    BY <1>2, CallerKeeps
  <2>4. instance' \in {0, instance}
    BY <1>2, CallerFrees
  <2>5. freed' \subseteq freed \cup {self[w]}
    BY <1>2, CallerFrees
  <2> QED
    BY <2>1, <2>2, <2>3, <2>4, <2>5, InstAssumption
<1>3. ASSUME NEW t \in Threads, NEW to, TakeInst(t, to), UNCHANGED freed
      PROVE  Objects'
  BY <1>3, InstAssumption DEF TakeInst, Goto
<1>4. ASSUME NEW w \in Workers, Between(w)
      PROVE  Objects'
  BY <1>4, Betweens DEF coreVars
<1>6. ASSUME NEW g \in GameThreads, PresentStep(g), UNCHANGED bridgeVars
      PROVE  Objects'
  BY <1>6, PresentMoves, PresentKeeps, ThreadAssumption DEF Goto, Threads, Places
<1>7. ASSUME NEW g \in GameThreads, Frame(g)
      PROVE  Objects'
  BY <1>7, Frames DEF frameFrame
<1>8. CASE Idle
  BY <1>8, Idles
<1> QED
  BY <1>1, <1>2, <1>3, <1>4, <1>6, <1>7, <1>8, NextSteps, Begins DEF Present, Threads

-----------------------------------------------------------------------------

(* What the steps do to the members of a detector.                         *)

Changed(i, d) == d \in DetectorType /\ det' = [det EXCEPT ![i] = d]

\* One detector changes, the others stay.
LEMMA ChangedAt ==
  ASSUME NEW i \in 1 .. MaxInst, NEW d, Changed(i, d), DetOK
  PROVE  /\ DetOK' /\ det'[i] = d
         /\ \A j \in 1 .. MaxInst : j # i => det'[j] = det[j]
BY DEF Changed, DetOK

\* No member but the mutex changes.
Quiet == \A i \in 1 .. MaxInst :
    /\ det'[i].started = det[i].started /\ det'[i].done = det[i].done
    /\ det'[i].renderer = det[i].renderer /\ det'[i].hooked = det[i].hooked
    /\ det'[i].hook = det[i].hook /\ det'[i].orig = det[i].orig
    /\ det'[i].detours = det[i].detours /\ det'[i].patched = det[i].patched

\* Taking or releasing the mutex changes no other member.
LEMMA Relocked ==
  ASSUME NEW i \in 1 .. MaxInst, NEW l \in Threads \cup {NoThread}, DetOK,
         det' = [det EXCEPT ![i].lock = l]
  PROVE  /\ Changed(i, [det[i] EXCEPT !.lock = l]) /\ Quiet /\ DetOK'
         /\ det'[i].lock = l /\ \A j \in 1 .. MaxInst : j # i => det'[j] = det[j]
<1>1. det[i] \in DetectorType
  BY DEF DetOK
<1>2. [det[i] EXCEPT !.lock = l] \in DetectorType
  BY <1>1 DEF DetectorType
<1>3. det' = [det EXCEPT ![i] = [det[i] EXCEPT !.lock = l]]
  OBVIOUS
<1>4. Changed(i, [det[i] EXCEPT !.lock = l])
  BY <1>2, <1>3 DEF Changed
<1> DEFINE d == [det[i] EXCEPT !.lock = l]
<1>5. /\ d.started = det[i].started /\ d.done = det[i].done
      /\ d.renderer = det[i].renderer /\ d.hooked = det[i].hooked
      /\ d.hook = det[i].hook /\ d.orig = det[i].orig
      /\ d.detours = det[i].detours /\ d.patched = det[i].patched
      /\ d.lock = l
  BY <1>1 DEF DetectorType
<1> HIDE DEF d
<1>6. DetOK' /\ det'[i] = d /\ \A j \in 1 .. MaxInst : j # i => det'[j] = det[j]
  BY <1>4, ChangedAt DEF d
<1> QED
  BY <1>4, <1>5, <1>6 DEF Quiet, d

\* Nothing changes when no detector does.
LEMMA Still == ASSUME DetOK, UNCHANGED det PROVE Quiet /\ DetOK'
BY DEF Quiet, DetOK

\* What each step leaves in the members of its detector: DetectReset,
LEMMA ResetChanges ==
  ASSUME NEW w \in Workers, DetOK, self[w] \in 1 .. MaxInst, DetectReset(w)
  PROVE  Changed(self[w], [Mine(w) EXCEPT !.started = FALSE, !.done = FALSE,
                                          !.lock = NoThread])
<1> DEFINE i == self[w]
           d == [det[i] EXCEPT !.started = FALSE, !.done = FALSE, !.lock = NoThread]
<1>1. det[i] \in DetectorType
  BY DEF DetOK
<1>2. d \in DetectorType
  BY <1>1 DEF DetectorType
<1>3. det' = [det EXCEPT ![i] = d]
  BY DEF DetectReset
<1> QED
  BY <1>2, <1>3 DEF Changed, Mine

\* _HookOpenGLX and _HookVulkan,
LEMMA HookChanges ==
  ASSUME NEW w \in Workers, DetOK, self[w] \in 1 .. MaxInst, lib[w] \in APIs,
         HookLibrary(w), pc'[w] = "dInstall", Places, NEW a, a = lib[w]
  PROVE  Changed(self[w], [Mine(w) EXCEPT !.hooked[a] = TRUE, !.hook[a] = TRUE,
                                          !.orig[a] = "raw"])
<1> DEFINE i == self[w]
           d == [det[i] EXCEPT !.hooked[a] = TRUE, !.hook[a] = TRUE, !.orig[a] = "raw"]
<1>1. det[i] \in DetectorType
  BY DEF DetOK
<1>2. d \in DetectorType
  BY <1>1 DEF DetectorType
<1>3. det' = [det EXCEPT ![i].hooked[a] = TRUE, ![i].hook[a] = TRUE,
                         ![i].orig[a] = "raw"]
  BY DEF HookLibrary, NextLibrary, Goto, Places, Threads
<1>4. det' = [det EXCEPT ![i] = d]
  BY <1>3
<1> QED
  BY <1>2, <1>4 DEF Changed, Mine

\* what they record of the redirection,
LEMMA RecordChanges ==
  ASSUME NEW w \in Workers, DetOK, self[w] \in 1 .. MaxInst, lib[w] \in APIs,
         Record(w), NEW a, a = lib[w], NEW detour \in BOOLEAN,
         detour = (entry[a] = "detector")
  PROVE  Changed(self[w],
           [Mine(w) EXCEPT
              !.patched = Mine(w).patched \/ ~ detour,
              !.detours = IF detour THEN Mine(w).detours \cup {a} ELSE Mine(w).detours,
              !.orig[a] = IF detour THEN "tramp" ELSE Mine(w).orig[a],
              !.lock = NoThread])
<1> DEFINE i == self[w]
           p == det[i].patched \/ ~ detour
           q == IF detour THEN det[i].detours \cup {a} ELSE det[i].detours
           r == IF detour THEN "tramp" ELSE det[i].orig[a]
           d == [det[i] EXCEPT !.patched = p, !.detours = q, !.orig[a] = r,
                               !.lock = NoThread]
<1>1. det[i] \in DetectorType
  BY DEF DetOK
<1>2. d \in DetectorType
  <2>1. /\ p \in BOOLEAN /\ q \in SUBSET APIs /\ r \in {"null", "raw", "tramp"}
        /\ det[i].orig \in [APIs -> {"null", "raw", "tramp"}]
    BY <1>1 DEF DetectorType
  <2> HIDE DEF p, q, r
  <2>2. [det[i].orig EXCEPT ![a] = r] \in [APIs -> {"null", "raw", "tramp"}]
    BY <2>1
  <2> QED
    BY <1>1, <2>1, <2>2 DEF DetectorType
<1>3. det' = [det EXCEPT ![i].patched = @ \/ ~ detour,
                         ![i].detours = IF detour THEN @ \cup {a} ELSE @,
                         ![i].orig[a] = IF detour THEN "tramp" ELSE @,
                         ![i].lock = NoThread]
  BY Zenon DEF Record
<1>4. det' = [det EXCEPT ![i].patched = p, ![i].detours = q, ![i].orig[a] = r,
                         ![i].lock = NoThread]
  BY <1>1, <1>3 DEF DetOK, DetectorType
<1> HIDE DEF p, q, r
<1>5. det' = [det EXCEPT ![i] = [det[i] EXCEPT !.patched = p, !.detours = q,
                                               !.orig[a] = r, !.lock = NoThread]]
  BY <1>4, Zenon
<1>6. Changed(i, d)
  BY <1>2, <1>5 DEF Changed
<1> QED
  BY <1>6 DEF Mine, p, q, r

\* the end of a pass,
LEMMA FinishChanges ==
  ASSUME NEW w \in Workers, DetOK, self[w] \in 1 .. MaxInst, FinishLock(w)
  PROVE  Changed(self[w], [Mine(w) EXCEPT !.lock = w, !.started = TRUE])
<1> DEFINE i == self[w]
           d == [det[i] EXCEPT !.lock = w, !.started = TRUE]
<1>1. det[i] \in DetectorType
  BY DEF DetOK
<1>2. d \in DetectorType
  BY <1>1 DEF DetectorType, Threads
<1>3. det' = [det EXCEPT ![i].lock = w, ![i].started = TRUE]
  BY DEF FinishLock
<1>4. det' = [det EXCEPT ![i] = d]
  BY <1>3
<1> QED
  BY <1>2, <1>4 DEF Changed, Mine

\* _ExitDetection: the patched pointers,
LEMMA RestoreChanges ==
  ASSUME NEW w \in Workers, DetOK, self[w] \in 1 .. MaxInst, ExitRestore(w)
  PROVE  Changed(self[w], [Mine(w) EXCEPT !.done = TRUE, !.patched = FALSE])
<1> DEFINE i == self[w]
           d == [det[i] EXCEPT !.done = TRUE, !.patched = FALSE]
<1>1. det[i] \in DetectorType
  BY DEF DetOK
<1>2. d \in DetectorType
  BY <1>1 DEF DetectorType
<1>3. det' = [det EXCEPT ![i].done = TRUE, ![i].patched = FALSE]
  BY DEF ExitRestore
<1>4. det' = [det EXCEPT ![i] = d]
  BY <1>3
<1> QED
  BY <1>2, <1>4 DEF Changed, Mine

\* the detours,
LEMMA UnhookChanges ==
  ASSUME NEW w \in Workers, DetOK, self[w] \in 1 .. MaxInst, ExitUnhook(w)
  PROVE  Changed(self[w], [Mine(w) EXCEPT !.detours = {}])
<1> DEFINE i == self[w]
           d == [det[i] EXCEPT !.detours = {}]
<1>1. det[i] \in DetectorType
  BY DEF DetOK
<1>2. d \in DetectorType
  BY <1>1 DEF DetectorType
<1>3. det' = [det EXCEPT ![i].detours = {}]
  BY DEF ExitUnhook
<1>4. det' = [det EXCEPT ![i] = d]
  BY <1>3
<1> QED
  BY <1>2, <1>4 DEF Changed, Mine

\* the hook objects,
LEMMA DeleteChanges ==
  ASSUME NEW w \in Workers, DetOK, self[w] \in 1 .. MaxInst, ExitDelete(w)
  PROVE  Changed(self[w], [Mine(w) EXCEPT !.hooked = [a \in APIs |-> FALSE],
                             !.hook = [a \in APIs |-> FALSE], !.lock = NoThread])
<1> DEFINE i == self[w]
           d == [det[i] EXCEPT !.hooked = [a \in APIs |-> FALSE],
                             !.hook = [a \in APIs |-> FALSE], !.lock = NoThread]
<1>1. det[i] \in DetectorType
  BY DEF DetOK
<1>2. d \in DetectorType
  BY <1>1 DEF DetectorType
<1>3. det' = [det EXCEPT ![i].hooked = [a \in APIs |-> FALSE],
                         ![i].hook = [a \in APIs |-> FALSE], ![i].lock = NoThread]
  BY DEF ExitDelete
<1>4. det' = [det EXCEPT ![i] = d]
  BY <1>3
<1> QED
  BY <1>2, <1>4 DEF Changed, Mine

\* StopRendererDetection and the destructor,
LEMMA StopChanges ==
  ASSUME NEW w \in Workers, DetOK, self[w] \in 1 .. MaxInst, Stop(w) \/ FreeStop(w)
  PROVE  Changed(self[w], [Mine(w) EXCEPT !.done = TRUE])
<1> DEFINE i == self[w]
           d == [det[i] EXCEPT !.done = TRUE]
<1>1. det[i] \in DetectorType
  BY DEF DetOK
<1>2. d \in DetectorType
  BY <1>1 DEF DetectorType
<1>3. det' = [det EXCEPT ![i].done = TRUE]
  BY DEF Stop, FreeStop, StopDetection
<1>4. det' = [det EXCEPT ![i] = d]
  BY <1>3
<1> QED
  BY <1>2, <1>4 DEF Changed, Mine

\* which leaves memory like that of no detector,
LEMMA FreeChanges ==
  ASSUME NEW w \in Workers, DetOK, FreeMembers(w)
  PROVE  Changed(self[w], NewDetector)
BY DEF Changed, FreeMembers, NewDetector, DetectorType

\* _HookDetected: the patched pointers,
LEMMA HandRestoreChanges ==
  ASSUME NEW g \in GameThreads, DetOK, self[g] \in 1 .. MaxInst, HandOffRestore(g)
  PROVE  Changed(self[g], [Mine(g) EXCEPT !.patched = FALSE])
<1> DEFINE i == self[g]
           d == [det[i] EXCEPT !.patched = FALSE]
<1>1. det[i] \in DetectorType
  BY DEF DetOK
<1>2. d \in DetectorType
  BY <1>1 DEF DetectorType
<1>3. det' = [det EXCEPT ![i].patched = FALSE]
  BY DEF HandOffRestore
<1>4. det' = [det EXCEPT ![i] = d]
  BY <1>3
<1> QED
  BY <1>2, <1>4 DEF Changed, Mine

\* the detours,
LEMMA HandUnhookChanges ==
  ASSUME NEW g \in GameThreads, DetOK, self[g] \in 1 .. MaxInst, HandOffUnhook(g)
  PROVE  Changed(self[g], [Mine(g) EXCEPT !.detours = {}])
<1> DEFINE i == self[g]
           d == [det[i] EXCEPT !.detours = {}]
<1>1. det[i] \in DetectorType
  BY DEF DetOK
<1>2. d \in DetectorType
  BY <1>1 DEF DetectorType
<1>3. det' = [det EXCEPT ![i].detours = {}]
  BY DEF HandOffUnhook
<1>4. det' = [det EXCEPT ![i] = d]
  BY <1>3
<1> QED
  BY <1>2, <1>4 DEF Changed, Mine

\* the flag,
LEMMA HandDoneChanges ==
  ASSUME NEW g \in GameThreads, DetOK, self[g] \in 1 .. MaxInst, HandOffDone(g)
  PROVE  Changed(self[g], [Mine(g) EXCEPT !.done = TRUE])
<1> DEFINE i == self[g]
           d == [det[i] EXCEPT !.done = TRUE]
<1>1. det[i] \in DetectorType
  BY DEF DetOK
<1>2. d \in DetectorType
  BY <1>1 DEF DetectorType
<1>3. det' = [det EXCEPT ![i].done = TRUE]
  BY DEF HandOffDone
<1>4. det' = [det EXCEPT ![i] = d]
  BY <1>3
<1> QED
  BY <1>2, <1>4 DEF Changed, Mine

\* the renderer that is handed over.
LEMMA HandChanges ==
  ASSUME NEW g \in GameThreads, DetOK, self[g] \in 1 .. MaxInst, HandOffRenderer(g),
         NEW a \in APIs, a = PresentAPI[g], NEW r, r = IF Mine(g).hook[a] THEN a ELSE "none"
  PROVE  Changed(self[g], [Mine(g) EXCEPT !.renderer = r, !.hook[a] = FALSE])
<1> DEFINE i == self[g]
           d == [det[i] EXCEPT !.renderer = r, !.hook[a] = FALSE]
<1>1. det[i] \in DetectorType
  BY DEF DetOK
<1>2. d \in DetectorType
  BY <1>1 DEF DetectorType
<1>3. det' = [det EXCEPT ![i].renderer = r, ![i].hook[a] = FALSE]
  BY DEF HandOffRenderer, Mine
<1>4. det' = [det EXCEPT ![i] = d]
  BY <1>3
<1> QED
  BY <1>2, <1>4 DEF Changed, Mine

-----------------------------------------------------------------------------

\* What a worker's step does to the detectors.
LEMMA CallerDet ==
  ASSUME NEW w \in Workers, Places, Objects, DetOK, lib[w] \in APIs, CallerStep(w)
  PROVE  /\ DetOK'
         /\ \A j \in 1 .. MaxInst : j # self[w] => det'[j] = det[j]
         /\ \/ Quiet
            \/ DetectReset(w) \/ (HookLibrary(w) /\ pc'[w] = "dInstall") \/ Record(w)
            \/ FinishLock(w) \/ ExitRestore(w) \/ ExitUnhook(w) \/ ExitDelete(w)
            \/ Stop(w) \/ FreeStop(w) \/ FreeMembers(w)
<1>0. self[w] \in 1 .. MaxInst /\ w \in Threads
  BY CallerMoves DEF Moves, Objects, Threads
<1>1. CASE DetectLock(w) \/ LibraryLock(w)
  <2>1. det' = [det EXCEPT ![self[w]].lock = w]
    BY <1>1 DEF DetectLock, LibraryLock, Acquire
  <2> QED
    BY <1>0, <2>1, Relocked
<1>2. CASE DetectEnter(w) \/ Decide(w) \/ SkipLibrary(w) \/ Install(w) \/ Get(w)
           \/ FreeDelete(w) \/ (HookLibrary(w) /\ pc'[w] # "dInstall")
  <2>1. UNCHANGED det \/ det' = [det EXCEPT ![self[w]].lock = NoThread]
    BY <1>2, <1>0 DEF DetectEnter, Decide, SkipLibrary, Install, Get, FreeDelete,
       HookLibrary, Goto, Places
  <2>2. CASE UNCHANGED det
    BY <2>2, Still
  <2>3. CASE det' = [det EXCEPT ![self[w]].lock = NoThread]
    BY <1>0, <2>3, Relocked
  <2> QED
    BY <2>1, <2>2, <2>3
<1>3. CASE DetectReset(w)
  BY <1>0, <1>3, ResetChanges, ChangedAt, Zenon
<1>4. CASE HookLibrary(w) /\ pc'[w] = "dInstall"
  BY <1>0, <1>4, HookChanges, ChangedAt, Zenon
<1>5. CASE Record(w)
  <2> DEFINE a == lib[w]
             detour == entry[a] = "detector"
             d == [Mine(w) EXCEPT
              !.patched = Mine(w).patched \/ ~ detour,
              !.detours = IF detour THEN Mine(w).detours \cup {a} ELSE Mine(w).detours,
              !.orig[a] = IF detour THEN "tramp" ELSE Mine(w).orig[a],
              !.lock = NoThread]
  <2>1. Changed(self[w], d)
    BY <1>0, <1>5, RecordChanges, Zenon
  <2> HIDE DEF d
  <2> QED
    BY <1>0, <1>5, <2>1, ChangedAt
<1>6. CASE FinishLock(w)
  BY <1>0, <1>6, FinishChanges, ChangedAt, Zenon
<1>7. CASE ExitRestore(w)
  BY <1>0, <1>7, RestoreChanges, ChangedAt, Zenon
<1>8. CASE ExitUnhook(w)
  BY <1>0, <1>8, UnhookChanges, ChangedAt
<1>9. CASE ExitDelete(w)
  BY <1>0, <1>9, DeleteChanges, ChangedAt, Zenon
<1>10. CASE Stop(w) \/ FreeStop(w)
  BY <1>0, <1>10, StopChanges, ChangedAt
<1>11. CASE FreeMembers(w)
  BY <1>0, <1>11, FreeChanges, ChangedAt
<1> QED
  BY <1>1, <1>2, <1>3, <1>4, <1>5, <1>6, <1>7, <1>8, <1>9, <1>10, <1>11 DEF CallerStep

\* A step inside a present changes the mutex, or hands over.
LEMMA PresentDet ==
  ASSUME NEW g \in GameThreads, Places, Objects, DetOK, PresentStep(g)
  PROVE  /\ DetOK'
         /\ \A j \in 1 .. MaxInst : j # self[g] => det'[j] = det[j]
         /\ \/ Quiet
            \/ HandOffRestore(g) \/ HandOffUnhook(g) \/ HandOffRenderer(g)
            \/ HandOffDone(g)
<1>0. self[g] \in 1 .. MaxInst /\ g \in Threads
  BY PresentMoves DEF Objects, Threads
<1>1. CASE PresentLock(g)
  <2>1. UNCHANGED det \/ det' = [det EXCEPT ![self[g]].lock = g]
    BY <1>1 DEF PresentLock
  <2> QED
    BY <1>0, <2>1, Relocked, Still
<1>2. CASE PresentCall(g) \/ PresentCheck(g)
  BY <1>2, Still DEF PresentCall, PresentCheck
<1>3. CASE PresentLeave(g)
  <2> DEFINE l == IF det[self[g]].lock = g THEN NoThread ELSE det[self[g]].lock
  <2>1. det' = [det EXCEPT ![self[g]].lock = l]
    BY <1>3 DEF PresentLeave
  <2>2. l \in Threads \cup {NoThread}
    BY <1>0 DEF DetOK, DetectorType
  <2> HIDE DEF l
  <2> QED
    BY <1>0, <2>1, <2>2, Relocked
<1>4. CASE HandOffRestore(g)
  BY <1>0, <1>4, HandRestoreChanges, ChangedAt
<1>5. CASE HandOffUnhook(g)
  BY <1>0, <1>5, HandUnhookChanges, ChangedAt
<1>6. CASE HandOffRenderer(g)
  BY <1>0, <1>6, HandChanges, ChangedAt, APIAssumption, Zenon
<1>7. CASE HandOffDone(g)
  BY <1>0, <1>7, HandDoneChanges, ChangedAt
<1> QED
  BY <1>1, <1>2, <1>3, <1>4, <1>5, <1>6, <1>7 DEF PresentStep

\* The members of a detector keep their types.
LEMMA DetStep ==
  ASSUME Types, [Next]_vars
  PROVE  DetOK'
<1> USE DEF Types
<1>1. ASSUME NEW w \in Workers, CallerStep(w)
      PROVE  DetOK'
  BY <1>1, CallerDet DEF Values
<1>2. ASSUME NEW g \in GameThreads, PresentStep(g)
      PROVE  DetOK'
  BY <1>2, PresentDet
<1>3. CASE UNCHANGED det
  BY <1>3 DEF DetOK
<1> QED
  BY <1>1, <1>2, <1>3, NextSteps, Begins, Betweens, Controls, Frames, Idles
     DEF Present, coreVars, frameFrame

-----------------------------------------------------------------------------

HookChanged(a, h) == h \in HookType /\ hookObj' = [hookObj EXCEPT ![a] = h]

\* One hook object changes, the other stays.
LEMMA HookChangedAt ==
  ASSUME NEW a \in APIs, NEW h, HooksOK, HookChanged(a, h)
  PROVE  /\ HooksOK' /\ hookObj'[a] = h
         /\ \A b \in APIs : b # a => hookObj'[b] = hookObj[b]
BY DEF HooksOK, HookChanged

\* Detecting gets the hook object and the driver's function.
LEMMA HookLibraryHooks ==
  ASSUME NEW w \in Workers, HooksOK, NEW a \in APIs, a = lib[w], HookLibrary(w)
  PROVE  \/ UNCHANGED hookObj
         \/ \E h : HookChanged(a, h) /\ h.alive /\ h.orig = "raw" /\ h.gen = hookObj[a].gen
<1> DEFINE h == [hookObj[a] EXCEPT !.alive = TRUE, !.orig = "raw"]
<1>1. h \in HookType /\ h.alive /\ h.orig = "raw" /\ h.gen = hookObj[a].gen
  BY DEF HooksOK, HookType
<1>2. \/ UNCHANGED hookObj
      \/ hookObj' = [hookObj EXCEPT ![a].alive = TRUE, ![a].orig = "raw"]
  BY DEF HookLibrary
<1>3. UNCHANGED hookObj \/ hookObj' = [hookObj EXCEPT ![a] = h]
  BY <1>2
<1> HIDE DEF h
<1> QED
  BY <1>1, <1>3 DEF HookChanged

\* Deleting the hooks of a detector leaves the others.
LEMMA DeletedHooks ==
  ASSUME NEW i \in 1 .. MaxInst, HooksOK, DeleteHooks(i)
  PROVE  /\ HooksOK'
         /\ \A a \in APIs : hookObj'[a].gen = hookObj[a].gen
         /\ \A a \in APIs : hookObj'[a] = hookObj[a] \/ det[i].hook[a]
<1>1. ASSUME NEW a \in APIs
      PROVE  /\ [NoHook EXCEPT !.gen = hookObj[a].gen] \in HookType
             /\ [NoHook EXCEPT !.gen = hookObj[a].gen].gen = hookObj[a].gen
             /\ hookObj[a] \in HookType
  BY DEF HooksOK, HookType, NoHook
<1> DEFINE n(a) == [NoHook EXCEPT !.gen = hookObj[a].gen]
<1>2. hookObj' = [a \in APIs |-> IF det[i].hook[a] THEN n(a) ELSE hookObj[a]]
  BY DEF DeleteHooks
<1>3. \A a \in APIs : n(a) \in HookType /\ n(a).gen = hookObj[a].gen
                     /\ hookObj[a] \in HookType
  BY <1>1
<1> HIDE DEF n
<1> QED
  BY <1>2, <1>3 DEF HooksOK

\* Notifying deletes nothing.
LEMMA NotifyHooks ==
  ASSUME NEW c \in Controllers, HooksOK, StopNotify(c)
  PROVE  \/ UNCHANGED hookObj
         \/ \E h : /\ HookChanged("glx", h) /\ h.alive = hookObj["glx"].alive
                   /\ h.orig = hookObj["glx"].orig /\ h.gen = hookObj["glx"].gen
<1> DEFINE h == [hookObj["glx"] EXCEPT !.ready = FALSE]
<1>1. /\ h \in HookType /\ h.alive = hookObj["glx"].alive
      /\ h.orig = hookObj["glx"].orig /\ h.gen = hookObj["glx"].gen
  BY DEF HooksOK, HookType, APIs
<1>2. UNCHANGED hookObj \/ hookObj' = [hookObj EXCEPT !["glx"].ready = FALSE]
  BY DEF StopNotify
<1>3. UNCHANGED hookObj \/ hookObj' = [hookObj EXCEPT !["glx"] = h]
  BY <1>2
<1> HIDE DEF h
<1> QED
  BY <1>1, <1>3 DEF HookChanged

\* stop deletes the hook object.
LEMMA FreeHooks ==
  ASSUME NEW c \in Controllers, HooksOK, NEW a \in APIs, a = victim[c], StopFree(c)
  PROVE  \E h : HookChanged(a, h) /\ h.gen = hookObj[a].gen + 1
<1>1. hookObj[a].gen + 1 \in Nat
  BY DEF HooksOK, HookType
<1>2. ASSUME NEW n \in Nat
      PROVE  [NoHook EXCEPT !.gen = n] \in HookType /\ [NoHook EXCEPT !.gen = n].gen = n
  BY DEF HookType, NoHook
<1>3. HookChanged(a, [NoHook EXCEPT !.gen = hookObj[a].gen + 1])
  BY <1>1, <1>2 DEF HookChanged, StopFree
<1> QED
  BY <1>1, <1>2, <1>3

\* Starting a hook saves the original.
LEMMA SavedHooks ==
  ASSUME NEW w \in Workers, HooksOK, NEW a \in APIs, a = ret[w], StartHookSaved(w)
  PROVE  \E h : /\ HookChanged(a, h) /\ h.alive = hookObj[a].alive
               /\ h.gen = hookObj[a].gen
               /\ h.orig = IF entry[a] = "hook" THEN "tramp" ELSE hookObj[a].orig
<1> DEFINE o == IF entry[a] = "hook" THEN "tramp" ELSE hookObj[a].orig
           p == entry[a] # "hook"
           h == [hookObj[a] EXCEPT !.orig = o, !.patched = p, !.hooked = TRUE]
<1>1. /\ h \in HookType /\ h.alive = hookObj[a].alive /\ h.gen = hookObj[a].gen
      /\ h.orig = o
  <2>1. hookObj[a] \in HookType /\ p \in BOOLEAN /\ o \in {"null", "raw", "tramp"}
    BY DEF HooksOK, HookType
  <2> HIDE DEF o, p
  <2> QED
    BY <2>1 DEF HookType
<1>2. hookObj' = [hookObj EXCEPT ![a].orig = o, ![a].patched = p, ![a].hooked = TRUE]
  BY DEF StartHookSaved
<1>3. hookObj' = [hookObj EXCEPT ![a] = h]
  BY <1>2
<1> HIDE DEF h
<1> QED
  BY <1>1, <1>3 DEF HookChanged

\* A hook that has not redirected the function itself has patched the pointer.
LEMMA SavedPatched ==
  ASSUME NEW w \in Workers, HooksOK, NEW a \in APIs, a = ret[w], StartHookSaved(w),
         entry[a] # "hook"
  PROVE  hookObj'[a].patched
<1> DEFINE h == [hookObj[a] EXCEPT !.orig = hookObj[a].orig, !.patched = TRUE, !.hooked = TRUE]
<1>1. h \in HookType /\ h.patched
  BY DEF HooksOK, HookType
<1>2. (entry[a] # "hook") = TRUE
  OBVIOUS
<1>3. hookObj' = [hookObj EXCEPT ![a].orig = hookObj[a].orig, ![a].patched = TRUE,
                                 ![a].hooked = TRUE]
  BY <1>2 DEF StartHookSaved
<1>4. hookObj' = [hookObj EXCEPT ![a] = h]
  BY <1>3
<1> HIDE DEF h
<1> QED
  BY <1>1, <1>4 DEF HooksOK

\* A frame constructs the hook object at most.
LEMMA FrameHooks ==
  ASSUME NEW g \in GameThreads, HooksOK, NEW a \in APIs, a = PresentAPI[g], Frame(g)
  PROVE  \/ UNCHANGED hookObj
         \/ \E h : /\ HookChanged(a, h) /\ (hookObj[a].alive => h.alive)
                   /\ h.gen = hookObj[a].gen /\ h.orig = hookObj[a].orig
                   /\ h.patched = hookObj[a].patched
<1> DEFINE e == [hookObj[a] EXCEPT !.alive = TRUE]
           r == [hookObj[a] EXCEPT !.ready = TRUE]
<1>1. /\ e \in HookType /\ e.alive /\ e.gen = hookObj[a].gen /\ e.orig = hookObj[a].orig
      /\ e.patched = hookObj[a].patched /\ r.patched = hookObj[a].patched
      /\ r \in HookType /\ r.alive = hookObj[a].alive /\ r.gen = hookObj[a].gen
      /\ r.orig = hookObj[a].orig
  BY DEF HooksOK, HookType
<1>2. CASE FrameEnter(g)
  <2>1. UNCHANGED hookObj \/ hookObj' = [hookObj EXCEPT ![a].alive = TRUE]
    BY <1>2 DEF FrameEnter, HookInst
  <2>2. UNCHANGED hookObj \/ hookObj' = [hookObj EXCEPT ![a] = e]
    BY <2>1
  <2> HIDE DEF e
  <2> QED
    BY <1>1, <2>2 DEF HookChanged
<1>3. CASE FrameState(g)
  <2>1. hookObj' = [hookObj EXCEPT ![a].ready = TRUE]
    BY <1>3 DEF FrameState
  <2>2. hookObj' = [hookObj EXCEPT ![a] = r]
    BY <2>1
  <2> HIDE DEF r
  <2> QED
    BY <1>1, <2>2 DEF HookChanged
<1> QED
  BY <1>2, <1>3 DEF Frame, FrameReady, FrameSkip, FrameCallback, FrameDraw, FrameOriginal,
     FrameOriginalLost, FrameUseFreed

\* A worker stays inside the call that WorkerMain says.
LEMMA CallsStep ==
  ASSUME Places, Values, Bridge, Calls, [Next]_vars
  PROVE  Calls'
<1> USE DEF Calls
<1>1. ASSUME NEW c \in Controllers, Controller(c)
      PROVE  Calls'
  <2>1. UNCHANGED <<pc, restart>>
    BY <1>1, Controls DEF coreVars
  <2>2. CASE UNCHANGED wpc
    BY <2>1, <2>2
  <2>3. CASE StartSpawn(c)
    <3>1. PICK w \in Workers \ spawned : wpc' = [wpc EXCEPT ![w] = "begin"]
      BY <2>3 DEF StartSpawn
    <3> QED
      BY <2>1, <3>1 DEF Bridge, Places
  <2> QED
    BY <1>1, <2>2, <2>3 DEF Controller, StartExchange, StartClear, StopExchange,
       StopSignal, StopJoin, StopTake, StopNotify, StopUnhook, StopFree, StopReturn
<1>2. ASSUME NEW w \in Workers, CallerStep(w), UNCHANGED bridgeVars
      PROVE  Calls'
  <2>1. \E to \in CallerPlaces : Moves(w, to)
    BY <1>2, CallerMoves
  <2>2. UNCHANGED <<wpc, restart>>
    BY <1>2, CallerKeeps DEF bridgeVars
  <2> QED
    BY <2>1, <2>2 DEF Moves, Goto, Places, Threads, DetectPlaces, PassPlaces, ExitPlaces,
       FreePlaces, CallerPlaces
<1>3. ASSUME NEW w \in Workers, Begin(w)
      PROVE  Calls'
  <2>1. \A x \in Workers : x # w => /\ wpc'[x] = wpc[x] /\ pc'[x] = pc[x]
                                    /\ restart'[x] = restart[x]
    BY <1>3, Begins DEF TakeInst, Goto, Places, Threads
  <2>2. CallBegun(w)
    BY <1>3, Begins
  <2> QED
    BY <2>1, <2>2 DEF CallBegun, DetectPlaces, FreePlaces
<1>4. ASSUME NEW w \in Workers, Between(w)
      PROVE  Calls'
  BY <1>4, Betweens DEF coreVars, Places
<1>5. ASSUME NEW g \in GameThreads, fpc[g] = "out", Present(g), UNCHANGED bridgeVars
      PROVE  Calls'
  BY <1>5, ThreadAssumption DEF Present, TakeInst, Goto, Places, Threads, bridgeVars
<1>6. ASSUME NEW g \in GameThreads, PresentStep(g), UNCHANGED bridgeVars
      PROVE  Calls'
  BY <1>6, PresentMoves, PresentKeeps, ThreadAssumption DEF Goto, Places, Threads, bridgeVars
<1>7. ASSUME NEW g \in GameThreads, Frame(g)
      PROVE  Calls'
  BY <1>7, Frames DEF frameFrame
<1>8. CASE Idle
  BY <1>8, Idles DEF bridgeVars
<1> QED
  BY <1>1, <1>2, <1>3, <1>4, <1>5, <1>6, <1>7, <1>8, NextSteps

\* A worker owns what GetDetectedRenderer returned.
LEMMA ReturnedStep ==
  ASSUME Types, Calls', [Next]_vars
  PROVE  Returned'
<1> USE DEF Types, Returned
<1>1. ASSUME NEW c \in Controllers, Controller(c)
      PROVE  Returned'
  <2>1. UNCHANGED <<pc, ret>>
    BY <1>1, Controls DEF coreVars
  <2>2. CASE UNCHANGED wpc
    BY <2>1, <2>2
  <2>3. CASE StartSpawn(c)
    <3>1. PICK w \in Workers \ spawned : wpc' = [wpc EXCEPT ![w] = "begin"]
      BY <2>3 DEF StartSpawn
    <3> QED
      BY <2>1, <3>1 DEF Bridge, Places
  <2> QED
    BY <1>1, <2>2, <2>3 DEF Controller, StartExchange, StartClear, StopExchange,
       StopSignal, StopJoin, StopTake, StopNotify, StopUnhook, StopFree, StopReturn
<1>2. ASSUME NEW w \in Workers, CallerStep(w), UNCHANGED bridgeVars
      PROVE  Returned'
  <2>1. UNCHANGED wpc
    BY <1>2 DEF bridgeVars
  <2>2. pc[w] # "out" /\ \A x \in Workers : x # w => pc'[x] = pc[x]
    BY <1>2, CallerMoves DEF Moves, Goto, Places, Threads
  <2>3. \A x \in Workers : x # w => ret'[x] = ret[x]
    BY <1>2, Zenon DEF CallerStep, DetectLock, LibraryLock, Acquire, DetectEnter, DetectReset,
       SkipLibrary, HookLibrary, Install, Record, FinishLock, Decide, ExitRestore, ExitUnhook,
       ExitDelete, Stop, FreeStop, StopDetection, Get, FreeDelete, FreeMembers, Values
  <2>4. wpc[w] \notin {"own", "start", "startSaved"}
    BY <2>2 DEF Calls
  <2>5. wpc[w] = "got" => Get(w)
    BY <1>2, <2>2, Zenon DEF Calls, CallerStep, DetectLock, LibraryLock, Acquire, DetectEnter,
       DetectReset, SkipLibrary, HookLibrary, Install, Record, FinishLock, Decide,
       ExitRestore, ExitUnhook, ExitDelete, Stop, FreeStop, StopDetection, FreeDelete,
       FreeMembers, Within, At
  <2>6. Get(w) => ret'[w] \in APIs \cup {"none"}
    <3>1. self[w] \in 1 .. MaxInst
      BY <2>2 DEF Objects, Threads
    <3>2. Mine(w).renderer \in APIs \cup {"none"}
      BY <3>1 DEF DetOK, DetectorType, Mine
    <3> QED
      BY <3>2 DEF Get, Values
  <2> QED
    BY <2>1, <2>2, <2>3, <2>4, <2>5, <2>6
<1>3. ASSUME NEW w \in Workers, Begin(w)
      PROVE  Returned'
  <2>1. \A x \in Workers : x # w => wpc'[x] = wpc[x] /\ pc'[x] = pc[x]
    BY <1>3, Begins DEF TakeInst, Goto, Places, Threads
  <2>2. UNCHANGED ret
    BY <1>3, Begins
  <2>3. CallBegun(w)
    BY <1>3, Begins
  <2> QED
    BY <2>1, <2>2, <2>3 DEF CallBegun
<1>4. ASSUME NEW w \in Workers, Between(w)
      PROVE  Returned'
  <2>1. /\ UNCHANGED <<pc, ret>>
        /\ \A x \in Workers : x # w => wpc'[x] = wpc[x]
    BY <1>4, Betweens DEF coreVars, Places
  <2>2. wpc'[w] # "got"
    BY <1>4 DEF Between, PollEnd, Polled, Got, Own, StartHook, StartHookSaved, WorkerEnd,
       WGo, Places
  <2>3. wpc'[w] \in {"own", "start", "startSaved"} => ret[w] \in APIs
    BY <1>4 DEF Between, PollEnd, Polled, Got, Own, StartHook, StartHookSaved, WorkerEnd,
       WGo, Places
  <2> QED
    BY <2>1, <2>2, <2>3
<1>5. ASSUME NEW g \in GameThreads, fpc[g] = "out", Present(g), UNCHANGED bridgeVars
      PROVE  Returned'
  BY <1>5, ThreadAssumption DEF Present, TakeInst, Goto, Places, Threads, bridgeVars
<1>6. ASSUME NEW g \in GameThreads, PresentStep(g), UNCHANGED bridgeVars
      PROVE  Returned'
  BY <1>6, PresentMoves, PresentKeeps, ThreadAssumption DEF Goto, Places, Threads, bridgeVars
<1>7. ASSUME NEW g \in GameThreads, Frame(g)
      PROVE  Returned'
  BY <1>7, Frames DEF frameFrame
<1>8. CASE Idle
  BY <1>8, Idles DEF bridgeVars
<1> QED
  BY <1>1, <1>2, <1>3, <1>4, <1>5, <1>6, <1>7, <1>8, NextSteps

\* Hook objects keep their types.
LEMMA HooksStep ==
  ASSUME Types, [Next]_vars
  PROVE  HooksOK'
<1> USE DEF Types
<1>1. ASSUME NEW c \in Controllers, Controller(c)
      PROVE  HooksOK'
  <2>1. CASE StopNotify(c)
    BY <2>1, NotifyHooks, HookChangedAt DEF APIs, HooksOK
  <2>2. CASE StopFree(c)
    BY <2>2, FreeHooks, HookChangedAt, Zenon DEF Bridge, StopFree, CGo
  <2>3. CASE UNCHANGED hookObj
    BY <2>3 DEF HooksOK
  <2> QED
    BY <1>1, <2>1, <2>2, <2>3 DEF Controller, StartExchange, StartClear, StartSpawn,
       StopExchange, StopSignal, StopJoin, StopTake, StopUnhook, StopReturn, detVars
<1>2. ASSUME NEW w \in Workers, CallerStep(w), UNCHANGED bridgeVars
      PROVE  HooksOK'
  <2>1. lib[w] \in APIs /\ self[w] \in 1 .. MaxInst
    BY <1>2, CallerMoves DEF Values, Moves, Objects, Threads
  <2>2. CASE HookLibrary(w)
    BY <2>1, <2>2, HookLibraryHooks, HookChangedAt DEF HooksOK
  <2>3. CASE ExitDelete(w) \/ FreeDelete(w)
    BY <2>1, <2>3, DeletedHooks DEF ExitDelete, FreeDelete
  <2>4. CASE UNCHANGED hookObj
    BY <2>4 DEF HooksOK
  <2> QED
    BY <1>2, <2>2, <2>3, <2>4, Zenon DEF CallerStep, DetectLock, LibraryLock, Acquire, DetectEnter,
       DetectReset, SkipLibrary, Install, Record, FinishLock, Decide, ExitRestore, ExitUnhook,
       Stop, FreeStop, StopDetection, Get, FreeMembers
<1>4. ASSUME NEW w \in Workers, Between(w)
      PROVE  HooksOK'
  <2>1. CASE StartHookSaved(w)
    BY <2>1, SavedHooks, HookChangedAt, Zenon DEF Returned, StartHookSaved, WGo
  <2>2. CASE UNCHANGED hookObj
    BY <2>2 DEF HooksOK
  <2> QED
    BY <1>4, <2>1, <2>2 DEF Between, PollEnd, Polled, Got, Own, StartHook, WorkerEnd, detVars
<1>7. ASSUME NEW g \in GameThreads, Frame(g)
      PROVE  HooksOK'
  BY <1>7, FrameHooks, HookChangedAt, APIAssumption DEF HooksOK
<1>9. CASE UNCHANGED hookObj
  BY <1>9 DEF HooksOK
<1> QED
  BY <1>1, <1>2, <1>4, <1>7, <1>9, NextSteps, Begins, PresentKeeps, Idles DEF Present

\* The redirections and what calls return keep their types.
LEMMA ValuesStep ==
  ASSUME Types, [Next]_vars
  PROVE  Values'
<1> USE DEF Types, Values
<1>1. ASSUME NEW c \in Controllers, Controller(c)
      PROVE  Values'
  <2>1. UNCHANGED <<loaded, lib, restart, ret, fault>>
    BY <1>1, Controls DEF coreVars
  <2>2. CASE StopUnhook(c)
    BY <2>1, <2>2 DEF StopUnhook, Redirect
  <2>3. CASE UNCHANGED redirects
    BY <2>1, <2>3 DEF redirects
  <2> QED
    BY <1>1, <2>2, <2>3 DEF Controller, StartExchange, StartClear, StartSpawn,
       StopExchange, StopSignal, StopJoin, StopTake, StopNotify, StopFree, StopReturn, detVars
<1>2. ASSUME NEW w \in Workers, CallerStep(w), UNCHANGED bridgeVars
      PROVE  Values'
  <2>1. UNCHANGED <<loaded, restart, fault>>
    BY <1>2, CallerKeeps
  <2>2. self[w] \in 1 .. MaxInst
    BY <1>2, CallerMoves DEF Moves, Objects, Threads
  <2>3. lib' \in [Callers -> APIs]
    <3>1. CASE NextLibrary(w)
      BY <3>1 DEF NextLibrary, APIs
    <3>2. CASE UNCHANGED lib
      BY <3>2
    <3>3. CASE DetectEnter(w)
      BY <3>3 DEF DetectEnter, APIs
    <3> QED
      BY <1>2, <3>1, <3>2, <3>3, Zenon DEF CallerStep, DetectLock, LibraryLock, Acquire,
         DetectReset, SkipLibrary, HookLibrary, Install, Record, FinishLock,
         Decide, ExitRestore, ExitUnhook, ExitDelete, Stop, FreeStop, StopDetection, Get,
         FreeDelete, FreeMembers
  <2>4. ret' \in [Callers -> Results]
    <3>1. Mine(w).renderer \in APIs \cup {"none"}
      BY <2>2 DEF DetOK, DetectorType, Mine
    <3>2. CASE Get(w)
      BY <3>1, <3>2 DEF Get, Results
    <3>3. CASE UNCHANGED ret
      BY <3>3
    <3>4. CASE Decide(w) \/ ExitDelete(w)
      BY <3>4 DEF Decide, ExitDelete, Results
    <3> QED
      BY <1>2, <3>2, <3>3, <3>4, Zenon DEF CallerStep, DetectLock, LibraryLock, Acquire, DetectEnter,
         DetectReset, SkipLibrary, HookLibrary, NextLibrary, Install, Record, FinishLock,
         ExitRestore, ExitUnhook, Stop, FreeStop, StopDetection, FreeDelete, FreeMembers
  <2>5. /\ entry' \in [APIs -> {"driver", "detector", "hook"}]
        /\ table' \in {"driver", "detector", "hook"}
    <3>1. CASE Install(w)
      BY <3>1 DEF Install, Redirect
    <3>2. CASE ExitRestore(w)
      BY <3>2 DEF ExitRestore, RestorePatches
    <3>3. CASE ExitUnhook(w) \/ FreeMembers(w)
      BY <3>3 DEF ExitUnhook, FreeMembers, UnhookAll, Redirect
    <3>4. CASE UNCHANGED redirects
      BY <3>4 DEF redirects
    <3> QED
      BY <1>2, <3>1, <3>2, <3>3, <3>4, Zenon DEF CallerStep, DetectLock, LibraryLock, Acquire,
         DetectEnter, DetectReset, SkipLibrary, HookLibrary, Record, FinishLock, Decide,
         ExitDelete, Stop, FreeStop, StopDetection, Get, FreeDelete
  <2> QED
    BY <2>1, <2>3, <2>4, <2>5
<1>3. ASSUME NEW w \in Workers, Begin(w)
      PROVE  Values'
  BY <1>3, Begins DEF redirects
<1>4. ASSUME NEW w \in Workers, Between(w)
      PROVE  Values'
  <2>1. UNCHANGED <<loaded, lib, restart, ret, fault>>
    BY <1>4, Betweens DEF coreVars
  <2>2. CASE StartHook(w)
    BY <2>1, <2>2 DEF StartHook, Redirect
  <2>3. CASE UNCHANGED redirects
    BY <2>1, <2>3 DEF redirects
  <2> QED
    BY <1>4, <2>2, <2>3 DEF Between, PollEnd, Polled, Got, Own, StartHookSaved, WorkerEnd, detVars
<1>5. ASSUME NEW g \in GameThreads, Present(g)
      PROVE  Values'
  BY <1>5 DEF Present, redirects
<1>6. ASSUME NEW g \in GameThreads, PresentStep(g), UNCHANGED bridgeVars
      PROVE  Values'
  <2>1. UNCHANGED <<loaded, lib, restart, ret>>
    BY <1>6, PresentKeeps
  <2>2. CASE PresentCall(g)
    BY <2>1, <2>2 DEF PresentCall, redirects
  <2>3. CASE HandOffRestore(g)
    BY <2>1, <2>3 DEF HandOffRestore, RestorePatches
  <2>4. CASE HandOffUnhook(g)
    BY <2>1, <2>4 DEF HandOffUnhook, UnhookAll, Redirect
  <2>5. CASE UNCHANGED <<redirects, fault>>
    BY <2>1, <2>5 DEF redirects
  <2> QED
    BY <1>6, <2>2, <2>3, <2>4, <2>5 DEF PresentStep, PresentLock, PresentCheck,
       HandOffRenderer, HandOffDone, PresentLeave
<1>7. ASSUME NEW g \in GameThreads, Frame(g)
      PROVE  Values'
  BY <1>7, Frames DEF frameFrame, redirects
<1>8. CASE Idle
  BY <1>8 DEF Idle, UseFreed, Load, LoadLibrary, vars, detVars, redirects
<1> QED
  BY <1>1, <1>2, <1>3, <1>4, <1>5, <1>6, <1>7, <1>8, NextSteps

\* The bridge's variables keep their types.
LEMMA BridgeStep ==
  ASSUME Types, [Next]_vars
  PROVE  Bridge'
<1> USE DEF Types, Bridge
<1>1. ASSUME NEW c \in Controllers, Controller(c)
      PROVE  Bridge'
  <2>0. UNCHANGED <<fgen, fpc>>
    BY <1>1, Controls
  <2>1. CASE StartExchange(c) \/ StartClear(c)
    BY <2>0, <2>1 DEF StartExchange, StartClear, CGo, Places
  <2>2. CASE StopSignal(c) \/ StopReturn(c)
    BY <2>0, <2>2 DEF StopSignal, StopReturn, CGo, Places
  <2>7. CASE StopExchange(c)
    <3>1. stops' \in 0 .. MaxStops
      BY <2>7, StopsAssumption DEF StopExchange
    <3> QED
      BY <2>0, <2>7, <3>1 DEF StopExchange, CGo, Places
  <2>3. CASE StartSpawn(c)
    <3>1. PICK w \in Workers \ spawned : /\ g_worker' = w
                                         /\ spawned' = spawned \cup {w}
                                         /\ wpc' = [wpc EXCEPT ![w] = "begin"]
      BY <2>3 DEF StartSpawn
    <3>2. /\ UNCHANGED <<g_started, g_stop, g_ready, g_renderer, victim, stops>>
          /\ cpc' = [cpc EXCEPT ![c] = "idle"]
      BY <2>3 DEF StartSpawn, CGo
    <3> QED
      BY <2>0, <3>1, <3>2 DEF Places
  <2>4. CASE StopJoin(c) \/ StopTake(c)
    BY <2>0, <2>4 DEF StopJoin, StopTake, CGo, Places
  <2>5. CASE StopNotify(c)
    BY <2>0, <2>5 DEF StopNotify, CGo, Places
  <2>6. CASE StopUnhook(c) \/ StopFree(c)
    BY <2>0, <2>6 DEF StopUnhook, StopFree, CGo, Places
  <2> QED
    BY <1>1, <2>1, <2>2, <2>3, <2>4, <2>5, <2>6, <2>7 DEF Controller
<1>3. ASSUME NEW w \in Workers, Begin(w)
      PROVE  Bridge'
  BY <1>3, Begins DEF sharedVars, CallBegun, Places
<1>4. ASSUME NEW w \in Workers, Between(w)
      PROVE  Bridge'
  <2>1. CASE Own(w)
    BY <2>1, <1>4, Betweens DEF Own, WGo, Places, Returned
  <2>2. CASE UNCHANGED g_renderer
    BY <2>2, <1>4, Betweens DEF Places
  <2> QED
    BY <1>4, <2>1, <2>2 DEF Between, PollEnd, Polled, Got, StartHook, StartHookSaved, WorkerEnd,
       sharedVars
<1>7. ASSUME NEW g \in GameThreads, Frame(g)
      PROVE  Bridge'
  <2>1. hookObj[PresentAPI[g]].gen \in Nat
    BY APIAssumption DEF HooksOK, HookType
  <2> QED
    BY <1>7, <2>1, Frames DEF frameFrame
<1>9. CASE UNCHANGED bridgeVars
  BY <1>9 DEF bridgeVars
<1> QED
  BY <1>1, <1>3, <1>4, <1>7, <1>9, NextSteps, Idles

\* Types, and which call each worker is in, are inductive.
LEMMA TypesStep == Types /\ [Next]_vars => Types'
BY PlacesStep, ObjectsStep, DetStep, HooksStep, ValuesStep, BridgeStep, CallsStep,
   ReturnedStep DEF Types

\* They hold at first.
LEMMA TypesInit == Init => Types
<1> SUFFICES ASSUME Init PROVE Types
  OBVIOUS
<1> USE DEF Init, DetectorInit, BridgeInit
<1>1. Places
  BY DEF Places, CallerPlaces, PresentPlaces, WorkerPlaces, ControlPlaces, FramePlaces,
     Threads
<1>2. Objects
  BY InstAssumption DEF Objects
<1>3. NewDetector \in DetectorType
  BY DEF NewDetector, DetectorType
<1>4. DetOK
  BY <1>3 DEF DetOK
<1>5. NoHook \in HookType
  BY DEF NoHook, HookType
<1>6. HooksOK
  BY <1>5 DEF HooksOK
<1>7. Values
  BY DEF Values, APIs, Results
<1>8. Bridge
  <2>1. stops \in 0 .. MaxStops
    BY StopsAssumption
  <2>2. /\ victim \in [Controllers -> APIs \cup {"none"}]
        /\ \A c \in Controllers : cpc[c] \in {"unhook", "free"} => victim[c] # "none"
        /\ fgen \in [GameThreads -> Nat]
    OBVIOUS
  <2>3. /\ spawned \subseteq Workers
        /\ g_worker \in spawned \cup {NoThread}
        /\ \A w \in Workers : wpc[w] = "none" <=> w \notin spawned
    OBVIOUS
  <2> QED
    BY <2>1, <2>2, <2>3 DEF Bridge
<1>9. Calls /\ Returned
  BY DEF Calls, Returned, Threads
<1> QED
  BY <1>1, <1>2, <1>4, <1>6, <1>7, <1>8, <1>9 DEF Types

\* Types, and which call each worker is in, for any number of controllers,
\* game threads and APIs.
THEOREM TypesInvariant == Spec => []Types
BY TypesInit, TypesStep, PTL DEF Spec

-----------------------------------------------------------------------------

(* The one worker, the one controller and the generations of the hook.     *)

Active(w) == wpc[w] \notin {"none", "ended"}

\* One worker at a time, from its start until it is joined.
Control ==
    /\ \A w \in Workers : Active(w) => w = g_worker
    /\ g_worker # NoThread =>
          g_started \/ \E c \in Controllers : cpc[c] \in {"signal", "join"}
    /\ g_renderer # "none" =>
          g_started \/ \E c \in Controllers : cpc[c] \in {"signal", "join", "take"}
    /\ \A c \in Controllers :
          /\ cpc[c] \in {"clear", "spawn"} => /\ g_started /\ g_worker = NoThread
                                              /\ g_renderer = "none"
          /\ cpc[c] \in StopPlaces => ~ g_started
          /\ cpc[c] \in StopPlaces \ {"signal", "join"} => g_worker = NoThread
          /\ cpc[c] \in StopPlaces \ {"signal", "join", "take"} => g_renderer = "none"
          /\ victim[c] # "none" => cpc[c] \in {"notify", "unhook", "free"}
    /\ \A w \in Workers :
          /\ wpc[w] \in {"begin", "stopFirst", "poll", "polled", "get", "got",
                         "giveUp", "own"} => g_renderer = "none"
          /\ wpc[w] \in {"start", "startSaved"} => g_renderer = ret[w]

\* Every deletion of a hook object belongs to a stop of its own.
Generations ==
    /\ \A a \in APIs :
          /\ hookObj[a].gen <= stops
          /\ \A c \in Controllers : cpc[c] \in StopPlaces \ {"clearReady"}
                                    => hookObj[a].gen < stops
    /\ \A g \in GameThreads : fgen[g] <= stops

OneController == \A c, d \in Controllers : c = d

CInv == Types /\ Control /\ Generations

\* No two workers are active.
LEMMA ActiveIsOne ==
  ASSUME Types, Control, NEW w \in Workers, pc[w] # "out" \/ Active(w),
         NEW x \in Workers, pc[x] # "out" \/ Active(x)
  PROVE  x = w /\ w = g_worker
BY DEF Types, Calls, Control, Active

\* With one controller, stop joins the worker before start spawns the next.
LEMMA ControlStep ==
  ASSUME OneController, Types, Types', Control, [Next]_vars
  PROVE  Control'
<1>1. ASSUME NEW c \in Controllers, Controller(c)
      PROVE  Control'
  <2>0. UNCHANGED ret /\ \A d \in Controllers : d = c
    BY <1>1, Controls DEF coreVars, OneController
  <2>z. c \in Controllers /\ NoThread \notin Workers
    BY ThreadAssumption DEF Threads
  <2>1. CASE StartExchange(c)
    BY <2>0, <2>z, <2>1 DEF Control, Types, Places, StartExchange, CGo, Active, StopPlaces
  <2>2. CASE StartClear(c)
    BY <2>0, <2>z, <2>2 DEF Control, Types, Places, StartClear, CGo, Active, StopPlaces
  <2>3. CASE StartSpawn(c)
    <3>1. PICK w \in Workers \ spawned : /\ g_worker' = w
                                         /\ wpc' = [wpc EXCEPT ![w] = "begin"]
      BY <2>3 DEF StartSpawn
    <3>2. /\ UNCHANGED <<g_started, g_renderer, victim>>
          /\ cpc[c] = "spawn" /\ cpc' = [cpc EXCEPT ![c] = "idle"]
      BY <2>3 DEF StartSpawn, CGo
    <3> QED
      BY <2>0, <2>z, <3>1, <3>2 DEF Control, Types, Places, Active, StopPlaces
  <2>4. CASE StopExchange(c)
    BY <2>0, <2>z, <2>4 DEF Control, Types, Places, StopExchange, CGo, Active, StopPlaces
  <2>5. CASE StopSignal(c)
    BY <2>0, <2>z, <2>5 DEF Control, Types, Places, StopSignal, CGo, Active, StopPlaces
  <2>6. CASE StopJoin(c)
    BY <2>0, <2>z, <2>6 DEF Control, Types, Places, Bridge, StopJoin, CGo, Active, StopPlaces
  <2>7. CASE StopTake(c)
    BY <2>0, <2>z, <2>7 DEF Control, Types, Places, StopTake, CGo, Active, StopPlaces
  <2>8. CASE StopNotify(c)
    BY <2>0, <2>z, <2>8 DEF Control, Types, Places, StopNotify, CGo, Active, StopPlaces
  <2>9. CASE StopUnhook(c)
    BY <2>0, <2>z, <2>9 DEF Control, Types, Places, StopUnhook, CGo, Active, StopPlaces
  <2>10. CASE StopFree(c)
    BY <2>0, <2>z, <2>10 DEF Control, Types, Places, Bridge, StopFree, CGo, Active, StopPlaces
  <2>11. CASE StopReturn(c)
    BY <2>0, <2>z, <2>11 DEF Control, Types, Places, StopReturn, CGo, Active, StopPlaces
  <2> QED
    BY <1>1, <2>1, <2>2, <2>3, <2>4, <2>5, <2>6, <2>7, <2>8, <2>9, <2>10, <2>11 DEF Controller
<1>2. ASSUME NEW w \in Workers, CallerStep(w), UNCHANGED bridgeVars
      PROVE  Control'
  <2>1. \A x \in Workers : wpc[x] \in {"start", "startSaved"} => ret'[x] = ret[x]
    <3>1. pc[w] # "out"
      BY <1>2, CallerMoves DEF Moves
    <3>2. wpc[w] \notin {"start", "startSaved"}
      BY <3>1 DEF Types, Calls
    <3>3. \A x \in Workers : x # w => ret'[x] = ret[x]
      BY <1>2, Zenon DEF CallerStep, DetectLock, LibraryLock, Acquire, DetectEnter, DetectReset,
         SkipLibrary, HookLibrary, Install, Record, FinishLock, Decide, ExitRestore,
         ExitUnhook, ExitDelete, Stop, FreeStop, StopDetection, Get, FreeDelete,
         FreeMembers, Types, Values
    <3> QED
      BY <3>2, <3>3
  <2> QED
    BY <1>2, <2>1 DEF bridgeVars, Control, Active
<1>3. ASSUME NEW w \in Workers, Begin(w)
      PROVE  Control'
  <2>1. UNCHANGED <<sharedVars, ret>> /\ CallBegun(w)
    BY <1>3, Begins DEF Types
  <2>2. \A x \in Workers : x # w => wpc'[x] = wpc[x]
    BY <1>3, Begins DEF Types, Places
  <2> QED
    BY <2>1, <2>2 DEF CallBegun, sharedVars, Control, Active
<1>4. ASSUME NEW w \in Workers, Between(w)
      PROVE  Control'
  <2>1. /\ UNCHANGED <<ret, g_started, g_worker, cpc, victim>>
        /\ Active(w)
    BY <1>4, Betweens DEF coreVars, Active
  <2>2. \A x \in Workers : x # w => wpc'[x] = wpc[x]
    BY <1>4, Betweens DEF Types, Places
  <2>3. CASE Own(w)
    <3>1. wpc'[w] = "start" /\ g_renderer' = ret[w] /\ wpc[w] = "own"
      BY <2>3 DEF Own, WGo, Types, Places
    <3> QED
      BY <2>1, <2>2, <3>1, ThreadAssumption DEF Control, Active, Threads
  <2>4. CASE UNCHANGED g_renderer /\ ~ Own(w)
    <3>1. \/ wpc[w] \in {"poll", "polled", "get", "got"}
             /\ wpc'[w] \in {"get", "poll", "giveUp", "own"}
          \/ wpc[w] = "start" /\ wpc'[w] = "startSaved"
          \/ wpc'[w] \in {"free", "ended"}
      BY <1>4, <2>4 DEF Between, PollEnd, Polled, Got, StartHook, StartHookSaved, WorkerEnd,
         WGo, Types, Places
    <3> QED
      BY <2>1, <2>2, <2>4, <3>1 DEF Control, Active
  <2> QED
    BY <1>4, <2>3, <2>4 DEF Between, PollEnd, Polled, Got, StartHook, StartHookSaved,
       WorkerEnd, sharedVars
<1>7. ASSUME NEW g \in GameThreads, Frame(g)
      PROVE  Control'
  <2>1. UNCHANGED <<g_started, g_renderer, g_worker, wpc, cpc, victim, ret>>
    BY <1>7, Frames DEF frameFrame
  <2> QED
    BY <2>1 DEF Control, Active
<1>9. CASE UNCHANGED <<bridgeVars, ret>>
  BY <1>9 DEF bridgeVars, Control, Active
<1> QED
  BY <1>1, <1>2, <1>3, <1>4, <1>7, <1>9, NextSteps, Idles, PresentKeeps DEF Present

\* Only stop deletes a hook object for good.
LEMMA GenerationKept ==
  ASSUME HooksOK, NEW a \in APIs,
         UNCHANGED hookObj \/ \E h : HookChanged(a, h) /\ h.gen = hookObj[a].gen
  PROVE  \A b \in APIs : hookObj'[b].gen = hookObj[b].gen
BY HookChangedAt

\* Only the deletion of a hook object ends its generation.
LEMMA GenerationsKept ==
  ASSUME Types, [Next]_vars, \A c \in Controllers : ~ StopFree(c)
  PROVE  \A a \in APIs : hookObj'[a].gen = hookObj[a].gen
<1> USE DEF Types
<1>2. ASSUME NEW c \in Controllers, Controller(c)
      PROVE  \A a \in APIs : hookObj'[a].gen = hookObj[a].gen
  <2>1. CASE StopNotify(c)
    <3>1. "glx" \in APIs
      BY DEF APIs
    <3>2. UNCHANGED hookObj
          \/ \E h : HookChanged("glx", h) /\ h.gen = hookObj["glx"].gen
      BY <2>1, NotifyHooks
    <3> QED
      BY <3>1, <3>2, GenerationKept
  <2> QED
    BY <1>2, <2>1 DEF Controller, StartExchange, StartClear, StartSpawn,
       StopExchange, StopSignal, StopJoin, StopTake, StopUnhook, StopReturn, detVars
<1>3. ASSUME NEW w \in Workers, CallerStep(w), UNCHANGED bridgeVars
      PROVE  \A a \in APIs : hookObj'[a].gen = hookObj[a].gen
  <2>1. lib[w] \in APIs /\ self[w] \in 1 .. MaxInst
    BY <1>3, CallerMoves DEF Values, Moves, Objects, Threads
  <2>2. CASE HookLibrary(w)
    <3>1. UNCHANGED hookObj
          \/ \E h : HookChanged(lib[w], h) /\ h.gen = hookObj[lib[w]].gen
      BY <2>1, <2>2, HookLibraryHooks
    <3> QED
      BY <2>1, <3>1, GenerationKept
  <2>3. CASE ExitDelete(w) \/ FreeDelete(w)
    <3>1. DeleteHooks(self[w])
      BY <2>3 DEF ExitDelete, FreeDelete
    <3>2. self[w] \in 1 .. MaxInst /\ HooksOK
      BY <2>1
    <3> HIDE DEF Types
    <3> QED
      BY ONLY <3>1, <3>2, DeletedHooks
  <2> QED
    BY <1>3, <2>2, <2>3, Zenon DEF CallerStep, DetectLock, LibraryLock, Acquire, DetectEnter,
       DetectReset, SkipLibrary, Install, Record, FinishLock, Decide, ExitRestore, ExitUnhook,
       Stop, FreeStop, StopDetection, Get, FreeMembers
<1>4. ASSUME NEW w \in Workers, Between(w)
      PROVE  \A a \in APIs : hookObj'[a].gen = hookObj[a].gen
  <2>1. CASE StartHookSaved(w)
    <3>1. ret[w] \in APIs
      BY <2>1 DEF Returned, StartHookSaved, WGo
    <3>2. \E h : HookChanged(ret[w], h) /\ h.gen = hookObj[ret[w]].gen
      BY <2>1, <3>1, SavedHooks
    <3> QED
      BY <3>1, <3>2, GenerationKept
  <2> QED
    BY <1>4, <2>1 DEF Between, PollEnd, Polled, Got, Own, StartHook, WorkerEnd, detVars
<1>5. ASSUME NEW g \in GameThreads, Frame(g)
      PROVE  \A a \in APIs : hookObj'[a].gen = hookObj[a].gen
  BY <1>5, FrameHooks, HookChangedAt, APIAssumption
<1> QED
  BY <1>2, <1>3, <1>4, <1>5, NextSteps, Begins, PresentKeeps, Idles DEF Present

\* Each deletion belongs to a stop of its own.
LEMMA GenerationsStep ==
  ASSUME OneController, Types, Control, Generations, [Next]_vars
  PROVE  Generations'
<1> USE DEF Generations
<1>0. /\ \A a \in APIs : hookObj[a].gen \in Nat
      /\ stops \in Nat
      /\ \A g \in GameThreads : fgen[g] \in Nat /\ PresentAPI[g] \in APIs
  BY StopsAssumption, APIAssumption DEF Types, HooksOK, HookType, Bridge
<1>1. ASSUME NEW c \in Controllers, Controller(c)
      PROVE  Generations'
  <2>0. UNCHANGED fgen /\ \A d \in Controllers : d = c
    BY <1>1, Controls DEF OneController
  <2>1. CASE StopFree(c)
    <3>1. victim[c] \in APIs
      BY <2>1 DEF Types, Bridge, StopFree, CGo
    <3>2. hookObj'[victim[c]].gen = hookObj[victim[c]].gen + 1
      BY <2>1, <3>1, FreeHooks, HookChangedAt DEF Types
    <3>3. \A a \in APIs : a # victim[c] => hookObj'[a] = hookObj[a]
      BY <2>1 DEF StopFree, Types, HooksOK
    <3>4. UNCHANGED stops /\ cpc[c] = "free" /\ cpc' = [cpc EXCEPT ![c] = "clearReady"]
      BY <2>1 DEF StopFree, CGo
    <3>5. \A a \in APIs : hookObj[a].gen < stops
      BY <3>4 DEF StopPlaces
    <3>6. cpc'[c] = "clearReady"
      BY <3>4 DEF Types, Places
    <3>7. \A a \in APIs : hookObj'[a].gen <= stops
      BY <1>0, <3>1, <3>2, <3>3, <3>5
    <3> QED
      BY <2>0, <3>4, <3>6, <3>7
  <2>2. CASE ~ StopFree(c)
    <3>1. \A a \in APIs : hookObj'[a].gen = hookObj[a].gen
      BY <1>1, <2>0, <2>2, GenerationsKept
    <3>2. \/ stops' = stops /\ (\/ cpc'[c] \notin StopPlaces \ {"clearReady"}
                                 \/ cpc[c] \in StopPlaces \ {"clearReady"})
          \/ stops' = stops + 1
      BY <1>1, <2>2 DEF Controller, StartExchange, StartClear, StartSpawn, StopExchange,
         StopSignal, StopJoin, StopTake, StopNotify, StopUnhook, StopReturn, CGo, StopPlaces,
         Types, Places
    <3> QED
      BY <1>0, <2>0, <3>1, <3>2
  <2> QED
    BY <2>1, <2>2
<1>2. ASSUME NEW g \in GameThreads, Frame(g)
      PROVE  Generations'
  <2>1. \A a \in APIs : hookObj'[a].gen = hookObj[a].gen
    BY <1>2, GenerationsKept, Frames DEF frameFrame, StopFree, CGo, Types, Places
  <2>2. UNCHANGED <<stops, cpc>>
    BY <1>2, Frames DEF frameFrame
  <2>3. \A x \in GameThreads : fgen'[x] <= stops
    BY <1>0, <1>2, Frames DEF Types, Bridge
  <2> QED
    BY <2>1, <2>2, <2>3
<1>3. CASE UNCHANGED <<cpc, stops, fgen>>
  <2>1. \A a \in APIs : hookObj'[a].gen = hookObj[a].gen
    BY <1>3, GenerationsKept DEF StopFree, CGo, Types, Places
  <2> QED
    BY <1>3, <2>1
<1> QED
  BY <1>1, <1>2, <1>3, NextSteps, Begins, Betweens, Idles DEF bridgeVars, sharedVars, Types

-----------------------------------------------------------------------------

(* The current detector and its mutex.                                     *)

LockedCaller == {"dEnter", "dReset", "dHook", "dInstall", "dRecord", "dDecide"}
                \cup ExitPlaces

\* A worker inside a call works on the current detector, until it has taken it
\* out of _Instance to destroy it.
Held ==
    /\ instance \notin freed
    /\ \A w \in Workers : pc[w] # "out" =>
          /\ self[w] \notin freed
          /\ (pc[w] = "fMembers") <=> (self[w] # instance)

\* Only FreeDetector leads to the destructor of the members.
LEMMA Destroys ==
  ASSUME NEW w \in Workers, CallerStep(w)
  PROVE  \/ FreeDelete(w) \/ FreeMembers(w)
         \/ pc[w] # "fMembers" /\ \E to \in CallerPlaces \ {"fMembers"} : Goto(w, to)
<1> USE DEF At, Within, CallerPlaces, FreePlaces, DetectPlaces, PassPlaces, ExitPlaces
<1>1. CASE DetectLock(w) \/ LibraryLock(w)
  BY <1>1 DEF DetectLock, LibraryLock, Acquire
<1>2. CASE DetectEnter(w) \/ DetectReset(w)
  BY <1>2 DEF DetectEnter, DetectReset
<1>3. CASE SkipLibrary(w)
  BY <1>3 DEF SkipLibrary, NextLibrary
<1>4. CASE HookLibrary(w)
  BY <1>4 DEF HookLibrary, NextLibrary
<1>5. CASE Install(w) \/ FinishLock(w)
  BY <1>5 DEF Install, FinishLock
<1>6. CASE Record(w)
  BY <1>6 DEF Record, NextLibrary
<1>7. CASE Decide(w)
  BY <1>7 DEF Decide
<1>8. CASE ExitRestore(w) \/ ExitUnhook(w) \/ ExitDelete(w)
  BY <1>8 DEF ExitRestore, RestorePatches, ExitUnhook, UnhookAll, ExitDelete
<1>9. CASE Stop(w) \/ FreeStop(w)
  BY <1>9 DEF Stop, FreeStop, StopDetection
<1>10. CASE Get(w)
  BY <1>10 DEF Get
<1> QED
  BY <1>1, <1>2, <1>3, <1>4, <1>5, <1>6, <1>7, <1>8, <1>9, <1>10 DEF CallerStep

\* A worker inside a call works on the current detector.
LEMMA HeldStep ==
  ASSUME OneController, Types, Control, Held, [Next]_vars
  PROVE  Held'
<1>0. /\ instance \in 0 .. MaxInst /\ created \in 0 .. MaxInst /\ instance <= created
      /\ freed \subseteq 1 .. created /\ created \in Nat /\ 0 \notin freed
  BY InstAssumption DEF Types, Objects
<1>1. ASSUME NEW w \in Workers, CallerStep(w)
      PROVE  Held'
  <2>1. /\ pc[w] # "out" /\ self[w] \in 1 .. created
        /\ \A x \in Workers : x # w => pc[x] = "out"
    BY <1>1, CallerMoves, ActiveIsOne DEF Moves, Types, Objects, Threads
  <2>2. PICK to \in CallerPlaces : Moves(w, to)
    BY <1>1, CallerMoves
  <2>3. pc'[w] = to /\ \A x \in Workers : x # w => pc'[x] = "out"
    BY <2>1, <2>2 DEF Moves, Goto, Types, Places, Threads
  <2>4. UNCHANGED self
    BY <1>1, CallerKeeps
  <2>5. CASE UNCHANGED <<instance, freed>>
    <3>1. ~ FreeDelete(w)
      BY <1>0, <2>1, <2>5 DEF FreeDelete, Within, At, Held
    <3>2. ~ FreeMembers(w)
      BY <2>5 DEF FreeMembers, Within
    <3>3. to # "fMembers" /\ pc[w] # "fMembers"
      BY <1>1, <2>3, <3>1, <3>2, Destroys DEF Goto, Types, Places, Threads
    <3> QED
      BY <2>1, <2>3, <2>4, <2>5, <3>3 DEF Held
  <2>6. CASE instance' = 0 /\ pc[w] = "fDelete" /\ Goto(w, "fMembers")
    <3>1. UNCHANGED freed /\ to = "fMembers"
      BY <1>1, <2>2, <2>3, <2>6, CallerFrees DEF Goto, Types, Places, Threads
    <3> QED
      BY <1>0, <2>1, <2>3, <2>4, <2>6, <3>1 DEF Held
  <2>7. CASE /\ freed' = freed \cup {self[w]} /\ pc[w] = "fMembers"
             /\ Goto(w, "out") /\ UNCHANGED instance
    <3>1. to = "out"
      BY <2>3, <2>7 DEF Goto, Types, Places, Threads
    <3> QED
      BY <1>0, <2>1, <2>3, <2>7, <3>1 DEF Held
  <2> QED
    BY <1>1, <2>5, <2>6, <2>7, CallerFrees
<1>2. ASSUME NEW t \in Threads, NEW to, TakeInst(t, to), UNCHANGED freed, to # "fMembers",
             pc[t] = "out"
      PROVE  Held'
  <2>1. /\ pc' = [pc EXCEPT ![t] = to] /\ self' = [self EXCEPT ![t] = instance']
        /\ instance' = IF instance = 0 THEN created + 1 ELSE instance
    BY <1>2 DEF TakeInst, Goto
  <2>2. instance' \notin freed
    BY <1>0, <2>1 DEF Held
  <2>3. \A w \in Workers : pc[w] # "out" => self[w] \in 1 .. created
    BY DEF Types, Objects, Threads
  <2>4. ASSUME NEW w \in Workers, pc'[w] # "out"
        PROVE  self'[w] \notin freed /\ ((pc'[w] = "fMembers") <=> (self'[w] # instance'))
    <3>1. CASE w = t
      BY <1>2, <2>1, <2>2, <3>1 DEF Types, Places, Objects
    <3>2. CASE w # t
      <4>1. pc[w] = pc'[w] /\ self'[w] = self[w]
        BY <2>1, <3>2, <1>2 DEF Types, Places, Objects, Threads
      <4>2. instance = 0 => pc[w] = "fMembers"
        BY <1>0, <2>3, <2>4, <4>1 DEF Held
      <4> QED
        BY <1>0, <2>1, <2>3, <2>4, <4>1, <4>2 DEF Held
    <3> QED
      BY <3>1, <3>2
  <2> QED
    BY <1>2, <2>2, <2>4 DEF Held
<1>3. ASSUME NEW g \in GameThreads, PresentStep(g)
      PROVE  Held'
  BY <1>3, PresentMoves, PresentKeeps, ThreadAssumption DEF Held, Goto, Types, Places, Threads
<1>4. CASE UNCHANGED <<instance, freed, pc, self>>
  BY <1>4 DEF Held
<1>5. ASSUME NEW w \in Workers, Begin(w)
      PROVE  Held'
  BY <1>5, <1>2, Begins DEF Types, Threads
<1>6. ASSUME NEW g \in GameThreads, Present(g)
      PROVE  Held'
  BY <1>6, <1>2 DEF Present, At, Threads
<1> QED
  BY <1>1, <1>3, <1>4, <1>5, <1>6, NextSteps, Betweens, Controls, Frames, Idles
     DEF coreVars, frameFrame

\* The mutex is held by whoever is in a section that takes it.
Locked ==
    /\ \A w \in Workers : pc[w] \in LockedCaller => det[self[w]].lock = w
    /\ \A g \in GameThreads : pc[g] \in LockedPresent /\ self[g] \notin freed
                              => det[self[g]].lock = g

OpenGLGame == \A g \in GameThreads : PresentAPI[g] = "glx"

\* A worker's step keeps the mutex with who holds it.
LEMMA CallerLocks ==
  ASSUME Types, Locked, NEW w \in Workers, CallerStep(w)
  PROVE  /\ pc'[w] \in LockedCaller => det'[self[w]].lock = w
         /\ \/ det[self[w]].lock \in {NoThread, w}
            \/ det'[self[w]].lock = det[self[w]].lock
            \/ self[w] \in freed'
<1>0. /\ self[w] \in 1 .. MaxInst /\ w \in Threads
      /\ det[self[w]] \in DetectorType /\ lib[w] \in APIs
      /\ Places /\ Objects /\ DetOK
  BY CallerMoves DEF Moves, Types, Objects, Threads, DetOK, Values
<1>1. ASSUME NEW l \in Threads \cup {NoThread}, det' = [det EXCEPT ![self[w]].lock = l]
      PROVE  det'[self[w]].lock = l
  BY <1>0, <1>1, Relocked
<1>2. CASE DetectLock(w) \/ LibraryLock(w)
  <2>1. det[self[w]].lock = NoThread /\ det' = [det EXCEPT ![self[w]].lock = w]
    BY <1>2 DEF DetectLock, LibraryLock, Acquire, Owner, Mine
  <2> QED
    BY <1>0, <1>1, <2>1
<1>3. CASE DetectEnter(w) \/ (HookLibrary(w) /\ pc'[w] # "dInstall") \/ Decide(w)
  <2>1. pc[w] \in LockedCaller
    BY <1>3 DEF DetectEnter, HookLibrary, Decide, Within, At, LockedCaller
  <2>2. det[self[w]].lock = w
    BY <2>1 DEF Locked
  <2>3. UNCHANGED det \/ pc'[w] \notin LockedCaller
    BY <1>0, <1>3 DEF DetectEnter, HookLibrary, NextLibrary, Decide, Goto, Places,
       LockedCaller, ExitPlaces
  <2> QED
    BY <2>2, <2>3
<1>4. CASE DetectReset(w) \/ Record(w) \/ ExitDelete(w)
  <2>1. pc[w] \in LockedCaller /\ pc'[w] \notin LockedCaller
    BY <1>0, <1>4, Zenon DEF DetectReset, Record, NextLibrary, ExitDelete, Within, At, Goto, Places,
       LockedCaller, ExitPlaces
  <2> QED
    BY <2>1 DEF Locked
<1>5. CASE SkipLibrary(w) \/ Get(w) \/ FreeDelete(w)
  BY <1>0, <1>5 DEF SkipLibrary, NextLibrary, Get, FreeDelete, Goto, Places, LockedCaller,
     ExitPlaces
<1>6. CASE Install(w)
  BY <1>0, <1>6 DEF Install, Within, At, Locked, LockedCaller
<1>7. CASE HookLibrary(w) /\ pc'[w] = "dInstall"
  <2>1. det[self[w]].lock = w
    BY <1>7 DEF HookLibrary, Within, At, Locked, LockedCaller
  <2>2. Changed(self[w], [Mine(w) EXCEPT !.hooked[lib[w]] = TRUE, !.hook[lib[w]] = TRUE,
                                         !.orig[lib[w]] = "raw"])
    BY <1>0, <1>7, HookChanges, Zenon
  <2>3. det'[self[w]] = [det[self[w]] EXCEPT !.hooked[lib[w]] = TRUE, !.hook[lib[w]] = TRUE,
                                         !.orig[lib[w]] = "raw"]
    BY <1>0, <2>2, ChangedAt DEF Mine
  <2> QED
    BY <1>0, <2>1, <2>3 DEF DetectorType
<1>8. CASE FinishLock(w)
  <2>1. det'[self[w]] = [det[self[w]] EXCEPT !.lock = w, !.started = TRUE]
    BY <1>0, <1>8, FinishChanges, ChangedAt, Zenon DEF Mine
  <2> QED
    BY <1>0, <1>8, <2>1 DEF DetectorType, FinishLock, Owner, Mine
<1>9. CASE ExitRestore(w)
  <2>1. det'[self[w]] = [det[self[w]] EXCEPT !.done = TRUE, !.patched = FALSE]
    BY <1>0, <1>9, RestoreChanges, ChangedAt, Zenon DEF Mine
  <2>2. det[self[w]].lock = w
    BY <1>9 DEF ExitRestore, Within, At, Locked, LockedCaller, ExitPlaces
  <2> QED
    BY <1>0, <2>1, <2>2 DEF DetectorType
<1>10. CASE ExitUnhook(w)
  <2>1. det'[self[w]] = [det[self[w]] EXCEPT !.detours = {}]
    BY <1>0, <1>10, UnhookChanges, ChangedAt DEF Mine
  <2>2. det[self[w]].lock = w
    BY <1>10 DEF ExitUnhook, Within, At, Locked, LockedCaller, ExitPlaces
  <2> QED
    BY <1>0, <2>1, <2>2 DEF DetectorType
<1>11. CASE Stop(w) \/ FreeStop(w)
  <2>1. pc'[w] \notin LockedCaller /\ det[self[w]].lock = NoThread
    BY <1>0, <1>11 DEF Stop, FreeStop, StopDetection, Goto, Places, LockedCaller, ExitPlaces,
       Owner, Mine
  <2> QED
    BY <2>1
<1>12. CASE FreeMembers(w)
  BY <1>0, <1>12 DEF FreeMembers, UnhookAll, Goto, Places, LockedCaller, ExitPlaces
<1> QED
  BY <1>2, <1>3, <1>4, <1>5, <1>6, <1>7, <1>8, <1>9, <1>10, <1>11, <1>12 DEF CallerStep

\* A present's step keeps the mutex with who holds it.
LEMMA PresentLocks ==
  ASSUME OpenGLGame, Types, Locked, NEW g \in GameThreads, PresentStep(g)
  PROVE  /\ self[g] \notin freed
         /\ pc'[g] \in LockedPresent => det'[self[g]].lock = g
         /\ \/ det[self[g]].lock \in {NoThread, g}
            \/ det'[self[g]].lock = det[self[g]].lock
<1>0. /\ self[g] \in 1 .. MaxInst /\ g \in Threads
      /\ det[self[g]] \in DetectorType
      /\ Places /\ Objects /\ DetOK
  BY PresentMoves DEF Types, Objects, Threads, DetOK
<1>1. self[g] \notin freed
  BY DEF PresentStep, PresentLock, PresentCall, PresentCheck, HandOffRestore, HandOffUnhook,
     HandOffRenderer, HandOffDone, PresentLeave, Within
<1>2. pc[g] \in LockedPresent => det[self[g]].lock = g
  BY <1>1 DEF Locked
<1>3. CASE PresentLock(g)
  <2>1. det[self[g]].lock = NoThread /\ det' = [det EXCEPT ![self[g]].lock = g]
    BY <1>3 DEF PresentLock, OpenGLGame, Owner, Mine
  <2> QED
    BY <1>0, <1>1, <2>1, Relocked
<1>4. CASE PresentCall(g) \/ PresentCheck(g)
  BY <1>0, <1>1, <1>2, <1>4 DEF PresentCall, PresentCheck, Within, At, LockedPresent
<1>5. CASE HandOffRestore(g)
  <2>1. det'[self[g]] = [det[self[g]] EXCEPT !.patched = FALSE]
    BY <1>0, <1>5, HandRestoreChanges, ChangedAt DEF Mine
  <2> QED
    BY <1>0, <1>1, <1>2, <1>5, <2>1 DEF DetectorType, HandOffRestore, Within, At, LockedPresent
<1>6. CASE HandOffUnhook(g)
  <2>1. det'[self[g]] = [det[self[g]] EXCEPT !.detours = {}]
    BY <1>0, <1>6, HandUnhookChanges, ChangedAt DEF Mine
  <2> QED
    BY <1>0, <1>1, <1>2, <1>6, <2>1 DEF DetectorType, HandOffUnhook, Within, At, LockedPresent
<1>7. CASE HandOffDone(g)
  <2>1. det'[self[g]] = [det[self[g]] EXCEPT !.done = TRUE]
    BY <1>0, <1>7, HandDoneChanges, ChangedAt DEF Mine
  <2> QED
    BY <1>0, <1>1, <1>2, <1>7, <2>1 DEF DetectorType, HandOffDone, Within, At, LockedPresent
<1>8. CASE HandOffRenderer(g)
  <2> DEFINE r == IF Mine(g).hook["glx"] THEN "glx" ELSE "none"
  <2>1. "glx" \in APIs /\ PresentAPI[g] = "glx"
    BY DEF OpenGLGame, APIs
  <2>2. Changed(self[g], [Mine(g) EXCEPT !.renderer = r, !.hook["glx"] = FALSE])
    BY <1>0, <1>8, <2>1, HandChanges, Zenon
  <2>3. pc[g] = "hRenderer"
    BY <1>8 DEF HandOffRenderer, Within, At
  <2> HIDE DEF r
  <2>4. det'[self[g]] = [det[self[g]] EXCEPT !.renderer = r, !.hook["glx"] = FALSE]
    BY <1>0, <2>2, ChangedAt DEF Mine
  <2>5. det'[self[g]].lock = det[self[g]].lock
    BY <1>0, <2>4 DEF DetectorType
  <2> QED
    BY <1>1, <1>2, <2>3, <2>5 DEF LockedPresent
<1>9. CASE PresentLeave(g)
  <2>1. pc[g] = "pLeave" /\ pc'[g] = "out"
    BY <1>0, <1>9 DEF PresentLeave, Within, At, Goto, Places
  <2> QED
    BY <1>1, <1>2, <2>1 DEF LockedPresent
<1> QED
  BY <1>3, <1>4, <1>5, <1>6, <1>7, <1>8, <1>9 DEF PresentStep

\* Whoever is in a section under _RendererMutex holds it.
LEMMA LockedStep ==
  ASSUME OpenGLGame, OneController, Types, Control, Held, Held', Locked, [Next]_vars
  PROVE  Locked'
<1>0. /\ GameThreads \cap Workers = {} /\ freed \subseteq 1 .. created
      /\ Places /\ Objects /\ NoThread \notin Threads /\ created \in Nat
      /\ "out" \notin LockedCaller /\ "out" \notin LockedPresent
  BY ThreadAssumption, InstAssumption DEF Types, Objects, LockedCaller, ExitPlaces, LockedPresent
<1>1. ASSUME NEW w \in Workers, CallerStep(w)
      PROVE  Locked'
  <2>1. /\ \A x \in Workers : x # w => pc[x] = "out"
        /\ UNCHANGED self
    BY <1>1, CallerMoves, ActiveIsOne, CallerKeeps DEF Moves
  <2>2. \A t \in Threads : t # w => pc'[t] = pc[t]
    BY <1>0, <1>1, CallerMoves DEF Moves, Goto, Places
  <2>3. \A j \in 1 .. MaxInst : j # self[w] => det'[j] = det[j]
    BY <1>1, CallerDet DEF Types, Values
  <2>4. freed \subseteq freed'
    BY <1>1, CallerFrees
  <2>5. ASSUME NEW g \in GameThreads, pc'[g] \in LockedPresent, self[g] \notin freed'
        PROVE  det'[self[g]].lock = g
    <3>1. pc[g] \in LockedPresent /\ self[g] \notin freed /\ g # w
      BY <1>0, <2>2, <2>4, <2>5 DEF Threads
    <3>2. det[self[g]].lock = g /\ self[g] \in 1 .. MaxInst
      BY <1>0, <3>1 DEF Locked, Objects, Threads
    <3>3. CASE self[g] = self[w]
      BY <1>0, <1>1, <2>5, <3>1, <3>2, <3>3, CallerLocks DEF Threads
    <3> QED
      BY <2>3, <3>2, <3>3
  <2> QED
    BY <1>0, <1>1, <2>1, <2>2, <2>5, CallerLocks DEF Locked, Threads
<1>2. ASSUME NEW g \in GameThreads, PresentStep(g)
      PROVE  Locked'
  <2>1. UNCHANGED <<self, freed>>
    BY <1>2, PresentKeeps
  <2>2. \A t \in Threads : t # g => pc'[t] = pc[t]
    BY <1>0, <1>2, PresentMoves DEF Goto, Places
  <2>3. \A j \in 1 .. MaxInst : j # self[g] => det'[j] = det[j]
    BY <1>2, PresentDet DEF Types
  <2>4. ASSUME NEW t \in Threads, t # g, self[t] \in 1 .. MaxInst, det[self[t]].lock = t
        PROVE  det'[self[t]].lock = t
    <3>1. CASE self[t] = self[g]
      BY <1>0, <1>2, <2>4, <3>1, PresentLocks
    <3> QED
      BY <2>3, <2>4, <3>1
  <2>5. \A t \in Threads : pc[t] # "out" => self[t] \in 1 .. MaxInst
    BY <1>0 DEF Objects
  <2>6. ASSUME NEW w \in Workers, pc'[w] \in LockedCaller
        PROVE  det'[self'[w]].lock = w
    BY <1>0, <2>1, <2>2, <2>4, <2>5, <2>6 DEF Locked, Threads
  <2>7. ASSUME NEW h \in GameThreads, pc'[h] \in LockedPresent, self'[h] \notin freed'
        PROVE  det'[self'[h]].lock = h
    <3>1. CASE h = g
      BY <1>2, <2>1, <2>7, <3>1, PresentLocks
    <3>2. CASE h # g
      BY <1>0, <2>1, <2>2, <2>4, <2>5, <2>7, <3>2 DEF Locked, Threads
    <3> QED
      BY <3>1, <3>2
  <2> QED
    BY <2>6, <2>7 DEF Locked
<1>3. ASSUME NEW t \in Threads, NEW to \in {"dLock", "sLock", "gLock", "fStop", "pLock"},
             TakeInst(t, to), UNCHANGED <<det, freed>>, pc[t] = "out"
      PROVE  Locked'
  <2>1. /\ \A x \in Threads : x # t => pc'[x] = pc[x] /\ self'[x] = self[x]
        /\ pc'[t] = to
    BY <1>3 DEF TakeInst, Goto, Types, Places, Objects
  <2>2. to \notin LockedCaller /\ to \notin LockedPresent
    BY DEF LockedCaller, LockedPresent, ExitPlaces
  <2> QED
    BY <1>3, <2>1, <2>2 DEF Locked, Threads
<1>4. CASE UNCHANGED <<det, freed, pc, self>>
  BY <1>4 DEF Locked
<1>5. ASSUME NEW w \in Workers, Begin(w)
      PROVE  Locked'
  BY <1>5, <1>3, Begins DEF Types, Threads
<1>6. ASSUME NEW g \in GameThreads, Present(g)
      PROVE  Locked'
  BY <1>6, <1>3 DEF Present, At, Threads
<1> QED
  BY <1>1, <1>2, <1>4, <1>5, <1>6, NextSteps, Betweens, Controls, Frames, Idles
     DEF coreVars, frameFrame
-----------------------------------------------------------------------------

(* What each step of a worker or a present does to its detector.           *)

\* The place of a worker says which step it takes.
LEMMA StepAt ==
  ASSUME NEW w \in Workers, CallerStep(w)
  PROVE  /\ pc[w] = "dReset" <=> DetectReset(w)
         /\ pc[w] = "dHook" <=> HookLibrary(w)
         /\ pc[w] = "dInstall" <=> Install(w)
         /\ pc[w] = "dRecord" <=> Record(w)
         /\ pc[w] = "xDone" <=> ExitRestore(w)
         /\ pc[w] = "xUnhook" <=> ExitUnhook(w)
         /\ pc[w] = "xDelete" <=> ExitDelete(w)
         /\ pc[w] = "sLock" <=> Stop(w)
         /\ pc[w] = "gLock" <=> Get(w)
         /\ pc[w] = "fStop" <=> FreeStop(w)
         /\ pc[w] = "fDelete" <=> FreeDelete(w)
         /\ pc[w] = "fMembers" <=> FreeMembers(w)
         /\ pc[w] = "dEnter" <=> DetectEnter(w)
         /\ pc[w] = "dFinish" <=> FinishLock(w)
<1>1. /\ DetectReset(w) => pc[w] = "dReset"
      /\ HookLibrary(w) => pc[w] = "dHook"
      /\ Install(w) => pc[w] = "dInstall"
      /\ Record(w) => pc[w] = "dRecord"
      /\ ExitRestore(w) => pc[w] = "xDone"
      /\ ExitUnhook(w) => pc[w] = "xUnhook"
      /\ ExitDelete(w) => pc[w] = "xDelete"
      /\ DetectEnter(w) => pc[w] = "dEnter"
  BY Zenon DEF DetectReset, HookLibrary, Install, Record, ExitRestore, ExitUnhook, ExitDelete,
     DetectEnter, Within, At
<1>2. /\ Stop(w) => pc[w] = "sLock"
      /\ FreeStop(w) => pc[w] = "fStop"
      /\ Get(w) => pc[w] = "gLock"
      /\ FreeDelete(w) => pc[w] = "fDelete"
      /\ FreeMembers(w) => pc[w] = "fMembers"
      /\ DetectLock(w) => pc[w] = "dLock"
      /\ LibraryLock(w) => pc[w] = "dLibrary"
      /\ SkipLibrary(w) => pc[w] = "dLibrary"
      /\ FinishLock(w) => pc[w] = "dFinish"
      /\ Decide(w) => pc[w] = "dDecide"
  BY DEF Stop, FreeStop, StopDetection, Get, FreeDelete, FreeMembers, DetectLock, LibraryLock,
     Acquire, SkipLibrary, FinishLock, Decide, Within, At
<1> QED
  BY <1>1, <1>2 DEF CallerStep

New(t) == det'[self[t]]

\* What a worker's step does to the members of its detector that concern an API.
LEMMA CallerMembersOf ==
  ASSUME Types, NEW w \in Workers, CallerStep(w), NEW b \in APIs
  PROVE  \/ pc[w] = "fMembers" /\ New(w) = NewDetector
         \/ /\ pc[w] # "fMembers" /\ New(w).renderer = Mine(w).renderer
            /\ IF pc[w] = "dRecord"
               THEN New(w).detours = IF entry[lib[w]] = "detector" THEN Mine(w).detours \cup {lib[w]}
                                                              ELSE Mine(w).detours
               ELSE New(w).detours = IF pc[w] = "xUnhook" THEN {} ELSE Mine(w).detours
            /\ New(w).patched = IF pc[w] = "xDone" THEN FALSE
                           ELSE IF pc[w] = "dRecord" THEN Mine(w).patched \/ entry[lib[w]] # "detector"
                           ELSE Mine(w).patched
            /\ IF pc'[w] = "dInstall" /\ lib[w] = b
               THEN ~ Mine(w).done /\ ~ Mine(w).hooked[b] /\ New(w).hook[b] /\ New(w).hooked[b]
               ELSE IF pc[w] = "xDelete" THEN ~ New(w).hook[b] /\ ~ New(w).hooked[b]
               ELSE New(w).hook[b] = Mine(w).hook[b] /\ New(w).hooked[b] = Mine(w).hooked[b]
            /\ New(w).done = IF pc[w] = "dReset" THEN FALSE
                        ELSE IF pc[w] \in {"xDone", "sLock", "fStop"} THEN TRUE
                        ELSE Mine(w).done
<1> SUFFICES ASSUME NEW d, NEW e, d = Mine(w), e = New(w) PROVE
            \/ pc[w] = "fMembers" /\ e = NewDetector
            \/ /\ pc[w] # "fMembers" /\ e.renderer = d.renderer
               /\ IF pc[w] = "dRecord"
                  THEN e.detours = IF entry[lib[w]] = "detector" THEN d.detours \cup {lib[w]}
                                                                 ELSE d.detours
                  ELSE e.detours = IF pc[w] = "xUnhook" THEN {} ELSE d.detours
               /\ e.patched = IF pc[w] = "xDone" THEN FALSE
                         ELSE IF pc[w] = "dRecord" THEN d.patched \/ entry[lib[w]] # "detector"
                         ELSE d.patched
               /\ IF pc'[w] = "dInstall" /\ lib[w] = b
                  THEN ~ d.done /\ ~ d.hooked[b] /\ e.hook[b] /\ e.hooked[b]
                  ELSE IF pc[w] = "xDelete" THEN ~ e.hook[b] /\ ~ e.hooked[b]
                  ELSE e.hook[b] = d.hook[b] /\ e.hooked[b] = d.hooked[b]
               /\ e.done = IF pc[w] = "dReset" THEN FALSE
                           ELSE IF pc[w] \in {"xDone", "sLock", "fStop"} THEN TRUE
                           ELSE d.done
  OBVIOUS
<1>d. d = det[self[w]] /\ e = det'[self[w]]
  BY DEF Mine, New
<1>0. /\ self[w] \in 1 .. MaxInst /\ w \in Threads
      /\ d \in DetectorType /\ lib[w] \in APIs
      /\ Places /\ Objects /\ DetOK
  BY <1>d, CallerMoves DEF Moves, Types, Objects, Threads, DetOK, Values
<1>1. pc'[w] = "dInstall" => HookLibrary(w)
  BY <1>d, <1>0, Zenon DEF CallerStep, DetectLock, LibraryLock, Acquire, DetectEnter, DetectReset,
     SkipLibrary, NextLibrary, Install, Record, FinishLock, Decide, ExitRestore,
     RestorePatches, ExitUnhook, UnhookAll, ExitDelete, Stop, FreeStop, StopDetection, Get,
     FreeDelete, FreeMembers, Goto, Places
<1>2. CASE pc[w] = "fMembers"
  BY <1>d, <1>0, <1>2, StepAt, FreeChanges, ChangedAt
<1>3. CASE pc[w] = "dReset"
  <2>0. Changed(self[w], [Mine(w) EXCEPT !.started = FALSE, !.done = FALSE, !.lock = NoThread])
    BY <1>0, <1>3, StepAt, ResetChanges, Zenon
  <2>1. e = [d EXCEPT !.started = FALSE, !.done = FALSE, !.lock = NoThread]
    BY <1>d, <1>0, <2>0, ChangedAt DEF Mine
  <2> QED
    BY <1>d, <1>0, <1>1, <1>3, <2>1, StepAt DEF DetectorType
<1>4. CASE pc'[w] = "dInstall"
  <2> DEFINE a == lib[w]
  <2>1. Changed(self[w], [Mine(w) EXCEPT !.hooked[a] = TRUE, !.hook[a] = TRUE,
                                         !.orig[a] = "raw"])
    BY <1>d, <1>0, <1>1, <1>4, HookChanges, Zenon
  <2>2. e = [d EXCEPT !.hooked[a] = TRUE, !.hook[a] = TRUE, !.orig[a] = "raw"]
    BY <1>d, <1>0, <2>1, ChangedAt DEF Mine
  <2>3. pc[w] = "dHook" /\ ~ d.done /\ ~ d.hooked[a]
    BY <1>d, <1>0, <1>1, <1>4, StepAt, Zenon DEF HookLibrary, NextLibrary, Goto, Places, Mine
  <2>4. /\ e.renderer = d.renderer /\ e.detours = d.detours /\ e.done = d.done
        /\ e.patched = d.patched
        /\ e.hook = [d.hook EXCEPT ![a] = TRUE] /\ e.hooked = [d.hooked EXCEPT ![a] = TRUE]
    BY <1>d, <1>0, <2>2 DEF DetectorType
  <2>5. d.hook \in [APIs -> BOOLEAN] /\ d.hooked \in [APIs -> BOOLEAN]
    BY <1>d, <1>0 DEF DetectorType
  <2>6. CASE a = b
    BY <1>d, <1>0, <1>4, <2>3, <2>4, <2>5, <2>6
  <2>7. CASE a # b
    <3>1. e.hook[b] = d.hook[b] /\ e.hooked[b] = d.hooked[b]
      BY <1>d, <1>0, <2>4, <2>5, <2>7
    <3> QED
      BY <1>4, <2>3, <2>4, <2>7, <3>1
  <2> QED
    BY <2>6, <2>7
<1>5. CASE pc[w] = "dRecord"
  <2> DEFINE a == lib[w]
             detour == entry[a] = "detector"
             p == Mine(w).patched \/ ~ detour
             q == IF detour THEN Mine(w).detours \cup {a} ELSE Mine(w).detours
             r == IF detour THEN "tramp" ELSE Mine(w).orig[a]
  <2>1. Changed(self[w], [Mine(w) EXCEPT !.patched = p, !.detours = q, !.orig[a] = r,
                                         !.lock = NoThread])
    BY <1>d, <1>0, <1>5, StepAt, RecordChanges, Zenon
  <2> HIDE DEF p, q, r
  <2>2. e = [d EXCEPT !.patched = p, !.detours = q, !.orig[a] = r, !.lock = NoThread]
    BY <1>d, <1>0, <2>1, ChangedAt DEF Mine
  <2>3. /\ e.renderer = d.renderer /\ e.detours = q /\ e.hook = d.hook
        /\ e.hooked = d.hooked /\ e.done = d.done /\ e.patched = p
    BY <1>d, <1>0, <2>2 DEF DetectorType
  <2>4. q = IF entry[lib[w]] = "detector" THEN d.detours \cup {lib[w]} ELSE d.detours
    BY <1>d DEF q, Mine
  <2>5. p = (d.patched \/ entry[lib[w]] # "detector")
    BY <1>d DEF p, Mine
  <2>6. pc'[w] # "dInstall"
    BY <1>1, <1>5, StepAt
  <2> QED
    BY <1>5, <2>3, <2>4, <2>5, <2>6
<1>6. CASE pc[w] = "dFinish"
  <2>0. Changed(self[w], [Mine(w) EXCEPT !.lock = w, !.started = TRUE])
    BY <1>0, <1>6, StepAt, FinishChanges, Zenon
  <2>1. e = [d EXCEPT !.lock = w, !.started = TRUE]
    BY <1>d, <1>0, <2>0, ChangedAt DEF Mine
  <2> QED
    BY <1>d, <1>0, <1>1, <1>6, <2>1, StepAt DEF DetectorType
<1>7. CASE pc[w] = "xDone"
  <2>0. Changed(self[w], [Mine(w) EXCEPT !.done = TRUE, !.patched = FALSE])
    BY <1>0, <1>7, StepAt, RestoreChanges, Zenon
  <2>1. e = [d EXCEPT !.done = TRUE, !.patched = FALSE]
    BY <1>d, <1>0, <2>0, ChangedAt DEF Mine
  <2> QED
    BY <1>d, <1>0, <1>1, <1>7, <2>1, StepAt DEF DetectorType
<1>8. CASE pc[w] = "xUnhook"
  <2>0. Changed(self[w], [Mine(w) EXCEPT !.detours = {}])
    BY <1>0, <1>8, StepAt, UnhookChanges
  <2>1. e = [d EXCEPT !.detours = {}]
    BY <1>d, <1>0, <2>0, ChangedAt DEF Mine
  <2> QED
    BY <1>d, <1>0, <1>1, <1>8, <2>1, StepAt DEF DetectorType
<1>9. CASE pc[w] = "xDelete"
  <2>0. Changed(self[w], [Mine(w) EXCEPT !.hooked = [a \in APIs |-> FALSE], !.hook = [a \in APIs |-> FALSE],
                      !.lock = NoThread])
    BY <1>0, <1>9, StepAt, DeleteChanges, Zenon
  <2>1. e = [d EXCEPT !.hooked = [a \in APIs |-> FALSE], !.hook = [a \in APIs |-> FALSE],
                      !.lock = NoThread]
    BY <1>d, <1>0, <2>0, ChangedAt DEF Mine
  <2> QED
    BY <1>d, <1>0, <1>1, <1>9, <2>1, StepAt DEF DetectorType
<1>10. CASE pc[w] \in {"sLock", "fStop"}
  <2>0. Changed(self[w], [Mine(w) EXCEPT !.done = TRUE])
    BY <1>0, <1>10, StepAt, StopChanges
  <2>1. e = [d EXCEPT !.done = TRUE]
    BY <1>d, <1>0, <2>0, ChangedAt DEF Mine
  <2> QED
    BY <1>d, <1>0, <1>1, <1>10, <2>1, StepAt DEF DetectorType
<1>11. CASE /\ pc[w] \notin {"dReset", "dRecord", "dFinish", "xDone", "xUnhook", "xDelete",
                             "sLock", "fStop", "fMembers"}
            /\ pc'[w] # "dInstall"
  <2>1. Quiet
    BY <1>d, <1>0, <1>11, CallerDet, StepAt DEF FinishLock, Within, At
  <2> QED
    BY <1>d, <1>0, <1>11, <2>1 DEF Quiet
<1> QED
  BY <1>2, <1>3, <1>4, <1>5, <1>6, <1>7, <1>8, <1>9, <1>10, <1>11

\* The same, member by member: the renderer and the end of the detection,
LEMMA CallerRenderer ==
  ASSUME Types, NEW w \in Workers, CallerStep(w), pc[w] # "fMembers"
  PROVE  /\ New(w).renderer = Mine(w).renderer
         /\ New(w).done = IF pc[w] = "dReset" THEN FALSE
                     ELSE IF pc[w] \in {"xDone", "sLock", "fStop"} THEN TRUE
                     ELSE Mine(w).done
<1>1. "glx" \in APIs
  BY DEF APIs
<1> QED
  BY <1>1, CallerMembersOf, Zenon

\* the detours and the patches,
LEMMA CallerRedirections ==
  ASSUME Types, NEW w \in Workers, CallerStep(w), pc[w] # "fMembers"
  PROVE  /\ pc[w] \notin {"dRecord", "xUnhook"} => New(w).detours = Mine(w).detours
         /\ pc[w] \notin {"dRecord", "xDone"} => New(w).patched = Mine(w).patched
<1>1. "glx" \in APIs
  BY DEF APIs
<1> QED
  BY <1>1, CallerMembersOf, Zenon

\* and the hook object of an API.
LEMMA CallerHook ==
  ASSUME Types, NEW w \in Workers, CallerStep(w), pc[w] # "fMembers", NEW b \in APIs
  PROVE  IF pc'[w] = "dInstall" /\ lib[w] = b
         THEN ~ Mine(w).done /\ ~ Mine(w).hooked[b] /\ New(w).hook[b] /\ New(w).hooked[b]
         ELSE IF pc[w] = "xDelete" THEN ~ New(w).hook[b] /\ ~ New(w).hooked[b]
         ELSE New(w).hook[b] = Mine(w).hook[b] /\ New(w).hooked[b] = Mine(w).hooked[b]
BY CallerMembersOf, Zenon

\* What a worker's step does to the members of its detector that matter to OpenGL.
LEMMA CallerMembers ==
  ASSUME Types, NEW w \in Workers, CallerStep(w)
  PROVE  \/ pc[w] = "fMembers" /\ New(w) = NewDetector
         \/ /\ pc[w] # "fMembers" /\ New(w).renderer = Mine(w).renderer
            /\ IF pc[w] = "dRecord"
               THEN New(w).detours = IF entry[lib[w]] = "detector" THEN Mine(w).detours \cup {lib[w]}
                                                              ELSE Mine(w).detours
               ELSE New(w).detours = IF pc[w] = "xUnhook" THEN {} ELSE Mine(w).detours
            /\ IF pc'[w] = "dInstall" /\ lib[w] = "glx"
               THEN ~ Mine(w).done /\ ~ Mine(w).hooked["glx"] /\ New(w).hook["glx"] /\ New(w).hooked["glx"]
               ELSE IF pc[w] = "xDelete" THEN ~ New(w).hook["glx"] /\ ~ New(w).hooked["glx"]
               ELSE New(w).hook["glx"] = Mine(w).hook["glx"] /\ New(w).hooked["glx"] = Mine(w).hooked["glx"]
            /\ New(w).done = IF pc[w] = "dReset" THEN FALSE
                        ELSE IF pc[w] \in {"xDone", "sLock", "fStop"} THEN TRUE
                        ELSE Mine(w).done
BY CallerMembersOf DEF APIs

\* The place of a game thread says which step it takes.
LEMMA PresentAt ==
  ASSUME NEW g \in GameThreads, PresentStep(g)
  PROVE  /\ pc[g] = "hRestore" <=> HandOffRestore(g)
         /\ pc[g] = "hUnhook" <=> HandOffUnhook(g)
         /\ pc[g] = "hRenderer" <=> HandOffRenderer(g)
         /\ pc[g] = "hDone" <=> HandOffDone(g)
         /\ pc[g] = "pCheck" <=> PresentCheck(g)
BY DEF PresentStep, PresentLock, PresentCall, PresentCheck, HandOffRestore, HandOffUnhook,
   HandOffRenderer, HandOffDone, PresentLeave, Within, At

\* What a present's step does to the members of its detector.
LEMMA PresentMembersOf ==
  ASSUME Types, NEW g \in GameThreads, PresentStep(g), NEW b \in APIs
  PROVE  /\ New(g).renderer = IF pc[g] = "hRenderer"
                         THEN IF Mine(g).hook[PresentAPI[g]] THEN PresentAPI[g] ELSE "none"
                         ELSE Mine(g).renderer
         /\ IF pc[g] = "hRenderer" /\ PresentAPI[g] = b THEN ~ New(g).hook[b]
                                   ELSE New(g).hook[b] = Mine(g).hook[b]
         /\ New(g).hooked[b] = Mine(g).hooked[b]
         /\ New(g).detours = IF pc[g] = "hUnhook" THEN {} ELSE Mine(g).detours
         /\ New(g).patched = IF pc[g] = "hRestore" THEN FALSE ELSE Mine(g).patched
         /\ New(g).done = IF pc[g] = "hDone" THEN TRUE ELSE Mine(g).done
<1> SUFFICES ASSUME NEW d, NEW e, d = Mine(g), e = New(g), NEW a, a = PresentAPI[g] PROVE
            /\ e.renderer = IF pc[g] = "hRenderer"
                            THEN IF d.hook[a] THEN a ELSE "none"
                            ELSE d.renderer
            /\ IF pc[g] = "hRenderer" /\ a = b THEN ~ e.hook[b] ELSE e.hook[b] = d.hook[b]
            /\ e.hooked[b] = d.hooked[b]
            /\ e.detours = IF pc[g] = "hUnhook" THEN {} ELSE d.detours
            /\ e.patched = IF pc[g] = "hRestore" THEN FALSE ELSE d.patched
            /\ e.done = IF pc[g] = "hDone" THEN TRUE ELSE d.done
  OBVIOUS
<1>d. d = det[self[g]] /\ e = det'[self[g]]
  BY DEF Mine, New
<1>0. /\ self[g] \in 1 .. MaxInst /\ g \in Threads
      /\ d \in DetectorType /\ a \in APIs
      /\ Places /\ Objects /\ DetOK
  BY <1>d, PresentMoves, APIAssumption DEF Types, Objects, Threads, DetOK
<1>1. CASE pc[g] = "hRestore"
  <2>0. Changed(self[g], [Mine(g) EXCEPT !.patched = FALSE])
    BY <1>0, <1>1, PresentAt, HandRestoreChanges
  <2>1. e = [d EXCEPT !.patched = FALSE]
    BY <1>d, <1>0, <2>0, ChangedAt DEF Mine
  <2> QED
    BY <1>d, <1>0, <1>1, <2>1 DEF DetectorType
<1>2. CASE pc[g] = "hUnhook"
  <2>0. Changed(self[g], [Mine(g) EXCEPT !.detours = {}])
    BY <1>0, <1>2, PresentAt, HandUnhookChanges
  <2>1. e = [d EXCEPT !.detours = {}]
    BY <1>d, <1>0, <2>0, ChangedAt DEF Mine
  <2> QED
    BY <1>d, <1>0, <1>2, <2>1 DEF DetectorType
<1>3. CASE pc[g] = "hDone"
  <2>0. Changed(self[g], [Mine(g) EXCEPT !.done = TRUE])
    BY <1>0, <1>3, PresentAt, HandDoneChanges
  <2>1. e = [d EXCEPT !.done = TRUE]
    BY <1>d, <1>0, <2>0, ChangedAt DEF Mine
  <2> QED
    BY <1>d, <1>0, <1>3, <2>1 DEF DetectorType
<1>4. CASE pc[g] = "hRenderer"
  <2> DEFINE r == IF Mine(g).hook[a] THEN a ELSE "none"
  <2>1. Changed(self[g], [Mine(g) EXCEPT !.renderer = r, !.hook[a] = FALSE])
    BY <1>d, <1>0, <1>4, PresentAt, HandChanges, Zenon
  <2>2. r = IF d.hook[a] THEN a ELSE "none"
    BY <1>d DEF Mine
  <2> HIDE DEF r
  <2>3. e = [d EXCEPT !.renderer = r, !.hook[a] = FALSE]
    BY <1>d, <1>0, <2>1, ChangedAt DEF Mine
  <2>4. /\ e.renderer = r /\ e.hook = [d.hook EXCEPT ![a] = FALSE]
        /\ e.hooked = d.hooked /\ e.detours = d.detours /\ e.done = d.done
        /\ e.patched = d.patched
    BY <1>d, <1>0, <2>3 DEF DetectorType
  <2>5. IF a = b THEN ~ e.hook[b] ELSE e.hook[b] = d.hook[b]
    BY <1>d, <1>0, <2>4 DEF DetectorType
  <2> QED
    BY <1>4, <2>2, <2>4, <2>5
<1>5. CASE pc[g] \notin {"hRestore", "hUnhook", "hDone", "hRenderer"}
  <2>1. Quiet
    BY <1>d, <1>0, <1>5, PresentDet, PresentAt
  <2> QED
    BY <1>d, <1>0, <1>5, <2>1 DEF Quiet
<1> QED
  BY <1>1, <1>2, <1>3, <1>4, <1>5

\* What a present's step does to the members of its detector that matter to
\* OpenGL.
LEMMA PresentMembers ==
  ASSUME OpenGLGame, Types, NEW g \in GameThreads, PresentStep(g)
  PROVE  /\ New(g).renderer = IF pc[g] = "hRenderer"
                         THEN IF Mine(g).hook["glx"] THEN "glx" ELSE "none"
                         ELSE Mine(g).renderer
         /\ IF pc[g] = "hRenderer" THEN ~ New(g).hook["glx"] ELSE New(g).hook["glx"] = Mine(g).hook["glx"]
         /\ New(g).hooked["glx"] = Mine(g).hooked["glx"]
         /\ New(g).detours = IF pc[g] = "hUnhook" THEN {} ELSE Mine(g).detours
         /\ New(g).done = IF pc[g] = "hDone" THEN TRUE ELSE Mine(g).done
BY PresentMembersOf DEF APIs, OpenGLGame

\* Which step leads to a place.
LEMMA CallerGoes ==
  ASSUME Types, NEW w \in Workers, CallerStep(w)
  PROVE  /\ pc'[w] = "dInstall" => HookLibrary(w)
         /\ pc'[w] = "dRecord" => Install(w)
         /\ pc'[w] = "dReset" => pc[w] = "dEnter" /\ Mine(w).renderer = "none"
         /\ pc'[w] = "xUnhook" => pc[w] = "xDone"
         /\ pc'[w] = "xDelete" => pc[w] = "xUnhook"
         /\ pc'[w] = "fDelete" => pc[w] = "fStop"
         /\ pc'[w] = "fMembers" => pc[w] = "fDelete"
         /\ pc[w] = "fDelete" => pc'[w] = "fMembers"
<1>0. Places /\ w \in Threads
  BY DEF Types, Threads
<1>1. CASE DetectLock(w) \/ LibraryLock(w) \/ DetectReset(w) \/ SkipLibrary(w)
  BY <1>0, <1>1 DEF DetectLock, LibraryLock, Acquire, DetectReset, SkipLibrary, NextLibrary,
     Goto, Places, Within, At
<1>2. CASE DetectEnter(w)
  BY <1>0, <1>2 DEF DetectEnter, Goto, Places, Within, At
<1>3. CASE HookLibrary(w)
  BY <1>0, <1>3 DEF HookLibrary, NextLibrary, Goto, Places, Within, At
<1>4. CASE Install(w) \/ Record(w)
  BY <1>0, <1>4 DEF Install, Record, NextLibrary, Goto, Places, Within, At
<1>5. CASE FinishLock(w) \/ Decide(w)
  BY <1>0, <1>5 DEF FinishLock, Decide, NextLibrary, Goto, Places, Within, At
<1>6. CASE ExitRestore(w) \/ ExitUnhook(w) \/ ExitDelete(w)
  <2>1. CASE ExitRestore(w)
    BY <1>0, <2>1 DEF ExitRestore, RestorePatches, Goto, Places, Within, At
  <2>2. CASE ExitUnhook(w)
    BY <1>0, <2>2 DEF ExitUnhook, UnhookAll, Goto, Places, Within, At
  <2>3. CASE ExitDelete(w)
    BY <1>0, <2>3 DEF ExitDelete, Goto, Places, Within, At
  <2> QED
    BY <1>6, <2>1, <2>2, <2>3
<1>7. CASE Stop(w) \/ FreeStop(w) \/ Get(w) \/ FreeDelete(w) \/ FreeMembers(w)
  BY <1>0, <1>7 DEF Stop, FreeStop, StopDetection, Get, FreeDelete, FreeMembers, UnhookAll,
     Goto, Places, Within, At
<1> QED
  BY <1>1, <1>2, <1>3, <1>4, <1>5, <1>6, <1>7 DEF CallerStep

\* Inside calls, only the deletion of a detector's hooks ends a hook object.
LEMMA CallerAliveOf ==
  ASSUME Types, NEW w \in Workers, CallerStep(w), NEW b \in APIs
  PROVE  /\ pc'[w] = "dInstall" /\ lib[w] = b => hookObj'[b].alive
         /\ \/ hookObj[b].alive => hookObj'[b].alive
            \/ pc[w] \in {"xDelete", "fDelete"} /\ Mine(w).hook[b]
<1>0. /\ HooksOK /\ lib[w] \in APIs /\ self[w] \in 1 .. MaxInst
  BY CallerMoves DEF Types, Values, APIs, Moves, Objects, Threads
<1>1. CASE pc[w] = "dHook"
  <2>1. HookLibrary(w)
    BY <1>1, StepAt
  <2>2. CASE UNCHANGED hookObj
    <3>1. pc'[w] # "dInstall" \/ hookObj' = [hookObj EXCEPT ![lib[w]].alive = TRUE, ![lib[w]].orig = "raw"]
      BY <2>1 DEF HookLibrary, NextLibrary, Goto, Types, Places, Threads
    <3>2. ASSUME lib[w] = b, hookObj' = [hookObj EXCEPT ![b].alive = TRUE, ![b].orig = "raw"]
          PROVE  hookObj'[b].alive
      BY <1>0, <3>2 DEF HooksOK, HookType
    <3> QED
      BY <1>1, <2>2, <3>1, <3>2
  <2>3. ASSUME NEW h, HookChanged(lib[w], h), h.alive
        PROVE  /\ lib[w] = b => hookObj'[b].alive
               /\ hookObj[b].alive => hookObj'[b].alive
    BY <1>0, <2>3, HookChangedAt
  <2> QED
    BY <1>0, <2>1, <2>2, <2>3, HookLibraryHooks
<1>2. CASE pc[w] \in {"xDelete", "fDelete"}
  <2>1. DeleteHooks(self[w])
    BY <1>2, StepAt, Zenon DEF ExitDelete, FreeDelete
  <2>2. pc'[w] # "dInstall"
    BY <1>2, CallerGoes, StepAt
  <2> QED
    BY <1>0, <1>2, <2>1, <2>2, DeletedHooks DEF Mine
<1>3. CASE pc[w] \notin {"dHook", "xDelete", "fDelete"}
  <2>1. UNCHANGED hookObj
    BY <1>3, StepAt, Zenon DEF CallerStep, DetectLock, LibraryLock, Acquire, DetectEnter,
       DetectReset, SkipLibrary, Install, Record, FinishLock, Decide, ExitRestore,
       ExitUnhook, Stop, FreeStop, StopDetection, Get, FreeMembers
  <2>2. pc'[w] # "dInstall"
    BY <1>3, CallerGoes, StepAt
  <2> QED
    BY <2>1, <2>2
<1> QED
  BY <1>1, <1>2, <1>3

\* Elsewhere, only stop ends a hook object.
LEMMA OthersAliveOf ==
  ASSUME Types, NEW b \in APIs
  PROVE  /\ \A w \in Workers : Between(w) /\ hookObj[b].alive => hookObj'[b].alive
         /\ \A g \in GameThreads : Frame(g) /\ hookObj[b].alive => hookObj'[b].alive
         /\ \A c \in Controllers : Controller(c) /\ hookObj[b].alive
                                   => hookObj'[b].alive \/ (StopFree(c) /\ victim[c] = b)
<1>0. HooksOK
  BY DEF Types
<1>1. ASSUME NEW a \in APIs, NEW h, HookChanged(a, h), hookObj[a].alive => h.alive,
             hookObj[b].alive
      PROVE  hookObj'[b].alive
  BY <1>0, <1>1, HookChangedAt
<1>2. ASSUME NEW w \in Workers, Between(w), hookObj[b].alive
      PROVE  hookObj'[b].alive
  <2>1. CASE StartHookSaved(w)
    <3>1. ret[w] \in APIs
      BY <2>1 DEF StartHookSaved, WGo, Types, Returned
    <3> QED
      BY <1>0, <1>1, <1>2, <2>1, <3>1, SavedHooks
  <2>2. CASE UNCHANGED hookObj
    BY <1>2, <2>2
  <2> QED
    BY <1>2, <2>1, <2>2 DEF Between, PollEnd, Polled, Got, Own, StartHook, WorkerEnd, detVars
<1>3. ASSUME NEW g \in GameThreads, Frame(g), hookObj[b].alive
      PROVE  hookObj'[b].alive
  <2>1. PresentAPI[g] \in APIs
    BY APIAssumption
  <2> QED
    BY <1>0, <1>1, <1>3, <2>1, FrameHooks
<1>4. ASSUME NEW c \in Controllers, Controller(c), hookObj[b].alive,
             ~ (StopFree(c) /\ victim[c] = b)
      PROVE  hookObj'[b].alive
  <2>1. CASE StopNotify(c)
    BY <1>0, <1>1, <1>4, <2>1, NotifyHooks DEF APIs
  <2>3. CASE StopFree(c)
    <3>1. victim[c] \in APIs /\ victim[c] # b
      BY <1>4, <2>3 DEF StopFree, CGo, Types, Bridge
    <3> QED
      BY <1>0, <1>4, <2>3, <3>1, FreeHooks, HookChangedAt
  <2>2. CASE UNCHANGED hookObj
    BY <1>4, <2>2
  <2> QED
    BY <1>4, <2>1, <2>2, <2>3 DEF Controller, StartExchange, StartClear, StartSpawn, StopExchange,
       StopSignal, StopJoin, StopTake, StopUnhook, StopReturn, detVars
<1> QED
  BY <1>2, <1>3, <1>4

-----------------------------------------------------------------------------
(* Types, for any game.                                                    *)

\* At first there is neither worker nor hook.
LEMMA ControlInit == Init => Control /\ Generations
<1> SUFFICES ASSUME Init PROVE Control /\ Generations
  OBVIOUS
<1> USE DEF Init, DetectorInit, BridgeInit
<1>1. Control
  BY DEF Control, Active, StopPlaces
<1>2. Generations
  BY DEF Generations, StopPlaces, NoHook
<1> QED
  BY <1>1, <1>2

\* The first three layers are inductive together.
LEMMA CStep ==
  ASSUME OneController, CInv, [Next]_vars
  PROVE  CInv'
<1>1. Types'
  BY TypesStep DEF CInv
<1> QED
  BY <1>1, ControlStep, GenerationsStep DEF CInv

\* TypeOK for any game: with one controller there is at most one deletion per
\* stop, so that generations stay in bounds.
THEOREM TypeInvariant ==
  ASSUME OneController
  PROVE  Spec => []TypeOK
<1>1. Init => CInv
  BY TypesInit, ControlInit DEF CInv
<1>2. CInv /\ [Next]_vars => CInv'
  BY CStep
<1>3. CInv => TypeOK
  <2> SUFFICES ASSUME CInv PROVE TypeOK
    OBVIOUS
  <2>1. DetectorTypeOK
    BY InstAssumption DEF CInv, Types, Objects, DetOK, HooksOK, Values, DetectorTypeOK, Results
  <2>2. fgen \in [GameThreads -> 0 .. MaxStops]
    <3>1. ASSUME NEW g \in GameThreads
          PROVE  fgen[g] \in 0 .. MaxStops
      <4>1. fgen[g] \in Nat /\ fgen[g] <= stops /\ stops \in 0 .. MaxStops
        BY DEF CInv, Types, Bridge, Generations
      <4> QED
        BY <4>1, StopsAssumption
    <3> QED
      BY <3>1 DEF CInv, Types, Bridge
  <2> QED
    BY <2>1, <2>2 DEF CInv, Types, Bridge, TypeOK
<1> QED
  BY <1>1, <1>2, <1>3, PTL DEF Spec

-----------------------------------------------------------------------------
(* Every game, whatever its threads present with: the hook objects that a  *)
(* detector keeps or has found, and the one that the bridge holds.         *)

\* What a worker's step leaves alone.
LEMMA CallerAlone ==
  ASSUME Types, Control, Held, NEW w \in Workers, CallerStep(w)
  PROVE  /\ pc[w] # "out" /\ pc[w] \in CallerPlaces /\ self[w] \in 1 .. MaxInst
         /\ UNCHANGED self /\ Active(w) /\ wpc[w] # "begin"
         /\ wpc[w] = "end" => pc[w] \in FreePlaces
         /\ \A x \in Workers : x # w => ~ Active(x) /\ pc[x] = "out" /\ pc'[x] = "out"
         /\ \A i \in 1 .. MaxInst : i # self[w] => det'[i] = det[i]
         /\ pc[w] # "fMembers" => self[w] = instance
<1>0. Places /\ Objects /\ DetOK /\ w \in Threads
  BY DEF Types, Threads
<1>1. pc[w] # "out" /\ pc[w] \in CallerPlaces /\ self[w] \in 1 .. MaxInst /\ UNCHANGED self
  BY <1>0, CallerMoves, CallerKeeps DEF Moves, Objects
<1>2. Active(w) /\ wpc[w] # "begin" /\ (wpc[w] = "end" => pc[w] \in FreePlaces)
  BY <1>1 DEF Types, Calls, Active
<1>3. \A x \in Workers : x # w => ~ Active(x) /\ pc[x] = "out"
  BY <1>1, ActiveIsOne
<1>4. \A t \in Threads : t # w => pc'[t] = pc[t]
  BY <1>0, CallerMoves DEF Moves, Goto, Places
<1>5. \A i \in 1 .. MaxInst : i # self[w] => det'[i] = det[i]
  BY <1>0, CallerDet DEF Types, Values
<1> QED
  BY <1>0, <1>1, <1>2, <1>3, <1>4, <1>5 DEF Threads, Held

\* What a present's step leaves alone.
LEMMA PresentAlone ==
  ASSUME Types, NEW g \in GameThreads, PresentStep(g)
  PROVE  /\ self[g] \in 1 .. MaxInst /\ g \in Threads
         /\ UNCHANGED <<self, lib, instance, ret, hookObj>>
         /\ \A w \in Workers : pc'[w] = pc[w]
         /\ \A i \in 1 .. MaxInst : i # self[g] => det'[i] = det[i]
<1>0. Places /\ Objects /\ DetOK /\ g \in Threads /\ GameThreads \cap Workers = {}
  BY ThreadAssumption DEF Types, Threads
<1>1. self[g] \in 1 .. MaxInst
  BY <1>0, PresentMoves DEF Objects
<1>2. \A w \in Workers : pc'[w] = pc[w]
  BY <1>0, PresentMoves DEF Goto, Places, Threads
<1>3. \A i \in 1 .. MaxInst : i # self[g] => det'[i] = det[i]
  BY <1>0, PresentDet
<1> QED
  BY <1>0, <1>1, <1>2, <1>3, PresentKeeps

Bare(i) == /\ det[i].renderer = "none" /\ det[i].detours = {}
           /\ \A a \in APIs : ~ det[i].hook[a]

\* The detector that a worker uses, once it has begun to.
Uses(w, i) == /\ Active(w) /\ wpc[w] # "begin"
              /\ wpc[w] = "end" => pc[w] # "out"
              /\ i = IF pc[w] = "out" THEN instance ELSE self[w]

\* Detectors that no worker uses keep neither a detour, a hook object nor a
\* renderer.
Spare == \A i \in 1 .. MaxInst : Bare(i) \/ \E w \in Workers : Uses(w, i)

\* At first no detector has anything and nobody is inside one.
LEMMA DetectorInitially ==
  ASSUME Init
  PROVE  /\ \A i \in 1 .. MaxInst : Bare(i)
         /\ \A t \in Threads : pc[t] = "out"
         /\ \A w \in Workers : pc[w] = "out" /\ wpc[w] = "none"
         /\ \A g \in GameThreads : pc[g] = "out"
BY DEF Init, DetectorInit, BridgeInit, Bare, NewDetector, APIs, Threads

\* The destructor has deleted the hooks of a detector, and not yet its members.
Dying(i) == \E w \in Workers : pc[w] = "fMembers" /\ self[w] = i

\* A hook object that a detector keeps lives.
Keeps(i, a) == det[i].hook[a] => det[i].hooked[a] /\ (hookObj[a].alive \/ Dying(i))

\* The renderer that a detector has found lives, is no longer kept by the
\* detector, and will not be detected again.
Found(i, a) == det[i].renderer = a =>
    /\ ~ det[i].hook[a]
    /\ hookObj[a].alive \/ Dying(i)
    /\ \/ det[i].hooked[a]
       \/ det[i].done /\ \A w \in Workers : ~ (pc[w] = "dReset" /\ self[w] = i)

\* Hooks are deleted once the detection has ended.
Exits == \A w \in Workers :
    pc[w] \in {"xUnhook", "xDelete", "fDelete", "fMembers"} => det[self[w]].done

Finds == /\ \A i \in 1 .. MaxInst, a \in APIs : Keeps(i, a)
         /\ \A i \in 1 .. MaxInst, a \in APIs : Found(i, a)
         /\ Exits

\* Detectors that no worker uses keep nothing.
LEMMA SpareStep ==
  ASSUME OneController, Types, Types', Control, Held, Spare, [Next]_vars
  PROVE  Spare'
<1>0. Places /\ Objects /\ DetOK
  BY DEF Types
<1>1. ASSUME NEW w \in Workers, CallerStep(w), UNCHANGED bridgeVars
      PROVE  Spare'
  <2>1. UNCHANGED wpc
    BY <1>1 DEF bridgeVars
  <2>2. ASSUME NEW i \in 1 .. MaxInst, i # self[w]
        PROVE  Bare(i)'
    <3>1. Bare(i)
      BY <1>1, <2>2, CallerAlone DEF Spare, Uses
    <3>2. det'[i] = det[i]
      BY <1>1, <2>2, CallerAlone
    <3> QED
      BY <3>1, <3>2 DEF Bare
  <2>3. CASE pc[w] = "fMembers"
    <3>1. New(w) = NewDetector
      BY <1>1, <2>3, CallerMembersOf DEF APIs
    <3>2. ASSUME NEW i \in 1 .. MaxInst, i = self[w]
          PROVE  Bare(i)'
      BY <3>1, <3>2 DEF Bare, New, NewDetector, APIs
    <3> QED
      BY <2>2, <3>2 DEF Spare
  <2>4. CASE pc[w] # "fMembers"
    <3>1. pc[w] \in FreePlaces => pc'[w] # "out"
      BY <1>0, <1>1, <2>4, StepAt DEF FreePlaces, FreeStop, StopDetection, FreeDelete, Goto, Places, Threads
    <3>2. pc'[w] = "out" => UNCHANGED instance
      BY <1>0, <1>1, <2>4, CallerFrees DEF Goto, Places, Threads
    <3>3. Uses(w, self[w])'
      BY <1>1, <2>1, <2>4, <3>1, <3>2, CallerAlone DEF Uses, Active
    <3>4. ASSUME NEW i \in 1 .. MaxInst
          PROVE  Bare(i)' \/ Uses(w, i)'
      <4>1. CASE i = self[w]
        BY <1>1, <3>3, <4>1, CallerAlone DEF Uses, Active
      <4>2. CASE i # self[w]
        BY <2>2, <4>2
      <4> QED
        BY <4>1, <4>2
    <3> QED
      BY <3>4 DEF Spare
  <2> QED
    BY <2>3, <2>4
<1>2. ASSUME NEW w \in Workers, Begin(w)
      PROVE  Spare'
  <2>1. /\ UNCHANGED det /\ pc[w] = "out"
        /\ \A x \in Workers : x # w => wpc'[x] = wpc[x]
        /\ pc'[w] # "out" /\ wpc'[w] \notin {"none", "ended", "begin"}
    BY <1>0, <1>2, Begins DEF Types, CallBegun, Places
  <2>2. /\ self'[w] = instance' /\ (instance # 0 => UNCHANGED instance)
        /\ \A x \in Workers : x # w => pc'[x] = pc[x] /\ self'[x] = self[x]
    BY <1>0, <1>2, Begins DEF Types, TakeInst, Goto, Places, Objects, Threads
  <2>3. Active(w)
    BY <1>2, Begins DEF Types, CallBegun, Active
  <2>4. \A x \in Workers : Active(x) => x = w
    BY <2>3, ActiveIsOne
  <2>5. ASSUME NEW i \in 1 .. MaxInst, ~ Bare(i)
        PROVE  Uses(w, i)'
    <3>1. Uses(w, i)
      BY <2>4, <2>5 DEF Spare, Uses
    <3>2. i = instance /\ instance # 0
      BY <2>1, <3>1 DEF Uses
    <3> QED
      BY <2>1, <2>2, <3>2 DEF Uses, Active
  <2>6. \A i \in 1 .. MaxInst : Bare(i) => Bare(i)'
    BY <2>1 DEF Bare
  <2> QED
    BY <2>5, <2>6 DEF Spare
<1>3. ASSUME UNCHANGED det, \A x \in Workers, i \in 1 .. MaxInst : Uses(x, i) => Uses(x, i)'
      PROVE  Spare'
  <2>1. \A i \in 1 .. MaxInst : Bare(i) => Bare(i)'
    BY <1>3 DEF Bare
  <2> QED
    BY <1>3, <2>1 DEF Spare
<1>4. ASSUME NEW w \in Workers, Between(w)
      PROVE  Spare'
  <2>1. /\ UNCHANGED <<det, instance, pc, self>> /\ pc[w] = "out"
        /\ \A x \in Workers : x # w => wpc'[x] = wpc[x]
        /\ wpc'[w] \in {"poll", "get", "giveUp", "own", "start", "startSaved", "free", "ended"}
    BY <1>0, <1>4, Betweens DEF coreVars, Places
  <2>2. wpc'[w] = "ended" => wpc[w] = "end"
    BY <1>0, <1>4 DEF Between, PollEnd, Polled, Got, Own, StartHook, StartHookSaved, WorkerEnd,
       WGo, Places
  <2>3. \A x \in Workers, i \in 1 .. MaxInst : Uses(x, i) => Uses(x, i)'
    BY <2>1, <2>2 DEF Uses, Active
  <2> QED
    BY <1>3, <2>1, <2>3
<1>5. ASSUME NEW g \in GameThreads, Present(g), UNCHANGED bridgeVars
      PROVE  Spare'
  <2>1. /\ UNCHANGED <<det, wpc>> /\ (instance # 0 => UNCHANGED instance)
        /\ \A x \in Workers : pc'[x] = pc[x] /\ self'[x] = self[x]
    BY <1>0, <1>5, ThreadAssumption DEF Present, TakeInst, Goto, Places, Objects, Threads, bridgeVars
  <2>2. \A x \in Workers, i \in 1 .. MaxInst : Uses(x, i) => Uses(x, i)'
    BY <2>1 DEF Uses, Active
  <2> QED
    BY <1>3, <2>1, <2>2
<1>6. ASSUME NEW g \in GameThreads, PresentStep(g), UNCHANGED bridgeVars
      PROVE  Spare'
  <2>1. UNCHANGED wpc
    BY <1>6 DEF bridgeVars
  <2>2. \A x \in Workers, i \in 1 .. MaxInst : Uses(x, i) => Uses(x, i)'
    BY <1>6, <2>1, PresentAlone DEF Uses, Active
  <2>3. ASSUME NEW i \in 1 .. MaxInst, Bare(i)
        PROVE  Bare(i)'
    <3>1. CASE i = self[g]
      <4>1. /\ Mine(g).renderer = "none" /\ Mine(g).detours = {} /\ \A a \in APIs : ~ Mine(g).hook[a]
            /\ PresentAPI[g] \in APIs
        BY <2>3, <3>1, APIAssumption DEF Bare, Mine
      <4>2. New(g).renderer = "none" /\ New(g).detours = {}
        BY <1>6, <4>1, PresentMembersOf, Zenon
      <4>3. ASSUME NEW a \in APIs PROVE ~ New(g).hook[a]
        BY <1>6, <4>1, PresentMembersOf
      <4> QED
        BY <1>6, <3>1, <4>2, <4>3, PresentAlone DEF Bare, New
    <3>2. CASE i # self[g]
      BY <1>6, <2>3, <3>2, PresentAlone DEF Bare
    <3> QED
      BY <3>1, <3>2
  <2> QED
    BY <2>2, <2>3 DEF Spare
<1>7. ASSUME NEW c \in Controllers, Controller(c)
      PROVE  Spare'
  <2>1. UNCHANGED <<det, instance, pc, self>>
    BY <1>7, Controls DEF coreVars
  <2>2. \A x \in Workers : Active(x) => wpc'[x] = wpc[x]
    <3>1. CASE StartSpawn(c)
      <4>1. PICK w \in Workers \ spawned : wpc' = [wpc EXCEPT ![w] = "begin"]
        BY <3>1 DEF StartSpawn
      <4> QED
        BY <1>0, <4>1 DEF Types, Bridge, Places, Active
    <3> QED
      BY <1>7, <3>1 DEF Controller, StartExchange, StartClear, StopExchange,
         StopSignal, StopJoin, StopTake, StopNotify, StopUnhook, StopFree, StopReturn
  <2>3. \A x \in Workers, i \in 1 .. MaxInst : Uses(x, i) => Uses(x, i)'
    BY <2>1, <2>2 DEF Uses, Active
  <2> QED
    BY <1>3, <2>1, <2>3
<1>8. CASE UNCHANGED <<det, instance, pc, self, wpc>>
  BY <1>8 DEF Spare, Uses, Active, Bare
<1> QED
  BY <1>1, <1>2, <1>4, <1>5, <1>6, <1>7, <1>8, NextSteps, Frames, Idles
     DEF frameFrame, bridgeVars

\* A worker's step respects what detectors keep and have found.
LEMMA FindsCaller ==
  ASSUME Types, Control, Held, Spare, Finds, NEW w \in Workers, CallerStep(w)
  PROVE  Finds'
<1>0. /\ pc[w] # "out" /\ self[w] \in 1 .. MaxInst /\ UNCHANGED self /\ DetOK
      /\ \A x \in Workers : x # w => pc[x] = "out" /\ pc'[x] = "out"
      /\ \A i \in 1 .. MaxInst : i # self[w] => det'[i] = det[i]
  BY CallerAlone DEF Types
<1>1. ASSUME NEW i \in 1 .. MaxInst, i # self[w]
      PROVE  /\ \A a \in APIs : Keeps(i, a)' /\ Found(i, a)'
  <2>1. Bare(i)
    BY <1>0, <1>1, CallerAlone DEF Spare, Uses
  <2>2. \A a \in APIs : det'[i].renderer # a /\ ~ det'[i].hook[a]
    BY <1>0, <1>1, <2>1 DEF Bare, APIs
  <2> QED
    BY <2>2 DEF Keeps, Found
<1>2. ASSUME pc[w] = "fMembers", NEW a \in APIs, NEW i \in 1 .. MaxInst, i = self[w]
      PROVE  Keeps(i, a)' /\ Found(i, a)'
  <2>1. det'[i] = NewDetector
    BY <1>2, CallerMembersOf DEF New
  <2> QED
    BY <2>1 DEF NewDetector, Keeps, Found, APIs
<1>3. ASSUME pc[w] # "fMembers", NEW a \in APIs
      PROVE  hookObj[a].alive /\ ~ (pc[w] \in {"xDelete", "fDelete"} /\ Mine(w).hook[a]) => hookObj'[a].alive
  BY CallerAliveOf
<1>4. ASSUME pc[w] # "fMembers", NEW a \in APIs, NEW i \in 1 .. MaxInst, i = self[w]
      PROVE  Keeps(i, a)'
  <2>1. SUFFICES ASSUME New(w).hook[a] PROVE New(w).hooked[a] /\ (hookObj'[a].alive \/ Dying(i)')
    BY <1>4 DEF Keeps, New
  <2>2. Mine(w).hook[a] => Mine(w).hooked[a] /\ hookObj[a].alive
    BY <1>0, <1>4 DEF Finds, Keeps, Mine, Dying
  <2>3. CASE pc'[w] = "dInstall" /\ lib[w] = a
    BY <1>4, <2>3, CallerHook, CallerAliveOf
  <2>4. CASE ~ (pc'[w] = "dInstall" /\ lib[w] = a)
    <3>1. /\ pc[w] # "xDelete" /\ Mine(w).hook[a] /\ New(w).hooked[a] = Mine(w).hooked[a]
      BY <1>4, <2>1, <2>4, CallerHook
    <3>2. CASE pc[w] = "fDelete"
      <4>1. Dying(i)'
        BY <1>0, <1>4, <3>2, CallerGoes DEF Dying
      <4> QED
        BY <2>2, <3>1, <4>1
    <3>3. CASE pc[w] # "fDelete"
      BY <1>3, <1>4, <2>2, <3>1, <3>3
    <3> QED
      BY <3>2, <3>3
  <2> QED
    BY <2>3, <2>4
<1>5. ASSUME pc[w] # "fMembers", NEW a \in APIs, NEW i \in 1 .. MaxInst, i = self[w]
      PROVE  Found(i, a)'
  <2>1. SUFFICES ASSUME New(w).renderer = a
                 PROVE  /\ ~ New(w).hook[a] /\ hookObj'[a].alive
                        /\ \/ New(w).hooked[a]
                           \/ New(w).done /\ pc'[w] # "dReset"
    BY <1>0, <1>5 DEF Found, New
  <2>2. Mine(w).renderer = a
    BY <1>5, <2>1, CallerRenderer
  <2>3. /\ ~ Mine(w).hook[a] /\ hookObj[a].alive
        /\ Mine(w).hooked[a] \/ (Mine(w).done /\ pc[w] # "dReset")
    BY <1>0, <1>5, <2>2 DEF Finds, Found, Mine, Dying
  <2>4. hookObj'[a].alive
    BY <1>3, <1>5, <2>3
  <2>5. ~ (pc'[w] = "dInstall" /\ lib[w] = a)
    BY <1>5, <2>3, CallerHook
  <2>6. ~ New(w).hook[a]
    BY <1>5, <2>3, <2>5, CallerHook
  <2>7. pc'[w] # "dReset"
    BY <2>2, CallerGoes DEF APIs
  <2>8. CASE pc[w] = "xDelete"
    <3>1. Mine(w).done
      BY <2>8 DEF Finds, Exits, Mine
    <3>2. New(w).done = Mine(w).done
      BY <1>5, <2>8, CallerRenderer
    <3> QED
      BY <2>4, <2>6, <2>7, <3>1, <3>2
  <2>9. CASE pc[w] # "xDelete"
    <3>1. New(w).hooked[a] = Mine(w).hooked[a]
      BY <1>5, <2>5, <2>9, CallerHook
    <3>2. pc[w] # "dReset" /\ Mine(w).done => New(w).done
      BY <1>5, CallerRenderer
    <3> QED
      BY <2>3, <2>4, <2>6, <2>7, <3>1, <3>2
  <2> QED
    BY <2>8, <2>9
<1>6. Exits'
  <2>1. SUFFICES ASSUME pc'[w] \in {"xUnhook", "xDelete", "fDelete", "fMembers"} PROVE New(w).done
    BY <1>0 DEF Exits, New
  <2>2. pc[w] \in {"xDone", "xUnhook", "fStop", "fDelete"}
    BY <2>1, CallerGoes
  <2>3. New(w).done = IF pc[w] \in {"xDone", "fStop"} THEN TRUE ELSE Mine(w).done
    BY <2>2, CallerMembersOf DEF APIs
  <2>4. pc[w] \in {"xUnhook", "fDelete"} => Mine(w).done
    BY DEF Finds, Exits, Mine
  <2> QED
    BY <2>2, <2>3, <2>4
<1> QED
  BY <1>1, <1>2, <1>4, <1>5, <1>6 DEF Finds

\* A present hands over what the detector keeps.
LEMMA FindsPresent ==
  ASSUME Types, Finds, NEW g \in GameThreads, PresentStep(g)
  PROVE  Finds'
<1>0. /\ self[g] \in 1 .. MaxInst /\ UNCHANGED <<self, hookObj>> /\ PresentAPI[g] \in APIs
      /\ \A w \in Workers : pc'[w] = pc[w]
      /\ \A i \in 1 .. MaxInst : i # self[g] => det'[i] = det[i]
      /\ \A i \in 1 .. MaxInst : Dying(i)' <=> Dying(i)
  BY PresentAlone, APIAssumption DEF Dying
<1>1. ASSUME NEW i \in 1 .. MaxInst, i # self[g], NEW a \in APIs
      PROVE  Keeps(i, a)' /\ Found(i, a)'
  BY <1>0, <1>1 DEF Finds, Keeps, Found
<1>2. ASSUME NEW i \in 1 .. MaxInst, i = self[g], NEW a \in APIs
      PROVE  Keeps(i, a)'
  <2>1. New(g).hook[a] => Mine(g).hook[a]
    BY PresentMembersOf
  <2>2. New(g).hooked[a] = Mine(g).hooked[a]
    BY PresentMembersOf
  <2>3. Keeps(i, a)
    BY DEF Finds
  <2> QED
    BY <1>0, <1>2, <2>1, <2>2, <2>3 DEF Keeps, Mine, New
<1>3. ASSUME NEW i \in 1 .. MaxInst, i = self[g], NEW a \in APIs
      PROVE  Found(i, a)'
  <2>1. SUFFICES ASSUME New(g).renderer = a PROVE Found(i, a)'
    BY <1>3 DEF Found, New
  <2>2. New(g).hooked[a] = Mine(g).hooked[a] /\ (Mine(g).done => New(g).done)
    BY PresentMembersOf
  <2>3. CASE pc[g] = "hRenderer"
    <3>1. a = PresentAPI[g] /\ Mine(g).hook[a]
      BY <1>0, <2>1, <2>3, PresentMembersOf DEF APIs
    <3>2. ~ New(g).hook[a]
      BY <2>3, <3>1, PresentMembersOf
    <3>3. Mine(g).hooked[a] /\ (hookObj[a].alive \/ Dying(i))
      BY <1>3, <3>1 DEF Finds, Keeps, Mine
    <3> QED
      BY <1>0, <1>3, <2>2, <3>2, <3>3 DEF Found, New
  <2>4. CASE pc[g] # "hRenderer"
    <3>1. Mine(g).renderer = a /\ New(g).hook[a] = Mine(g).hook[a]
      BY <2>1, <2>4, PresentMembersOf
    <3>2. /\ ~ Mine(g).hook[a] /\ (hookObj[a].alive \/ Dying(i))
          /\ \/ Mine(g).hooked[a]
             \/ Mine(g).done /\ \A w \in Workers : ~ (pc[w] = "dReset" /\ self[w] = i)
      BY <1>3, <3>1 DEF Finds, Found, Mine
    <3> QED
      BY <1>0, <1>3, <2>2, <3>1, <3>2 DEF Found, New
  <2> QED
    BY <2>3, <2>4
<1>4. Exits'
  <2>1. ASSUME NEW i \in 1 .. MaxInst, det[i].done
        PROVE  det'[i].done
    <3>1. CASE i = self[g]
      BY <2>1, <3>1, PresentMembersOf DEF APIs, Mine, New
    <3>2. CASE i # self[g]
      BY <1>0, <2>1, <3>2
    <3> QED
      BY <3>1, <3>2
  <2>2. \A w \in Workers : pc[w] # "out" => self[w] \in 1 .. MaxInst
    BY DEF Types, Objects, Threads
  <2> QED
    BY <1>0, <2>1, <2>2 DEF Finds, Exits
<1> QED
  BY <1>1, <1>2, <1>3, <1>4 DEF Finds

\* No step makes a detector keep, or have found, a hook object that is deleted.
LEMMA FindsStep ==
  ASSUME OneController, Types, Control, Held, Spare, Finds, [Next]_vars
  PROVE  Finds'
<1>0. Places /\ Objects /\ DetOK
  BY DEF Types
<1>1. ASSUME UNCHANGED det,
             \A a \in APIs, i \in 1 .. MaxInst :
                hookObj[a].alive => hookObj'[a].alive \/ (~ det[i].hook[a] /\ det[i].renderer # a),
             \A w \in Workers :
                /\ pc[w] = "fMembers" => pc'[w] = "fMembers" /\ self'[w] = self[w]
                /\ pc'[w] \in {"dReset", "xUnhook", "xDelete", "fDelete", "fMembers"}
                   => pc'[w] = pc[w] /\ self'[w] = self[w]
      PROVE  Finds'
  <2>1. \A i \in 1 .. MaxInst : Dying(i) => Dying(i)'
    BY <1>1 DEF Dying
  <2>2. ASSUME NEW i \in 1 .. MaxInst, NEW a \in APIs
        PROVE  Keeps(i, a)' /\ Found(i, a)'
    BY <1>1, <2>1, <2>2 DEF Finds, Keeps, Found
  <2>3. Exits'
    BY <1>1 DEF Finds, Exits
  <2> QED
    BY <2>2, <2>3 DEF Finds
<1>2. ASSUME NEW t \in Threads, NEW to \in {"dLock", "sLock", "gLock", "fStop", "pLock"},
             TakeInst(t, to), pc[t] = "out", UNCHANGED <<det, hookObj>>
      PROVE  Finds'
  <2>1. /\ \A x \in Threads : x # t => pc'[x] = pc[x] /\ self'[x] = self[x]
        /\ pc'[t] = to
    BY <1>0, <1>2 DEF TakeInst, Goto, Places, Objects
  <2> QED
    BY <1>1, <1>2, <2>1 DEF Threads
<1>3. ASSUME NEW w \in Workers, Begin(w)
      PROVE  Finds'
  BY <1>3, <1>2, Begins DEF Types, Threads
<1>4. ASSUME NEW g \in GameThreads, Present(g)
      PROVE  Finds'
  BY <1>4, <1>2 DEF Present, At, Threads
<1>5. ASSUME NEW w \in Workers, Between(w)
      PROVE  Finds'
  BY <1>5, <1>1, Betweens, OthersAliveOf DEF coreVars
<1>6. ASSUME NEW g \in GameThreads, Frame(g)
      PROVE  Finds'
  BY <1>6, <1>1, Frames, OthersAliveOf DEF frameFrame
<1>7. ASSUME NEW c \in Controllers, Controller(c)
      PROVE  Finds'
  <2>1. CASE StopFree(c)
    <3>1. \A w \in Workers : ~ Active(w)
      BY <2>1, ThreadAssumption DEF StopFree, CGo, Control, StopPlaces, Threads
    <3>2. \A i \in 1 .. MaxInst : Bare(i)
      BY <3>1 DEF Spare, Uses
    <3> QED
      BY <1>1, <1>7, <3>2, Controls DEF coreVars, Bare, APIs
  <2>2. CASE ~ StopFree(c)
    BY <1>1, <1>7, <2>2, Controls, OthersAliveOf DEF coreVars
  <2> QED
    BY <2>1, <2>2
<1>8. CASE UNCHANGED <<det, hookObj, pc, self>>
  BY <1>1, <1>8
<1> QED
  BY <1>3, <1>4, <1>5, <1>6, <1>7, <1>8, NextSteps, FindsCaller, FindsPresent, Idles

\* A hook object that lives and that no detector keeps any more.
Released(a) == hookObj[a].alive /\ \A i \in 1 .. MaxInst : ~ det[i].hook[a]

\* The worker has been given a renderer.
Holding(w) == \/ wpc[w] = "got" /\ pc[w] = "out" /\ ret[w] # "none"
              \/ wpc[w] = "own"

\* The renderer that is handed from the detector to the worker to g_renderer.
Obtained == \A a \in APIs :
    /\ g_renderer = a => Released(a)
    /\ \A w \in Workers : Holding(w) /\ ret[w] = a => Released(a)

LEMMA ReleasedCaller ==
  ASSUME Types, Control, Held, NEW w \in Workers, CallerStep(w),
         wpc[w] \notin {"stopFirst", "polled"}, NEW a \in APIs, Released(a)
  PROVE  Released(a)'
<1>1. ~ Mine(w).hook[a] /\ hookObj[a].alive
  BY CallerAlone DEF Released, Mine
<1>2. hookObj'[a].alive
  BY <1>1, CallerAliveOf
<1>3. pc'[w] # "dInstall"
  <2>1. pc[w] # "dHook"
    BY DEF Types, Calls, FreePlaces
  <2> QED
    BY <2>1, CallerGoes, StepAt
<1>4. ~ New(w).hook[a]
  <2>1. CASE pc[w] = "fMembers"
    <3>1. New(w) = NewDetector
      BY <2>1, CallerMembersOf
    <3> QED
      BY <3>1 DEF NewDetector, APIs
  <2>2. CASE pc[w] # "fMembers"
    BY <1>1, <1>3, <2>2, CallerHook
  <2> QED
    BY <2>1, <2>2
<1>5. ASSUME NEW i \in 1 .. MaxInst
      PROVE  ~ det'[i].hook[a]
  <2>1. CASE i = self[w]
    BY <1>4, <2>1 DEF New
  <2>2. CASE i # self[w]
    BY <2>2, CallerAlone DEF Released
  <2> QED
    BY <2>1, <2>2
<1> QED
  BY <1>2, <1>5 DEF Released

LEMMA ReleasedPresent ==
  ASSUME Types, NEW g \in GameThreads, PresentStep(g), NEW a \in APIs, Released(a)
  PROVE  Released(a)'
<1>1. ASSUME NEW i \in 1 .. MaxInst
      PROVE  ~ det'[i].hook[a]
  <2>1. ~ det[i].hook[a]
    BY DEF Released
  <2>2. CASE i = self[g]
    BY <2>1, <2>2, PresentMembersOf DEF Mine, New
  <2>3. CASE i # self[g]
    BY <2>1, <2>3, PresentAlone
  <2> QED
    BY <2>2, <2>3
<1> QED
  BY <1>1, PresentAlone DEF Released

\* What is handed on is never what is deleted.
LEMMA ObtainedStep ==
  ASSUME OneController, Types, Types', Control, Held, Spare, Finds, Obtained, [Next]_vars
  PROVE  Obtained'
<1>0. Places /\ Values
  BY DEF Types
<1>1. ASSUME NEW w \in Workers, CallerStep(w), UNCHANGED bridgeVars
      PROVE  Obtained'
  <2>1. /\ UNCHANGED <<wpc, g_renderer>> /\ pc[w] # "out" /\ Active(w)
        /\ \A x \in Workers : x # w => ~ Active(x)
    BY <1>1, CallerAlone DEF bridgeVars
  <2>2. \A x \in Workers : Holding(x)' => x = w /\ wpc[w] = "got"
    <3>1. wpc[w] # "own"
      BY <2>1 DEF Types, Calls
    <3> QED
      BY <2>1, <3>1 DEF Holding, Active
  <2>3. CASE wpc[w] \in {"stopFirst", "polled"}
    <3>1. g_renderer = "none"
      BY <2>3 DEF Control
    <3> QED
      BY <2>1, <2>2, <2>3, <3>1 DEF Obtained, APIs
  <2>4. CASE wpc[w] = "got"
    <3>1. Get(w) /\ pc[w] = "gLock"
      BY <1>1, <2>1, <2>4, StepAt DEF Types, Calls
    <3>2. UNCHANGED <<det, hookObj>> /\ ret'[w] = IF Mine(w).done THEN Mine(w).renderer ELSE "none"
      BY <1>0, <3>1 DEF Get, Values
    <3>3. self[w] \in 1 .. MaxInst /\ ~ Dying(self[w])
      BY <1>1, <2>1, <3>1, CallerAlone DEF Dying, Active
    <3>4. ASSUME NEW a \in APIs, ret'[w] = a
          PROVE  Released(a)'
      <4>1. Mine(w).renderer = a
        BY <3>2, <3>4 DEF APIs
      <4>2. ~ Mine(w).hook[a] /\ hookObj[a].alive
        BY <3>3, <4>1 DEF Finds, Found, Mine
      <4>3. ASSUME NEW i \in 1 .. MaxInst, i # self[w]
            PROVE  ~ det[i].hook[a]
        <5>1. Bare(i)
          BY <2>1, <4>3, <1>1, CallerAlone DEF Spare, Uses
        <5> QED
          BY <5>1 DEF Bare
      <4> QED
        BY <3>2, <4>2, <4>3 DEF Released, Mine
    <3>5. g_renderer = "none"
      BY <2>4 DEF Control
    <3> QED
      BY <2>1, <2>2, <3>4, <3>5 DEF Obtained, APIs
  <2>5. CASE wpc[w] \notin {"stopFirst", "polled", "got"}
    <3>1. \A a \in APIs : Released(a) => Released(a)'
      BY <1>1, <2>5, ReleasedCaller
    <3> QED
      BY <2>1, <2>2, <2>5, <3>1 DEF Obtained
  <2> QED
    BY <2>3, <2>4, <2>5
<1>2. ASSUME UNCHANGED <<ret, g_renderer>>,
             \A w \in Workers : Holding(w)' => Holding(w),
             \A a \in APIs : Released(a) => Released(a)'
      PROVE  Obtained'
  BY <1>2 DEF Obtained
<1>3. ASSUME NEW g \in GameThreads, PresentStep(g), UNCHANGED bridgeVars
      PROVE  Obtained'
  <2>1. /\ \A w \in Workers : Holding(w)' => Holding(w)
        /\ UNCHANGED <<ret, g_renderer>>
    BY <1>3, PresentAlone DEF Holding, bridgeVars
  <2>2. \A a \in APIs : Released(a) => Released(a)'
    BY <1>3, ReleasedPresent
  <2> QED
    BY <1>2, <2>1, <2>2
<1>4. ASSUME NEW t \in Threads, NEW to \in {"dLock", "sLock", "gLock", "fStop", "pLock"},
             TakeInst(t, to), pc[t] = "out", UNCHANGED <<det, hookObj, ret, g_renderer>>,
             \A w \in Workers : w # t => wpc'[w] = wpc[w]
      PROVE  Obtained'
  <2>1. /\ \A x \in Threads : x # t => pc'[x] = pc[x]
        /\ pc'[t] = to
    BY <1>0, <1>4 DEF TakeInst, Goto, Places
  <2>2. t \in Workers => wpc'[t] # "own"
    BY <1>4, <2>1 DEF Types, Calls
  <2>3. \A w \in Workers : Holding(w)' => Holding(w)
    BY <1>4, <2>1, <2>2 DEF Holding, Threads
  <2>4. \A a \in APIs : Released(a) => Released(a)'
    BY <1>4 DEF Released
  <2> QED
    BY <1>2, <1>4, <2>3, <2>4
<1>5. ASSUME NEW w \in Workers, Begin(w)
      PROVE  Obtained'
  <2>1. /\ UNCHANGED <<det, hookObj, ret, g_renderer>> /\ pc[w] = "out" /\ w \in Threads
        /\ \A x \in Workers : x # w => wpc'[x] = wpc[x]
    BY <1>0, <1>5, Begins DEF Places, sharedVars, Threads
  <2>2. PICK to \in {"dLock", "sLock", "gLock", "fStop"} : TakeInst(w, to)
    BY <1>0, <1>5, Begins
  <2> QED
    BY <1>4, <2>1, <2>2
<1>6. ASSUME NEW g \in GameThreads, Present(g), UNCHANGED bridgeVars
      PROVE  Obtained'
  <2>1. /\ UNCHANGED <<det, hookObj, ret, g_renderer, wpc>> /\ pc[g] = "out" /\ g \in Threads
        /\ TakeInst(g, "pLock")
    BY <1>6 DEF Present, At, Threads, bridgeVars
  <2> QED
    BY <1>4, <2>1
<1>7. ASSUME NEW w \in Workers, Between(w)
      PROVE  Obtained'
  <2>1. /\ UNCHANGED <<det, pc, ret>> /\ \A x \in Workers : x # w => wpc'[x] = wpc[x]
    BY <1>0, <1>7, Betweens DEF coreVars, Places
  <2>2. ASSUME NEW a \in APIs, Released(a) PROVE Released(a)'
    BY <1>7, <2>1, <2>2, OthersAliveOf DEF Released
  <2>3. CASE Own(w)
    <3>1. wpc[w] = "own" /\ wpc'[w] = "start" /\ g_renderer' = ret[w]
      BY <1>0, <2>3 DEF Own, WGo, Places
    <3>2. \A x \in Workers : Holding(x)' => Holding(x)
      BY <2>1, <3>1 DEF Holding
    <3>3. Holding(w)
      BY <3>1 DEF Holding
    <3> QED
      BY <2>1, <2>2, <3>1, <3>2, <3>3 DEF Obtained
  <2>4. CASE ~ Own(w)
    <3>1. UNCHANGED g_renderer
      BY <1>7, <2>4 DEF Between, PollEnd, Polled, Got, StartHook, StartHookSaved, WorkerEnd,
         sharedVars
    <3>2. Holding(w)' => Holding(w)
      BY <1>0, <1>7, <2>1, <2>4 DEF Between, PollEnd, Polled, Got, StartHook, StartHookSaved,
         WorkerEnd, WGo, Places, Holding
    <3>3. \A x \in Workers : Holding(x)' => Holding(x)
      BY <2>1, <3>2 DEF Holding
    <3> QED
      BY <1>2, <2>1, <2>2, <3>1, <3>3
  <2> QED
    BY <2>3, <2>4
<1>8. ASSUME NEW g \in GameThreads, Frame(g)
      PROVE  Obtained'
  <2>1. UNCHANGED <<det, pc, ret, wpc, g_renderer>>
    BY <1>8, Frames DEF frameFrame
  <2>2. ASSUME NEW a \in APIs, Released(a) PROVE Released(a)'
    BY <1>8, <2>1, <2>2, OthersAliveOf DEF Released
  <2>3. \A x \in Workers : Holding(x)' => Holding(x)
    BY <2>1 DEF Holding
  <2> QED
    BY <1>2, <2>1, <2>2, <2>3
<1>9. ASSUME NEW c \in Controllers, Controller(c)
      PROVE  Obtained'
  <2>1. UNCHANGED <<det, pc, ret>>
    BY <1>9, Controls DEF coreVars
  <2>2. \A w \in Workers : wpc'[w] = wpc[w] \/ wpc'[w] = "begin"
    <3>1. CASE StartSpawn(c)
      <4>1. PICK w \in Workers \ spawned : wpc' = [wpc EXCEPT ![w] = "begin"]
        BY <3>1 DEF StartSpawn
      <4> QED
        BY <1>0, <4>1 DEF Places
    <3> QED
      BY <1>9, <3>1 DEF Controller, StartExchange, StartClear, StopExchange,
         StopSignal, StopJoin, StopTake, StopNotify, StopUnhook, StopFree, StopReturn
  <2>3. \A w \in Workers : Holding(w)' => Holding(w)
    BY <2>1, <2>2 DEF Holding
  <2>4. CASE StopFree(c)
    <3>1. /\ g_renderer = "none" /\ UNCHANGED g_renderer
          /\ \A w \in Workers : ~ Active(w)
      BY <2>4, ThreadAssumption DEF StopFree, CGo, Control, StopPlaces, Threads
    <3>2. \A w \in Workers : ~ Holding(w)
      BY <3>1 DEF Holding, Active
    <3> QED
      BY <2>3, <3>1, <3>2 DEF Obtained, APIs
  <2>5. CASE ~ StopFree(c)
    <3>1. ASSUME NEW a \in APIs, Released(a) PROVE Released(a)'
      BY <1>9, <2>1, <2>5, <3>1, OthersAliveOf DEF Released
    <3>2. g_renderer' = "none" \/ UNCHANGED g_renderer
      BY <1>9, <2>5 DEF Controller, StartExchange, StartClear, StartSpawn, StopExchange,
         StopSignal, StopJoin, StopTake, StopNotify, StopUnhook, StopReturn
    <3> QED
      BY <2>1, <2>3, <3>1, <3>2 DEF Obtained, APIs
  <2> QED
    BY <2>4, <2>5
<1>10. CASE UNCHANGED <<det, hookObj, pc, ret, wpc, g_renderer>>
  <2>1. \A x \in Workers : Holding(x)' => Holding(x)
    BY <1>10 DEF Holding
  <2>2. \A a \in APIs : Released(a) => Released(a)'
    BY <1>10 DEF Released
  <2> QED
    BY <1>2, <1>10, <2>1, <2>2
<1> QED
  BY <1>1, <1>3, <1>5, <1>6, <1>7, <1>8, <1>9, <1>10, NextSteps, Idles DEF bridgeVars

\* The hook is g_renderer's, or a stop is about to undo its redirection.
Holds(a) == \/ g_renderer = a
            \/ \E c \in Controllers : victim[c] = a /\ cpc[c] \in {"notify", "unhook"}

\* Who redirects presents to the hook, and that the hook knows that it has
\* patched the pointer.
Redirected ==
    /\ \A a \in APIs : entry[a] = "hook" => Holds(a)
    /\ table = "hook" =>
          /\ Holds("vk") /\ entry["vk"] # "hook"
          /\ \/ hookObj["vk"].patched
             \/ \E w \in Workers : wpc[w] = "startSaved" /\ ret[w] = "vk"
    /\ \A w \in Workers : wpc[w] = "start" =>
          table # "hook" /\ \A a \in APIs : entry[a] # "hook"

\* While a worker runs, no stop is beyond joining it.
LEMMA HoldsAlone ==
  ASSUME Control, NEW w \in Workers, Active(w), NEW a \in APIs
  PROVE  Holds(a) <=> g_renderer = a
<1>1. w = g_worker /\ w # NoThread
  BY ThreadAssumption DEF Control, Threads
<1>2. \A c \in Controllers : cpc[c] \notin {"notify", "unhook"}
  BY <1>1 DEF Control, StopPlaces
<1> QED
  BY <1>2 DEF Holds

\* A worker that has no renderer yet finds no present redirected to a hook.
LEMMA NotRedirected ==
  ASSUME Control, Redirected, NEW w \in Workers, Active(w), g_renderer = "none"
  PROVE  table # "hook" /\ \A a \in APIs : entry[a] # "hook"
<1>1. \A a \in APIs : ~ Holds(a)
  BY HoldsAlone DEF APIs
<1>2. "vk" \in APIs
  BY DEF APIs
<1> QED
  BY <1>1, <1>2 DEF Redirected

\* A step that redirects nothing to the hook and lets whoever holds it do so.
LEMMA RedirectedKept ==
  ASSUME Redirected,
         \A a \in APIs : entry'[a] = "hook" => entry[a] = "hook",
         table' = "hook" => table = "hook",
         \A a \in APIs : Holds(a) => Holds(a)' \/ (entry'[a] # "hook" /\ (a = "vk" => table' # "hook")),
         table = "hook" /\ hookObj["vk"].patched => table' # "hook" \/ hookObj'["vk"].patched,
         \A w \in Workers : wpc'[w] = "start" => wpc[w] = "start",
         \A w \in Workers : wpc[w] = "startSaved" /\ ret[w] = "vk"
                            => wpc'[w] = "startSaved" /\ ret'[w] = "vk"
  PROVE  Redirected'
<1>0. "vk" \in APIs
  BY DEF APIs
<1>1. ASSUME NEW a \in APIs, entry'[a] = "hook"
      PROVE  Holds(a)'
  BY <1>1 DEF Redirected
<1>2. ASSUME table' = "hook"
      PROVE  Holds("vk")' /\ entry'["vk"] # "hook"
  BY <1>0, <1>2 DEF Redirected
<1>3. ASSUME table' = "hook"
      PROVE  \/ hookObj'["vk"].patched
             \/ \E w \in Workers : wpc'[w] = "startSaved" /\ ret'[w] = "vk"
  BY <1>3 DEF Redirected
<1>4. ASSUME NEW w \in Workers, wpc'[w] = "start"
      PROVE  table' # "hook" /\ \A a \in APIs : entry'[a] # "hook"
  BY <1>4 DEF Redirected
<1> QED
  BY <1>1, <1>2, <1>3, <1>4 DEF Redirected

\* Inside calls, a hook forgets that it has patched the pointer when its
\* detector deletes it.
LEMMA CallerPatched ==
  ASSUME Types, NEW w \in Workers, CallerStep(w), NEW b \in APIs, hookObj[b].patched
  PROVE  \/ hookObj'[b].patched
         \/ pc[w] \in {"xDelete", "fDelete"} /\ Mine(w).hook[b]
<1>0. /\ HooksOK /\ lib[w] \in APIs /\ self[w] \in 1 .. MaxInst
  BY CallerMoves DEF Types, Values, APIs, Moves, Objects, Threads
<1>1. CASE pc[w] = "dHook"
  <2>1. HookLibrary(w)
    BY <1>1, StepAt
  <2>2. CASE hookObj' = [hookObj EXCEPT ![lib[w]].alive = TRUE, ![lib[w]].orig = "raw"]
    <3>1. ASSUME NEW a \in APIs, hookObj' = [hookObj EXCEPT ![a].alive = TRUE, ![a].orig = "raw"]
          PROVE  hookObj'[b].patched
      BY <1>0, <3>1 DEF HooksOK, HookType
    <3> QED
      BY <1>0, <2>2, <3>1
  <2> QED
    BY <2>1, <2>2 DEF HookLibrary
<1>2. CASE pc[w] \in {"xDelete", "fDelete"}
  <2>1. DeleteHooks(self[w])
    BY <1>2, StepAt, Zenon DEF ExitDelete, FreeDelete
  <2> QED
    BY <1>0, <1>2, <2>1, DeletedHooks DEF Mine
<1>3. CASE pc[w] \notin {"dHook", "xDelete", "fDelete"}
  BY <1>3, StepAt, Zenon DEF CallerStep, DetectLock, LibraryLock, Acquire, DetectEnter,
     DetectReset, SkipLibrary, Install, Record, FinishLock, Decide, ExitRestore,
     ExitUnhook, Stop, FreeStop, StopDetection, Get, FreeMembers
<1> QED
  BY <1>1, <1>2, <1>3

\* Detectors redirect nothing to a hook.
LEMMA CallerRedirects ==
  ASSUME Types, NEW w \in Workers, CallerStep(w)
  PROVE  /\ \A a \in APIs : entry'[a] = "hook" => entry[a] = "hook"
         /\ table' = "hook" => table = "hook"
<1>0. Values /\ lib[w] \in APIs
  BY DEF Types, Values
<1>1. CASE Install(w)
  BY <1>0, <1>1 DEF Install, Redirect
<1>2. CASE ExitUnhook(w) \/ FreeMembers(w)
  BY <1>0, <1>2 DEF ExitUnhook, FreeMembers, UnhookAll, Redirect
<1>3. CASE UNCHANGED entry /\ table' \in {table, "driver"}
  BY <1>3
<1> QED
  BY <1>1, <1>2, <1>3, Zenon DEF CallerStep, DetectLock, LibraryLock, Acquire, DetectEnter,
     DetectReset, SkipLibrary, HookLibrary, Record, FinishLock, Decide, ExitRestore, RestorePatches,
     ExitDelete, Stop, FreeStop, StopDetection, Get, FreeDelete, redirects

LEMMA PresentRedirects ==
  ASSUME Types, NEW g \in GameThreads, PresentStep(g)
  PROVE  /\ \A a \in APIs : entry'[a] = "hook" => entry[a] = "hook"
         /\ table' = "hook" => table = "hook"
<1>1. CASE HandOffUnhook(g)
  BY <1>1 DEF HandOffUnhook, UnhookAll, Redirect
<1>2. CASE UNCHANGED entry /\ table' \in {table, "driver"}
  BY <1>2
<1> QED
  BY <1>1, <1>2 DEF PresentStep, PresentLock, PresentCall, PresentCheck,
     HandOffRestore, RestorePatches, HandOffRenderer, HandOffDone, PresentLeave, redirects

\* Starting the hook is what redirects presents to it.
LEMMA RedirectedStart ==
  ASSUME Types, Control, Redirected, NEW w \in Workers, StartHook(w)
  PROVE  Redirected'
<1>0. /\ Places /\ Values /\ "vk" \in APIs
  BY DEF Types, APIs
<1>1. /\ wpc[w] = "start" /\ table # "hook" /\ \A a \in APIs : entry[a] # "hook"
      /\ UNCHANGED <<hookObj, ret, g_renderer, victim, cpc>>
      /\ wpc'[w] \in {"startSaved", "free"}
      /\ \A x \in Workers : x # w => wpc'[x] = wpc[x]
  BY <1>0 DEF StartHook, Redirected, WGo, Places, sharedVars
<1>2. \A x \in Workers : wpc'[x] # "start"
  <2>1. \A x \in Workers : x # w => ~ Active(x)
    BY <1>1, ActiveIsOne DEF Active
  <2> QED
    BY <1>1, <2>1 DEF Active
<1>3. PICK a \in APIs : a = ret[w] /\ g_renderer = a
  BY <1>1 DEF Control, Types, Returned
<1>4. Holds(a)'
  BY <1>1, <1>3 DEF Holds
<1>5. CASE table' = "hook"
  <2>1. a = "vk" /\ UNCHANGED entry /\ wpc'[w] = "startSaved"
    BY <1>0, <1>1, <1>3, <1>5 DEF StartHook, WGo, Places, Patchable
  <2> QED
    BY <1>0, <1>1, <1>2, <1>3, <1>4, <2>1 DEF Redirected
<1>6. CASE table' # "hook"
  <2>1. \A b \in APIs : entry'[b] = "hook" => b = a
    BY <1>1, <1>3 DEF StartHook, Redirect
  <2> QED
    BY <1>2, <1>4, <1>6, <2>1 DEF Redirected
<1> QED
  BY <1>5, <1>6

\* Presents land in the hook only while the bridge has it.
LEMMA RedirectedStep ==
  ASSUME OneController, Types, Types', Control, Held, Obtained, Redirected, [Next]_vars
  PROVE  Redirected'
<1>0. /\ Places /\ Values /\ HooksOK /\ "vk" \in APIs /\ "glx" \in APIs
  BY DEF Types, APIs
<1>1. ASSUME NEW w \in Workers, CallerStep(w), UNCHANGED bridgeVars
      PROVE  Redirected'
  <2>1. UNCHANGED <<wpc, g_renderer, victim, cpc>> /\ Active(w)
    BY <1>1, CallerAlone DEF bridgeVars
  <2>2. \A a \in APIs : Holds(a) => Holds(a)'
    BY <2>1 DEF Holds
  <2>3. \A x \in Workers : wpc[x] = "startSaved" => ret'[x] = ret[x]
    <3>1. \A x \in Workers : wpc[x] = "startSaved" => x # w
      BY <1>1, CallerAlone DEF Types, Calls
    <3>2. \A x \in Workers : x # w => ~ Active(x)
      BY <1>1, CallerAlone
    <3> QED
      BY <3>1, <3>2 DEF Active
  <2>4. ASSUME table = "hook", hookObj["vk"].patched
        PROVE  hookObj'["vk"].patched
    <3>1. Holds("vk")
      BY <2>4 DEF Redirected
    <3>2. g_renderer = "vk"
      BY <1>0, <2>1, <3>1, HoldsAlone
    <3>3. ~ Mine(w).hook["vk"]
      BY <1>0, <1>1, <3>2, CallerAlone DEF Obtained, Released, Mine
    <3> QED
      BY <1>0, <1>1, <2>4, <3>3, CallerPatched
  <2> QED
    BY <1>1, <2>1, <2>2, <2>3, <2>4, CallerRedirects, RedirectedKept
<1>2. ASSUME NEW g \in GameThreads, PresentStep(g), UNCHANGED bridgeVars
      PROVE  Redirected'
  <2>1. UNCHANGED <<wpc, g_renderer, victim, cpc, hookObj, ret>>
    BY <1>2, PresentAlone DEF bridgeVars
  <2>2. \A a \in APIs : Holds(a) => Holds(a)'
    BY <2>1 DEF Holds
  <2> QED
    BY <1>2, <2>1, <2>2, PresentRedirects, RedirectedKept
<1>3. ASSUME UNCHANGED <<redirects, g_renderer, victim, cpc, ret>>,
             hookObj["vk"].patched => hookObj'["vk"].patched,
             \A x \in Workers : /\ wpc'[x] = "start" => wpc[x] = "start"
                                /\ wpc[x] = "startSaved" => wpc'[x] = "startSaved"
      PROVE  Redirected'
  <2>1. \A a \in APIs : Holds(a) => Holds(a)'
    BY <1>3 DEF Holds
  <2> QED
    BY <1>3, <2>1, RedirectedKept DEF redirects
<1>4. ASSUME NEW w \in Workers, Begin(w)
      PROVE  Redirected'
  <2>1. /\ UNCHANGED <<redirects, g_renderer, victim, cpc, ret, hookObj>>
        /\ \A x \in Workers : x # w => wpc'[x] = wpc[x]
        /\ wpc[w] # "startSaved" /\ wpc'[w] # "start"
    BY <1>0, <1>4, Begins DEF sharedVars, CallBegun, Places
  <2> QED
    BY <1>3, <2>1
<1>5. ASSUME NEW w \in Workers, Between(w)
      PROVE  Redirected'
  <2>1. /\ UNCHANGED <<ret, victim, cpc>> /\ Active(w)
        /\ \A x \in Workers : x # w => wpc'[x] = wpc[x] /\ ~ Active(x)
    <3>1. Active(w)
      BY <1>5, Betweens DEF Active
    <3> QED
      BY <1>0, <1>5, <3>1, Betweens, ActiveIsOne DEF coreVars, Places
  <2>2. CASE StartHook(w)
    BY <2>2, RedirectedStart
  <2>3. CASE StartHookSaved(w)
    <3>1. /\ UNCHANGED <<redirects, g_renderer>> /\ wpc'[w] = "free"
          /\ wpc[w] = "startSaved" /\ ret[w] \in APIs
      BY <1>0, <2>3 DEF StartHookSaved, WGo, Places, sharedVars, Types, Returned
    <3>2. \A a \in APIs : Holds(a) => Holds(a)'
      BY <2>1, <3>1 DEF Holds
    <3>3. \A x \in Workers : wpc'[x] # "start"
      BY <2>1, <3>1 DEF Active
    <3>4. ASSUME table = "hook"
          PROVE  hookObj'["vk"].patched
      <4>1. entry["vk"] # "hook" /\ g_renderer = "vk"
        BY <1>0, <2>1, <3>4, HoldsAlone DEF Redirected
      <4>2. ret[w] = "vk"
        BY <3>1, <4>1 DEF Control
      <4> QED
        BY <1>0, <2>3, <4>1, <4>2, SavedPatched
    <3> QED
      BY <1>0, <3>1, <3>2, <3>3, <3>4 DEF Redirected, redirects
  <2>4. CASE Own(w)
    <3>1. g_renderer = "none" /\ UNCHANGED <<redirects, hookObj>>
      BY <2>4 DEF Own, WGo, Control, detVars
    <3>2. table # "hook" /\ \A a \in APIs : entry[a] # "hook"
      BY <2>1, <3>1, NotRedirected
    <3> QED
      BY <3>1, <3>2 DEF Redirected, redirects
  <2>5. CASE ~ StartHook(w) /\ ~ StartHookSaved(w) /\ ~ Own(w)
    <3>1. /\ UNCHANGED <<redirects, g_renderer, hookObj>>
          /\ wpc[w] # "startSaved" /\ wpc'[w] # "start"
      BY <1>0, <1>5, <2>5 DEF Between, PollEnd, Polled, Got, WorkerEnd, WGo, Places,
         sharedVars, detVars
    <3> QED
      BY <1>3, <2>1, <3>1
  <2> QED
    BY <2>2, <2>3, <2>4, <2>5
<1>6. ASSUME NEW g \in GameThreads, Frame(g)
      PROVE  Redirected'
  <2>1. UNCHANGED <<redirects, g_renderer, victim, cpc, ret, wpc>>
    BY <1>6, Frames DEF frameFrame
  <2>2. PresentAPI[g] \in APIs
    BY APIAssumption
  <2>3. ASSUME hookObj["vk"].patched PROVE hookObj'["vk"].patched
    <3>1. CASE UNCHANGED hookObj
      BY <2>3, <3>1
    <3>2. ASSUME NEW a \in APIs, NEW h, HookChanged(a, h), h.patched = hookObj[a].patched
          PROVE  hookObj'["vk"].patched
      BY <1>0, <2>3, <3>2, HookChangedAt
    <3> QED
      BY <1>0, <1>6, <2>2, <3>1, <3>2, FrameHooks
  <2> QED
    BY <1>3, <2>1, <2>3
<1>7. ASSUME NEW c \in Controllers, Controller(c)
      PROVE  Redirected'
  <2>1. UNCHANGED ret /\ \A d \in Controllers : d = c
    BY <1>7, Controls DEF coreVars, OneController
  <2>2. CASE StopUnhook(c)
    <3>1. PICK a \in APIs : a = victim[c]
      BY <2>2 DEF StopUnhook, CGo, Types, Bridge
    <3>2. /\ cpc[c] = "unhook" /\ g_renderer = "none" /\ \A w \in Workers : ~ Active(w)
      BY <2>2, ThreadAssumption DEF StopUnhook, CGo, Control, StopPlaces, Threads
    <3>3. \A b \in APIs : Holds(b) => b = a
      BY <2>1, <3>1, <3>2 DEF Holds, APIs
    <3>4. \A b \in APIs : entry[b] = "hook" => b = a
      BY <3>3 DEF Redirected
    <3>5. \A b \in APIs : entry'[b] # "hook"
      BY <2>2, <3>1, <3>4 DEF StopUnhook, Redirect
    <3>6. table' # "hook"
      <4>1. CASE table = "hook"
        <5>1. a = "vk" /\ hookObj["vk"].patched
          BY <1>0, <3>2, <3>3, <4>1 DEF Redirected, Active
        <5> QED
          BY <2>2, <3>1, <5>1 DEF StopUnhook
      <4>2. CASE table # "hook"
        BY <2>2, <4>2 DEF StopUnhook
      <4> QED
        BY <4>1, <4>2
    <3> QED
      BY <3>5, <3>6 DEF Redirected
  <2>3. CASE StopTake(c)
    <3>1. /\ victim'[c] = g_renderer /\ cpc'[c] = "notify" /\ victim[c] = "none"
          /\ UNCHANGED <<redirects, hookObj, wpc>> /\ g_renderer' = "none"
      BY <1>0, <2>3 DEF StopTake, CGo, Types, Bridge, Places, detVars, Control
    <3>2. \A a \in APIs : Holds(a) => Holds(a)'
      BY <2>1, <3>1 DEF Holds, APIs
    <3> QED
      BY <2>1, <3>1, <3>2, RedirectedKept DEF redirects
  <2>4. CASE StopNotify(c)
    <3>1. /\ UNCHANGED <<redirects, g_renderer, victim, wpc>>
          /\ cpc'[c] = IF victim[c] = "none" THEN "clearReady" ELSE "unhook"
      BY <1>0, <2>4 DEF StopNotify, CGo, Places
    <3>2. \A a \in APIs : Holds(a) => Holds(a)'
      BY <2>1, <3>1 DEF Holds, APIs
    <3>3. ASSUME hookObj["vk"].patched PROVE hookObj'["vk"].patched
      <4>1. CASE UNCHANGED hookObj
        BY <3>3, <4>1
      <4>2. ASSUME NEW h, HookChanged("glx", h)
            PROVE  hookObj'["vk"].patched
        BY <1>0, <3>3, <4>2, HookChangedAt
      <4> QED
        BY <1>0, <2>4, <4>1, <4>2, NotifyHooks
    <3> QED
      BY <2>1, <3>1, <3>2, <3>3, RedirectedKept DEF redirects
  <2>5. CASE StopFree(c)
    <3>1. /\ UNCHANGED <<redirects, g_renderer, wpc>> /\ cpc[c] = "free"
          /\ g_renderer = "none" /\ \A w \in Workers : ~ Active(w)
      BY <2>5, ThreadAssumption DEF StopFree, CGo, Control, StopPlaces, Threads
    <3>2. \A a \in APIs : ~ Holds(a)
      BY <2>1, <3>1 DEF Holds, APIs
    <3>3. table # "hook" /\ \A a \in APIs : entry[a] # "hook"
      BY <1>0, <3>2 DEF Redirected
    <3> QED
      BY <3>1, <3>3 DEF Redirected, redirects
  <2>6. CASE StopJoin(c) \/ StopReturn(c) \/ StopExchange(c) \/ StopSignal(c)
             \/ StartExchange(c) \/ StartClear(c)
    <3>1. /\ UNCHANGED <<redirects, g_renderer, victim, wpc, hookObj>>
          /\ cpc[c] \notin {"notify", "unhook"}
      BY <2>6 DEF StopJoin, StopReturn, StopExchange, StopSignal, StartExchange, StartClear,
         CGo, detVars
    <3>2. \A a \in APIs : Holds(a) => Holds(a)'
      BY <2>1, <3>1 DEF Holds
    <3> QED
      BY <2>1, <3>1, <3>2, RedirectedKept DEF redirects
  <2>7. CASE StartSpawn(c)
    <3>1. PICK w \in Workers \ spawned : wpc' = [wpc EXCEPT ![w] = "begin"]
      BY <2>7 DEF StartSpawn
    <3>2. wpc[w] = "none"
      BY <3>1 DEF Types, Bridge
    <3>3. \A x \in Workers : /\ wpc'[x] = "start" => wpc[x] = "start"
                             /\ wpc[x] = "startSaved" => wpc'[x] = "startSaved"
      BY <1>0, <3>1, <3>2 DEF Places
    <3>4. /\ UNCHANGED <<redirects, g_renderer, victim, hookObj>> /\ cpc[c] = "spawn"
      BY <2>7 DEF StartSpawn, CGo, detVars
    <3>5. \A a \in APIs : Holds(a) => Holds(a)'
      BY <2>1, <3>4 DEF Holds
    <3> QED
      BY <2>1, <3>3, <3>4, <3>5, RedirectedKept DEF redirects
  <2> QED
    BY <1>7, <2>2, <2>3, <2>4, <2>5, <2>6, <2>7 DEF Controller
<1>8. ASSUME NEW g \in GameThreads, Present(g), UNCHANGED bridgeVars
      PROVE  Redirected'
  BY <1>3, <1>8 DEF Present, bridgeVars
<1>9. CASE UNCHANGED <<redirects, g_renderer, victim, cpc, ret, hookObj, wpc>>
  BY <1>3, <1>9
<1> QED
  BY <1>1, <1>2, <1>4, <1>5, <1>6, <1>7, <1>8, <1>9, NextSteps, Idles DEF bridgeVars

-----------------------------------------------------------------------------
(* Every game: the detours.                                                *)
\* Presents that land in a detour land in one that its detector remembers, or
\* is about to.
Entered == \A a \in APIs : entry[a] = "detector" =>
    \/ \E i \in 1 .. MaxInst : a \in det[i].detours
    \/ \E w \in Workers : pc[w] = "dRecord" /\ lib[w] = a

\* The worker has a detection behind it that has undone what was detoured.
Cleared(w) == \/ wpc[w] \in {"own", "start"}
              \/ wpc[w] \in {"get", "got"} /\ ~ g_stop
              \/ wpc[w] = "polled" /\ pc[w] = "out" /\ ret[w] = "done"
              \/ pc[w] = "xDelete"

Undone == \A w \in Workers : Cleared(w) => \A i \in 1 .. MaxInst : det[i].detours = {}

\* Without patching, the pointer is the driver's.
Unpatched == VkInline => table = "driver"

\* How a worker comes to record, and to be out of the detector.
LEMMA CallerLeaves ==
  ASSUME Types, NEW w \in Workers, CallerStep(w)
  PROVE  /\ pc'[w] = "dRecord" => Install(w)
         /\ pc'[w] = "out" /\ pc[w] \in DetectPlaces => pc[w] = "xDelete" \/ ret'[w] = "continue"
<1>0. Places /\ w \in Threads /\ ret \in [Callers -> Results]
  BY DEF Types, Threads, Values
<1> USE DEF DetectPlaces, PassPlaces, ExitPlaces, Goto, Places, Within, At
<1>1. CASE Decide(w)
  BY <1>0, <1>1 DEF Decide
<1>2. CASE DetectEnter(w) \/ SkipLibrary(w) \/ HookLibrary(w) \/ Record(w)
  BY <1>0, <1>2, Zenon DEF DetectEnter, SkipLibrary, HookLibrary, Record, NextLibrary
<1>3. CASE \/ DetectLock(w) \/ DetectReset(w) \/ LibraryLock(w) \/ Install(w) \/ FinishLock(w)
           \/ ExitRestore(w) \/ ExitUnhook(w) \/ ExitDelete(w)
  BY <1>0, <1>3 DEF DetectLock, LibraryLock, Acquire, DetectReset, Install, FinishLock,
     ExitRestore, RestorePatches, ExitUnhook, UnhookAll, ExitDelete
<1>4. CASE Stop(w) \/ Get(w) \/ FreeStop(w) \/ FreeDelete(w) \/ FreeMembers(w)
  BY <1>0, <1>4 DEF Stop, FreeStop, StopDetection, Get, FreeDelete, FreeMembers, UnhookAll
<1> QED
  BY <1>1, <1>2, <1>3, <1>4 DEF CallerStep

\* What a worker's step does to the detours that presents land in.
LEMMA EnteredCaller ==
  ASSUME Types, Control, Held, Entered, NEW w \in Workers, CallerStep(w)
  PROVE  Entered'
<1>0. /\ pc[w] # "out" /\ self[w] \in 1 .. MaxInst /\ lib[w] \in APIs
      /\ \A x \in Workers : x # w => pc[x] = "out" /\ pc'[x] = "out"
      /\ \A i \in 1 .. MaxInst : i # self[w] => det'[i] = det[i]
      /\ Places /\ DetOK /\ Values
  BY CallerAlone DEF Types, Values
<1>1. CASE pc[w] = "dInstall"
  <2>1. Install(w) /\ UNCHANGED det
    BY <1>1, StepAt DEF Install
  <2>2. UNCHANGED lib /\ pc'[w] = "dRecord"
    BY <1>0, <2>1 DEF Install, Goto, Places, Threads
  <2>3. \A a \in APIs : a # lib[w] => entry'[a] = entry[a]
    BY <1>0, <2>1 DEF Install, Redirect, Values
  <2>4. \A a \in APIs : entry[a] = "detector" => \E i \in 1 .. MaxInst : a \in det[i].detours
    BY <1>0, <1>1 DEF Entered
  <2> QED
    BY <2>1, <2>2, <2>3, <2>4 DEF Entered
<1>2. CASE pc[w] \in {"xUnhook", "fMembers"}
  <2>1. entry' = Redirect(Mine(w).detours, "driver")
    BY <1>2, StepAt DEF ExitUnhook, FreeMembers, UnhookAll
  <2>2. ASSUME NEW a \in APIs, entry'[a] = "detector"
        PROVE  \E i \in 1 .. MaxInst : a \in det'[i].detours
    <3>1. entry[a] = "detector" /\ a \notin Mine(w).detours
      BY <2>1, <2>2 DEF Redirect
    <3>2. PICK i \in 1 .. MaxInst : a \in det[i].detours
      BY <1>0, <1>2, <3>1 DEF Entered
    <3> QED
      BY <1>0, <3>1, <3>2 DEF Mine
  <2> QED
    BY <2>2 DEF Entered
<1>3. CASE pc[w] = "dRecord"
  <2>1. UNCHANGED entry
    BY <1>3, StepAt, Zenon DEF Record, redirects
  <2>2. New(w).detours = IF entry[lib[w]] = "detector" THEN Mine(w).detours \cup {lib[w]}
                         ELSE Mine(w).detours
    BY <1>0, <1>3, CallerMembersOf
  <2>3. ASSUME NEW a \in APIs, entry[a] = "detector"
        PROVE  \E i \in 1 .. MaxInst : a \in det'[i].detours
    <3>1. CASE lib[w] = a
      BY <1>0, <2>2, <2>3, <3>1 DEF New
    <3>2. CASE lib[w] # a
      <4>1. PICK i \in 1 .. MaxInst : a \in det[i].detours
        BY <1>0, <2>3, <3>2 DEF Entered
      <4> QED
        BY <1>0, <2>2, <4>1 DEF New, Mine
    <3> QED
      BY <3>1, <3>2
  <2> QED
    BY <2>1, <2>3 DEF Entered
<1>4. CASE pc[w] \notin {"dInstall", "dRecord", "xUnhook", "fMembers"}
  <2>1. New(w).detours = Mine(w).detours
    BY <1>0, <1>4, CallerMembersOf, Zenon
  <2>2. UNCHANGED entry
    BY <1>4, StepAt, Zenon DEF CallerStep, DetectLock, LibraryLock, Acquire, DetectEnter,
       DetectReset, SkipLibrary, HookLibrary, FinishLock, Decide, ExitRestore, RestorePatches,
       ExitDelete, Stop, FreeStop, StopDetection, Get, FreeDelete, redirects
  <2>3. \A a \in APIs : entry[a] = "detector" => \E i \in 1 .. MaxInst : a \in det[i].detours
    BY <1>0, <1>4 DEF Entered
  <2>4. \A i \in 1 .. MaxInst : det'[i].detours = det[i].detours
    BY <1>0, <2>1 DEF New, Mine
  <2> QED
    BY <2>2, <2>3, <2>4 DEF Entered
<1> QED
  BY <1>1, <1>2, <1>3, <1>4

\* Presents land in a detour only while a detector has it or records it.
LEMMA EnteredStep ==
  ASSUME OneController, Types, Control, Held, Entered, [Next]_vars
  PROVE  Entered'
<1>0. Places /\ Objects /\ DetOK /\ Values
  BY DEF Types
<1>1. ASSUME NEW g \in GameThreads, PresentStep(g)
      PROVE  Entered'
  <2>1. /\ self[g] \in 1 .. MaxInst /\ UNCHANGED lib
        /\ \A x \in Workers : pc'[x] = pc[x]
        /\ \A i \in 1 .. MaxInst : i # self[g] => det'[i] = det[i]
        /\ PresentAPI[g] \in APIs
    BY <1>1, PresentAlone, APIAssumption
  <2>2. CASE pc[g] = "hUnhook"
    <3>1. entry' = Redirect(Mine(g).detours, "driver")
      BY <1>1, <2>2, PresentAt DEF HandOffUnhook, UnhookAll
    <3>2. ASSUME NEW a \in APIs, entry'[a] = "detector"
          PROVE  /\ entry[a] = "detector"
                 /\ \A i \in 1 .. MaxInst : a \in det[i].detours => a \in det'[i].detours
      <4>1. entry[a] = "detector" /\ a \notin Mine(g).detours
        BY <3>1, <3>2 DEF Redirect
      <4> QED
        BY <2>1, <4>1 DEF Mine
    <3> QED
      BY <2>1, <3>2 DEF Entered
  <2>3. CASE pc[g] # "hUnhook"
    <3>1. New(g).detours = Mine(g).detours
      BY <1>1, <2>1, <2>3, PresentMembersOf, Zenon
    <3>2. UNCHANGED entry
      BY <1>1, <2>3, PresentAt, Zenon DEF PresentStep, PresentLock, PresentCall, PresentCheck,
         HandOffRestore, RestorePatches, HandOffRenderer, HandOffDone, PresentLeave, redirects
    <3>3. \A i \in 1 .. MaxInst : det'[i].detours = det[i].detours
      BY <2>1, <3>1 DEF New, Mine
    <3> QED
      BY <2>1, <3>2, <3>3 DEF Entered
  <2> QED
    BY <2>2, <2>3
<1>2. ASSUME UNCHANGED <<det, lib>>, \A a \in APIs : entry'[a] = "detector" => entry[a] = "detector",
             \A x \in Workers : pc[x] = "dRecord" => pc'[x] = "dRecord"
      PROVE  Entered'
  BY <1>2 DEF Entered
<1>3. ASSUME NEW t \in Threads, NEW to, TakeInst(t, to), pc[t] = "out",
             UNCHANGED <<det, lib, entry>>
      PROVE  Entered'
  <2>1. \A x \in Workers : pc[x] = "dRecord" => pc'[x] = "dRecord"
    BY <1>0, <1>3 DEF TakeInst, Goto, Places, Threads
  <2> QED
    BY <1>2, <1>3, <2>1
<1>4. ASSUME NEW w \in Workers, Begin(w)
      PROVE  Entered'
  BY <1>0, <1>3, <1>4, Begins DEF Threads, redirects
<1>5. ASSUME NEW g \in GameThreads, Present(g)
      PROVE  Entered'
  BY <1>3, <1>5 DEF Present, At, Threads, redirects
<1>6. ASSUME NEW w \in Workers, Between(w)
      PROVE  Entered'
  <2>1. UNCHANGED <<det, pc, lib>>
    BY <1>6, Betweens DEF coreVars
  <2>2. \A a \in APIs : entry'[a] = "detector" => entry[a] = "detector"
    BY <1>6 DEF Between, PollEnd, Polled, Got, Own, StartHook, StartHookSaved, WorkerEnd,
       Redirect, redirects, detVars
  <2> QED
    BY <1>2, <2>1, <2>2
<1>7. ASSUME NEW c \in Controllers, Controller(c)
      PROVE  Entered'
  <2>1. UNCHANGED <<det, pc, lib>>
    BY <1>7, Controls DEF coreVars
  <2>2. CASE StopUnhook(c)
    BY <1>2, <2>1, <2>2 DEF StopUnhook, Redirect
  <2>3. CASE UNCHANGED entry
    BY <1>2, <2>1, <2>3
  <2> QED
    BY <1>7, <2>2, <2>3 DEF Controller, StartExchange, StartClear, StartSpawn, StopExchange,
       StopSignal, StopJoin, StopTake, StopNotify, StopFree, StopReturn, detVars, redirects
<1>8. CASE UNCHANGED <<det, pc, lib, entry>>
  BY <1>2, <1>8
<1> QED
  BY <1>1, <1>4, <1>5, <1>6, <1>7, <1>8, EnteredCaller, NextSteps, Frames, Idles
     DEF frameFrame, redirects

\* A worker is given a renderer, and starts its hook, only once its detection
\* has undone every detour.
LEMMA UndoneStep ==
  ASSUME OneController, Types, Control, Held, Spare, Undone, [Next]_vars
  PROVE  Undone'
<1>0. Places /\ Objects /\ DetOK /\ Values
  BY DEF Types
<1>1. ASSUME NEW w \in Workers, CallerStep(w), UNCHANGED bridgeVars
      PROVE  Undone'
  <2>0. /\ pc[w] # "out" /\ UNCHANGED <<wpc, g_stop>> /\ self[w] \in 1 .. MaxInst /\ Active(w)
        /\ \A x \in Workers : x # w => ~ Active(x) /\ pc[x] = "out" /\ pc'[x] = "out"
        /\ \A i \in 1 .. MaxInst : i # self[w] => det'[i] = det[i]
        /\ lib[w] \in APIs
    BY <1>0, <1>1, CallerAlone DEF bridgeVars, Values
  <2>1. \A x \in Workers : x # w => ~ Cleared(x)'
    BY <2>0 DEF Cleared, Active
  <2>2. SUFFICES ASSUME Cleared(w)' PROVE \A i \in 1 .. MaxInst : det'[i].detours = {}
    BY <2>1 DEF Undone
  <2>3. ASSUME NEW i \in 1 .. MaxInst, i # self[w] PROVE det'[i].detours = {}
    <3>1. Bare(i)
      BY <2>0, <2>3, <1>1, CallerAlone DEF Spare, Uses
    <3> QED
      BY <2>0, <2>3, <3>1 DEF Bare
  <2>4. New(w).detours = {}
    <3>1. CASE pc[w] = "xUnhook"
      BY <1>1, <2>0, <3>1, CallerMembersOf
    <3>2. CASE pc[w] = "fMembers"
      <4>1. New(w) = NewDetector
        BY <1>1, <2>0, <3>2, CallerMembersOf
      <4> QED
        BY <4>1 DEF NewDetector
    <3>3. CASE Cleared(w) /\ pc[w] \notin {"xUnhook", "fMembers", "dRecord"}
      <4>1. Mine(w).detours = {}
        BY <2>0, <3>3 DEF Undone, Mine
      <4> QED
        BY <1>1, <2>0, <3>3, <4>1, CallerMembersOf
    <3>4. pc[w] = "xUnhook" \/ (Cleared(w) /\ pc[w] \notin {"fMembers", "dRecord"})
      <4>1. CASE wpc[w] = "got"
        <5>1. pc[w] = "gLock"
          BY <2>0, <4>1 DEF Types, Calls
        <5>2. pc'[w] # "xDelete"
          BY <1>1, <5>1, CallerGoes
        <5> QED
          BY <2>0, <2>2, <4>1, <5>1, <5>2 DEF Cleared
      <4>2. CASE wpc[w] # "got"
        <5>1. pc'[w] = "xDelete" \/ (wpc[w] = "polled" /\ pc'[w] = "out" /\ ret'[w] = "done")
          BY <2>0, <2>2, <4>2 DEF Cleared, Types, Calls
        <5>2. pc'[w] = "xDelete" => pc[w] = "xUnhook"
          BY <1>1, CallerGoes
        <5>3. wpc[w] = "polled" /\ pc'[w] = "out" /\ ret'[w] = "done" => pc[w] = "xDelete"
          BY <1>1, <2>0, CallerLeaves DEF Types, Calls
        <5> QED
          BY <5>1, <5>2, <5>3 DEF Cleared
      <4> QED
        BY <4>1, <4>2
    <3> QED
      BY <3>1, <3>3, <3>4
  <2> QED
    BY <2>3, <2>4 DEF New
<1>2. ASSUME \A i \in 1 .. MaxInst : det[i].detours = {} => det'[i].detours = {},
             \A x \in Workers : Cleared(x)' => Cleared(x)
      PROVE  Undone'
  BY <1>2 DEF Undone
<1>3. ASSUME NEW g \in GameThreads, PresentStep(g), UNCHANGED bridgeVars
      PROVE  Undone'
  <2>1. /\ self[g] \in 1 .. MaxInst /\ UNCHANGED <<ret, wpc, g_stop>>
        /\ \A x \in Workers : pc'[x] = pc[x]
        /\ \A i \in 1 .. MaxInst : i # self[g] => det'[i] = det[i]
        /\ PresentAPI[g] \in APIs
    BY <1>3, PresentAlone, APIAssumption DEF bridgeVars
  <2>2. New(g).detours \in {{}, Mine(g).detours}
    BY <1>3, <2>1, PresentMembersOf
  <2>3. \A i \in 1 .. MaxInst : det[i].detours = {} => det'[i].detours = {}
    BY <2>1, <2>2 DEF New, Mine
  <2>4. \A x \in Workers : Cleared(x)' => Cleared(x)
    BY <2>1 DEF Cleared
  <2> QED
    BY <1>2, <2>3, <2>4
<1>4. ASSUME NEW g \in GameThreads, Present(g), UNCHANGED bridgeVars
      PROVE  Undone'
  <2>1. /\ UNCHANGED <<ret, wpc, g_stop, det>>
        /\ \A x \in Workers : pc'[x] = pc[x]
    BY <1>0, <1>4, ThreadAssumption DEF Present, TakeInst, Goto, Places, Threads, bridgeVars
  <2>2. \A x \in Workers : Cleared(x)' => Cleared(x)
    BY <2>1 DEF Cleared
  <2> QED
    BY <1>2, <2>1, <2>2
<1>5. ASSUME NEW w \in Workers, Begin(w)
      PROVE  Undone'
  <2>1. /\ UNCHANGED <<det, ret, g_stop>> /\ \A x \in Workers : x # w => wpc'[x] = wpc[x]
        /\ pc'[w] # "out" /\ pc'[w] # "xDelete"
    BY <1>0, <1>5, Begins DEF sharedVars, CallBegun, Places
  <2>2. \A x \in Workers : x # w => pc'[x] = pc[x]
    BY <1>0, <1>5, Begins DEF TakeInst, Goto, Places, Threads
  <2>3. wpc'[w] \in {"get", "got", "own", "start"} => wpc[w] = "get" /\ wpc'[w] = "got"
    BY <1>0, <1>5, Begins DEF CallBegun
  <2>4. \A x \in Workers : Cleared(x)' => Cleared(x)
    BY <2>1, <2>2, <2>3 DEF Cleared
  <2> QED
    BY <1>2, <2>1, <2>4
<1>6. ASSUME NEW w \in Workers, Between(w)
      PROVE  Undone'
  <2>1. /\ UNCHANGED <<det, pc, ret, g_stop>> /\ pc[w] = "out"
        /\ \A x \in Workers : x # w => wpc'[x] = wpc[x]
    BY <1>0, <1>6, Betweens DEF coreVars, Places
  <2>2. Cleared(w)' => Cleared(w)
    BY <1>0, <1>6, <2>1 DEF Between, PollEnd, Polled, Got, Own, StartHook, StartHookSaved, WorkerEnd,
       WGo, Places, Cleared
  <2>3. \A x \in Workers : Cleared(x)' => Cleared(x)
    BY <2>1, <2>2 DEF Cleared
  <2> QED
    BY <1>2, <2>1, <2>3
<1>7. ASSUME NEW c \in Controllers, Controller(c)
      PROVE  Undone'
  <2>1. UNCHANGED <<det, pc, ret>>
    BY <1>7, Controls DEF coreVars
  <2>2. CASE StartClear(c)
    <3>1. UNCHANGED wpc /\ \A w \in Workers : ~ Active(w)
      BY <2>2, ThreadAssumption DEF StartClear, CGo, Control, Threads
    <3>2. \A x \in Workers : Cleared(x)' => Cleared(x)
      BY <2>1, <3>1 DEF Cleared, Active
    <3> QED
      BY <1>2, <2>1, <3>2
  <2>3. CASE ~ StartClear(c)
    <3>1. g_stop' = g_stop \/ g_stop'
      BY <1>7, <2>3 DEF Controller, StartExchange, StartSpawn, StopExchange,
         StopSignal, StopJoin, StopTake, StopNotify, StopUnhook, StopFree, StopReturn
    <3>2. \A w \in Workers : wpc'[w] = wpc[w] \/ wpc'[w] = "begin"
      <4>1. CASE StartSpawn(c)
        <5>1. PICK w \in Workers \ spawned : wpc' = [wpc EXCEPT ![w] = "begin"]
          BY <4>1 DEF StartSpawn
        <5> QED
          BY <1>0, <5>1 DEF Places
      <4> QED
        BY <1>7, <4>1 DEF Controller, StartExchange, StartClear, StopExchange,
           StopSignal, StopJoin, StopTake, StopNotify, StopUnhook, StopFree, StopReturn
    <3>3. \A x \in Workers : Cleared(x)' => Cleared(x)
      BY <2>1, <3>1, <3>2 DEF Cleared
    <3> QED
      BY <1>2, <2>1, <3>3
  <2> QED
    BY <2>2, <2>3
<1>8. CASE UNCHANGED <<det, pc, ret, wpc, g_stop>>
  <2>1. \A x \in Workers : Cleared(x)' => Cleared(x)
    BY <1>8 DEF Cleared
  <2> QED
    BY <1>2, <1>8, <2>1
<1> QED
  BY <1>1, <1>3, <1>4, <1>5, <1>6, <1>7, <1>8, NextSteps, Frames, Idles
     DEF frameFrame, bridgeVars

\* No pointer is found where the calls are inline.
LEMMA UnpatchedStep ==
  ASSUME Unpatched, Types, [Next]_vars
  PROVE  Unpatched'
<1> SUFFICES ASSUME VkInline, table = "driver" PROVE table' = "driver"
  BY DEF Unpatched
<1>1. ASSUME NEW w \in Workers, CallerStep(w)
      PROVE  table' = "driver"
  BY <1>1, Zenon DEF CallerStep, DetectLock, LibraryLock, Acquire, DetectEnter, DetectReset,
     SkipLibrary, HookLibrary, Install, Patchable, Record, FinishLock, Decide, ExitRestore,
     RestorePatches, ExitUnhook, UnhookAll, ExitDelete, Stop, FreeStop, StopDetection, Get,
     FreeDelete, FreeMembers, redirects
<1>2. ASSUME NEW g \in GameThreads, PresentStep(g)
      PROVE  table' = "driver"
  BY <1>2 DEF PresentStep, PresentLock, PresentCall, PresentCheck, HandOffRestore, RestorePatches,
     HandOffUnhook, UnhookAll, HandOffRenderer, HandOffDone, PresentLeave, redirects
<1>3. ASSUME NEW w \in Workers, Between(w)
      PROVE  table' = "driver"
  BY <1>3 DEF Between, PollEnd, Polled, Got, Own, StartHook, Patchable, StartHookSaved, WorkerEnd,
     detVars, redirects
<1>4. ASSUME NEW c \in Controllers, Controller(c)
      PROVE  table' = "driver"
  BY <1>4 DEF Controller, StartExchange, StartClear, StartSpawn, StopExchange, StopSignal,
     StopJoin, StopTake, StopNotify, StopUnhook, StopFree, StopReturn, detVars, redirects
<1>5. ASSUME NEW w \in Workers, Begin(w)
      PROVE  UNCHANGED table
  BY <1>5, Begins DEF Types, redirects
<1>6. ASSUME NEW g \in GameThreads, Present(g)
      PROVE  UNCHANGED table
  BY <1>6 DEF Present, redirects
<1>7. ASSUME NEW g \in GameThreads, Frame(g)
      PROVE  UNCHANGED table
  BY <1>7, Frames DEF frameFrame, redirects
<1>8. ASSUME Idle
      PROVE  UNCHANGED table
  BY <1>8, Idles DEF redirects
<1> QED
  BY <1>1, <1>2, <1>3, <1>4, <1>5, <1>6, <1>7, <1>8, NextSteps

\* A function is redirected when it is the driver's, and only the driver's is
\* put back.
LEMMA NotEnteredTwice ==
  ASSUME OneController, Types, Control, Held, Redirected, Entered, Undone, [Next]_vars,
         NEW a \in APIs
  PROVE  entry'[a] \in {entry[a], "driver"} \/ entry[a] = "driver"
<1>0. Values /\ entry[a] \in {"driver", "detector", "hook"}
  BY DEF Types, Values
<1>1. ASSUME NEW w \in Workers, CallerStep(w), UNCHANGED bridgeVars
      PROVE  entry'[a] \in {entry[a], "driver"} \/ entry[a] = "driver"
  <2>1. CASE Install(w)
    <3>1. Active(w) /\ pc[w] = "dInstall"
      BY <1>1, <2>1, CallerAlone DEF Install, Within, At
    <3>2. g_renderer = "none"
      BY <3>1 DEF Types, Calls, Control, FreePlaces
    <3>3. entry[a] # "hook"
      BY <3>1, <3>2, NotRedirected
    <3>4. entry'[a] \in {entry[a], "detector"}
      BY <2>1 DEF Install, Redirect
    <3> QED
      BY <1>0, <3>3, <3>4
  <2>2. CASE ExitUnhook(w) \/ FreeMembers(w)
    BY <2>2 DEF ExitUnhook, FreeMembers, UnhookAll, Redirect
  <2>3. CASE UNCHANGED entry
    BY <2>3
  <2> QED
    BY <1>1, <2>1, <2>2, <2>3, Zenon DEF CallerStep, DetectLock, LibraryLock, Acquire, DetectEnter,
       DetectReset, SkipLibrary, HookLibrary, Record, FinishLock, Decide, ExitRestore,
       RestorePatches, ExitDelete, Stop, FreeStop, StopDetection, Get, FreeDelete, redirects
<1>2. ASSUME NEW g \in GameThreads, PresentStep(g)
      PROVE  entry'[a] \in {entry[a], "driver"}
  <2>1. CASE HandOffUnhook(g)
    BY <2>1 DEF HandOffUnhook, UnhookAll, Redirect
  <2>2. CASE UNCHANGED entry
    BY <2>2
  <2> QED
    BY <1>2, <2>1, <2>2 DEF PresentStep, PresentLock, PresentCall, PresentCheck,
       HandOffRestore, RestorePatches, HandOffRenderer, HandOffDone, PresentLeave, redirects
<1>3. ASSUME NEW w \in Workers, Between(w)
      PROVE  entry'[a] = entry[a] \/ entry[a] = "driver"
  <2>1. CASE StartHook(w)
    <3>1. wpc[w] = "start" /\ pc[w] = "out"
      BY <2>1 DEF StartHook, WGo
    <3>2. \A x \in Workers : pc[x] = "out"
      BY <3>1, ActiveIsOne DEF Active
    <3>3. \A i \in 1 .. MaxInst : det[i].detours = {}
      BY <3>1 DEF Undone, Cleared
    <3>4. entry[a] # "detector"
      BY <3>2, <3>3 DEF Entered
    <3>5. entry[a] # "hook"
      BY <3>1 DEF Redirected
    <3> QED
      BY <1>0, <3>4, <3>5
  <2>2. CASE UNCHANGED entry
    BY <2>2
  <2> QED
    BY <1>3, <2>1, <2>2 DEF Between, PollEnd, Polled, Got, Own, StartHookSaved, WorkerEnd,
       detVars, redirects
<1>4. ASSUME NEW c \in Controllers, Controller(c)
      PROVE  entry'[a] \in {entry[a], "driver"}
  <2>1. CASE StopUnhook(c)
    BY <2>1 DEF StopUnhook, Redirect
  <2>2. CASE UNCHANGED entry
    BY <2>2
  <2> QED
    BY <1>4, <2>1, <2>2 DEF Controller, StartExchange, StartClear, StartSpawn, StopExchange,
       StopSignal, StopJoin, StopTake, StopNotify, StopFree, StopReturn, detVars, redirects
<1>5. ASSUME NEW w \in Workers, Begin(w)
      PROVE  UNCHANGED entry
  BY <1>5, Begins DEF Types, redirects
<1>6. ASSUME NEW g \in GameThreads, Present(g)
      PROVE  UNCHANGED entry
  BY <1>6 DEF Present, redirects
<1>7. ASSUME NEW g \in GameThreads, Frame(g)
      PROVE  UNCHANGED entry
  BY <1>7, Frames DEF frameFrame, redirects
<1>8. ASSUME Idle
      PROVE  UNCHANGED entry
  BY <1>8, Idles DEF redirects
<1> QED
  BY <1>1, <1>2, <1>3, <1>4, <1>5, <1>6, <1>7, <1>8, NextSteps

\* What the bridge has throughout, whatever the game presents with.
GInv == /\ CInv
        /\ Held /\ Spare /\ Finds /\ Obtained
        /\ Redirected /\ Entered /\ Undone /\ Unpatched

LEMMA GInvInit ==
  ASSUME Init
  PROVE  GInv
<1>1. CInv
  BY TypesInit, ControlInit DEF CInv
<1>2. Held
  BY DetectorInitially DEF Held, Init, DetectorInit
<1>3. \A i \in 1 .. MaxInst : Bare(i)
  BY DEF Bare, Init, DetectorInit, NewDetector, APIs
<1>4. Spare
  BY <1>3 DEF Spare
<1>5. Finds
  BY <1>3, DetectorInitially DEF Finds, Keeps, Found, Exits, Bare, APIs
<1>6. Obtained
  BY DetectorInitially DEF Obtained, Holding, Init, BridgeInit, APIs
<1>7. Redirected /\ Unpatched
  BY DetectorInitially DEF Redirected, Unpatched, Init, DetectorInit
<1>8. Entered
  BY DEF Entered, Init, DetectorInit
<1>9. Undone
  BY <1>3 DEF Undone, Bare
<1> QED
  BY <1>1, <1>2, <1>4, <1>5, <1>6, <1>7, <1>8, <1>9 DEF GInv

LEMMA GInvStep ==
  ASSUME OneController, GInv, [Next]_vars
  PROVE  GInv'
<1> USE DEF GInv
<1>1. CInv' /\ Types /\ Types' /\ Control
  BY CStep DEF CInv
<1>2. Held' /\ Spare' /\ Finds'
  BY <1>1, HeldStep, SpareStep, FindsStep
<1>3. Obtained' /\ Redirected'
  BY <1>1, ObtainedStep, RedirectedStep
<1>4. Entered' /\ Undone' /\ Unpatched'
  BY <1>1, EnteredStep, UndoneStep, UnpatchedStep
<1> QED
  BY <1>1, <1>2, <1>3, <1>4

\* The invariants hold throughout, for any game.
THEOREM AnyGameInvariant ==
  ASSUME OneController
  PROVE  Spec => []GInv
BY GInvInit, GInvStep, PTL DEF Spec

\* The renderer that g_renderer points to is never one that the detector's
\* exit or destructor, or an earlier stop, has deleted, whatever the game's
\* threads present with.
THEOREM RendererAliveInvariant ==
  ASSUME OneController
  PROVE  Spec => []RendererAlive
<1>1. GInv => RendererAlive
  BY DEF GInv, CInv, Types, Bridge, Obtained, Released, RendererAlive
<1> QED
  BY <1>1, AnyGameInvariant, PTL

\* After stop has returned no worker runs, no renderer is kept and no present
\* of the game lands in the hook, whatever its threads present with.
THEOREM StopUndoesInvariant ==
  ASSUME OneController
  PROVE  Spec => []StopUndoes
<1>1. GInv => StopUndoes
  <2> SUFFICES ASSUME GInv, Stopped PROVE StopUndoes
    BY DEF StopUndoes
  <2>1. g_worker = NoThread /\ g_renderer = "none"
    BY DEF Stopped, GInv, CInv, Control
  <2>2. \A w \in Workers : wpc[w] \in {"none", "ended"}
    BY <2>1, ThreadAssumption DEF GInv, CInv, Control, Active, Threads
  <2>3. \A a \in APIs : ~ Holds(a)
    BY <2>1 DEF Stopped, Holds, APIs
  <2>4. \A a \in APIs : Lands(a) # "hook"
    BY <2>3 DEF GInv, Redirected, Lands, APIs
  <2> QED
    BY <2>1, <2>2, <2>4 DEF StopUndoes
<1> QED
  BY <1>1, AnyGameInvariant, PTL

\* A game whose presents are detoured: it presents with OpenGL, or its calls
\* of Vulkan are inline so that no pointer is found.
DetouredGame == VkInline \/ OpenGLGame

\* Once every worker has freed its detector and ended, no detoured present of
\* the game lands in a detector.
THEOREM DetectorRemovedInvariant ==
  ASSUME OneController, DetouredGame
  PROVE  Spec => []DetectorRemoved
<1>1. GInv => DetectorRemoved
  <2> SUFFICES ASSUME GInv, \A w \in Workers : wpc[w] \in {"none", "ended"}, NEW g \in GameThreads
               PROVE  Lands(PresentAPI[g]) # "detector"
    BY DEF DetectorRemoved
  <2>1. \A i \in 1 .. MaxInst : det[i].detours = {}
    BY DEF GInv, Spare, Bare, Uses, Active
  <2>2. \A w \in Workers : pc[w] = "out"
    BY DEF GInv, CInv, Types, Calls
  <2>3. \A a \in APIs : entry[a] # "detector"
    BY <2>1, <2>2 DEF GInv, Entered
  <2>4. PresentAPI[g] \in APIs /\ (PresentAPI[g] = "glx" \/ table = "driver")
    BY APIAssumption DEF DetouredGame, OpenGLGame, GInv, Unpatched
  <2> QED
    BY <2>3, <2>4 DEF Lands
<1> QED
  BY <1>1, AnyGameInvariant, PTL

\* No redirection is ever made on top of another: a detoured present that
\* lands in a detector or in the hook lands in the driver before it lands
\* elsewhere.
THEOREM NeverStackedProved ==
  ASSUME OneController, DetouredGame
  PROVE  Spec => NeverStacked
<1>1. GInv /\ [Next]_vars => [~ Stacks]_vars
  <2> SUFFICES ASSUME GInv, [Next]_vars, NEW g \in GameThreads,
                      Redirection(PresentAPI[g])' # Redirection(PresentAPI[g]),
                      Lands(PresentAPI[g]) # "driver", Lands(PresentAPI[g])' # "driver"
               PROVE  FALSE
    BY DEF Stacks
  <2>1. PresentAPI[g] \in APIs
    BY APIAssumption
  <2>2. PresentAPI[g] = "glx" \/ (table = "driver" /\ table' = "driver")
    BY GInvStep DEF DetouredGame, OpenGLGame, GInv, Unpatched
  <2>3. /\ Lands(PresentAPI[g]) = entry[PresentAPI[g]]
        /\ Lands(PresentAPI[g])' = entry'[PresentAPI[g]]
        /\ entry'[PresentAPI[g]] # entry[PresentAPI[g]]
    BY <2>2 DEF Lands, Redirection
  <2> QED
    BY <2>1, <2>3, NotEnteredTwice DEF GInv, CInv
<1> QED
  BY <1>1, AnyGameInvariant, PTL DEF Spec, NeverStacked

-----------------------------------------------------------------------------
(* A game that presents with OpenGL.                                       *)

\* Only OpenGL presents are handed over.
GLRenderers == \A i \in 1 .. MaxInst : det[i].renderer \in {"none", "glx"}

GLGiven ==
    /\ \A w \in Workers :
          /\ wpc[w] = "got" /\ pc[w] = "out" => ret[w] \in {"none", "glx"}
          /\ wpc[w] \in {"own", "start", "startSaved"} => ret[w] = "glx"
    /\ g_renderer \in {"none", "glx"}
    /\ \A c \in Controllers : victim[c] \in {"none", "glx"}

\* A detector hands over the OpenGL renderer or none.
LEMMA RenderersStep ==
  ASSUME OpenGLGame, Types, GLRenderers, [Next]_vars
  PROVE  GLRenderers'
<1> USE DEF GLRenderers
<1>1. ASSUME NEW w \in Workers, CallerStep(w), NEW i \in 1 .. MaxInst
      PROVE  det'[i].renderer \in {"none", "glx"}
  <2>1. CASE i # self[w]
    BY <1>1, <2>1, CallerDet DEF Types, Values
  <2>2. CASE i = self[w]
    <3>1. det'[i] = NewDetector \/ det'[i].renderer = det[i].renderer
      BY <1>1, <2>2, CallerMembers DEF Mine, New
    <3> QED
      BY <3>1 DEF NewDetector
  <2> QED
    BY <2>1, <2>2
<1>2. ASSUME NEW g \in GameThreads, PresentStep(g), NEW i \in 1 .. MaxInst
      PROVE  det'[i].renderer \in {"none", "glx"}
  <2>1. CASE i # self[g]
    BY <1>2, <2>1, PresentDet DEF Types
  <2>2. CASE i = self[g]
    BY <1>2, <2>2, PresentMembers DEF Mine, New
  <2> QED
    BY <2>1, <2>2
<1>3. CASE UNCHANGED det
  BY <1>3
<1> QED
  BY <1>1, <1>2, <1>3, NextSteps, Begins, Betweens, Controls, Frames, Idles
     DEF Present, coreVars, frameFrame, Types

\* A worker is given the OpenGL renderer or none.
LEMMA GivenStep ==
  ASSUME Types, GLRenderers, GLGiven, [Next]_vars
  PROVE  GLGiven'
<1> USE DEF GLGiven
<1>1. ASSUME NEW c \in Controllers, Controller(c)
      PROVE  GLGiven'
  <2>1. UNCHANGED <<pc, ret>>
    BY <1>1, Controls DEF coreVars
  <2>2. CASE UNCHANGED <<wpc, g_renderer, victim>>
    BY <2>1, <2>2
  <2>3. CASE StartSpawn(c)
    <3>1. PICK w \in Workers \ spawned : wpc' = [wpc EXCEPT ![w] = "begin"]
      BY <2>3 DEF StartSpawn
    <3>2. UNCHANGED <<g_renderer, victim>>
      BY <2>3 DEF StartSpawn
    <3> QED
      BY <2>1, <3>1, <3>2 DEF Types, Places
  <2>4. CASE StopTake(c)
    BY <2>1, <2>4 DEF StopTake, Types, Bridge
  <2>5. CASE StopFree(c)
    BY <2>1, <2>5 DEF StopFree, Types, Bridge
  <2> QED
    BY <1>1, <2>2, <2>3, <2>4, <2>5 DEF Controller, StartExchange, StartClear, StopExchange,
       StopSignal, StopJoin, StopNotify, StopUnhook, StopReturn
<1>2. ASSUME NEW w \in Workers, CallerStep(w), UNCHANGED bridgeVars
      PROVE  GLGiven'
  <2>1. UNCHANGED <<wpc, g_renderer, victim>>
    BY <1>2 DEF bridgeVars
  <2>2. pc[w] # "out" /\ \A x \in Workers : x # w => pc'[x] = pc[x]
    BY <1>2, CallerMoves DEF Moves, Goto, Types, Places, Threads
  <2>3. \A x \in Workers : x # w => ret'[x] = ret[x]
    BY <1>2, Zenon DEF CallerStep, DetectLock, LibraryLock, Acquire, DetectEnter, DetectReset,
       SkipLibrary, HookLibrary, Install, Record, FinishLock, Decide, ExitRestore, ExitUnhook,
       ExitDelete, Stop, FreeStop, StopDetection, Get, FreeDelete, FreeMembers, Types, Values
  <2>4. wpc[w] \notin {"own", "start", "startSaved"}
    BY <2>2 DEF Types, Calls
  <2>5. wpc[w] = "got" => ret'[w] \in {"none", "glx"}
    <3>1. wpc[w] = "got" => Get(w)
      BY <1>2, <2>2, StepAt DEF Types, Calls
    <3>2. Mine(w).renderer \in {"none", "glx"}
      BY <2>2 DEF Types, Objects, Threads, GLRenderers, Mine
    <3> QED
      BY <3>1, <3>2 DEF Get, Types, Values
  <2> QED
    BY <2>1, <2>2, <2>3, <2>4, <2>5
<1>3. ASSUME NEW w \in Workers, Begin(w)
      PROVE  GLGiven'
  <2>1. \A x \in Workers : x # w => wpc'[x] = wpc[x] /\ pc'[x] = pc[x]
    BY <1>3, Begins DEF TakeInst, Goto, Types, Places, Threads
  <2>2. UNCHANGED <<ret, g_renderer, victim>> /\ CallBegun(w)
    BY <1>3, Begins DEF sharedVars, Types
  <2> QED
    BY <2>1, <2>2 DEF CallBegun
<1>4. ASSUME NEW w \in Workers, Between(w)
      PROVE  GLGiven'
  <2>1. /\ UNCHANGED <<pc, ret, victim>> /\ pc[w] = "out"
        /\ \A x \in Workers : x # w => wpc'[x] = wpc[x]
    BY <1>4, Betweens DEF coreVars, Types, Places
  <2>2. wpc'[w] # "got"
    BY <1>4, Betweens DEF Types, Places
  <2>3. wpc'[w] \in {"own", "start", "startSaved"} => ret[w] = "glx"
    BY <1>4, <2>1 DEF Between, PollEnd, Polled, Got, Own, StartHook, StartHookSaved, WorkerEnd,
       WGo, Types, Places
  <2>4. g_renderer' \in {"none", "glx"}
    BY <1>4 DEF Between, PollEnd, Polled, Got, Own, StartHook, StartHookSaved, WorkerEnd,
       WGo, sharedVars
  <2> QED
    BY <2>1, <2>2, <2>3, <2>4
<1>5. ASSUME NEW g \in GameThreads, Present(g), UNCHANGED bridgeVars
      PROVE  GLGiven'
  BY <1>5, ThreadAssumption DEF Present, TakeInst, Goto, Types, Places, Threads, bridgeVars
<1>6. ASSUME NEW g \in GameThreads, PresentStep(g), UNCHANGED bridgeVars
      PROVE  GLGiven'
  BY <1>6, PresentMoves, PresentKeeps, ThreadAssumption
     DEF Goto, Types, Places, Threads, bridgeVars
<1>7. ASSUME NEW g \in GameThreads, Frame(g)
      PROVE  GLGiven'
  <2>1. UNCHANGED <<pc, wpc, ret, g_renderer, victim>>
    BY <1>7, Frames DEF frameFrame
  <2> QED
    BY <2>1
<1>8. CASE Idle
  BY <1>8, Idles DEF bridgeVars
<1> QED
  BY <1>1, <1>2, <1>3, <1>4, <1>5, <1>6, <1>7, <1>8, NextSteps

HandPlaces == {"hRestore", "hUnhook", "hRenderer", "hDone"}

\* Nobody ends the detection while a present hands over: both are under the
\* mutex.
Handing == \A g \in GameThreads :
    pc[g] \in HandPlaces /\ self[g] \notin freed => ~ det[self[g]].done

\* A detection is made anew only while no renderer has been found.
Anew == \A w \in Workers : pc[w] = "dReset" => det[self[w]].renderer = "none"

HandOver == Handing /\ Anew

\* A worker's step respects the hand-over.
LEMMA CallerHandOver ==
  ASSUME Types, Control, Locked, HandOver, NEW w \in Workers, CallerStep(w)
  PROVE  HandOver'
<1>0. Places /\ Objects /\ DetOK /\ NoThread \notin Threads
      /\ GameThreads \cap Workers = {}
  BY ThreadAssumption DEF Types
<1>1. /\ pc[w] # "out" /\ self[w] \in 1 .. MaxInst
      /\ \A x \in Workers : x # w => pc[x] = "out"
      /\ UNCHANGED self
  BY CallerMoves, ActiveIsOne, CallerKeeps DEF Moves, Types, Objects, Threads
<1>2. \A t \in Threads : t # w => pc'[t] = pc[t]
  BY <1>0, CallerMoves DEF Moves, Goto, Places
<1>3. \A i \in 1 .. MaxInst : i # self[w] => det'[i] = det[i]
  BY CallerDet DEF Types, Values
<1>4. freed \subseteq freed'
  BY CallerFrees
<1>5. ASSUME NEW g \in GameThreads, pc'[g] \in HandPlaces, self[g] \notin freed'
      PROVE  ~ det'[self[g]].done
  <2>1. pc[g] \in HandPlaces /\ self[g] \notin freed /\ g # w
    BY <1>0, <1>2, <1>4, <1>5 DEF Threads
  <2>2. /\ ~ det[self[g]].done /\ det[self[g]].lock = g /\ self[g] \in 1 .. MaxInst
    BY <1>0, <2>1 DEF HandOver, Handing, Locked, HandPlaces, LockedPresent, Objects, Threads
  <2>3. CASE self[g] = self[w]
    <3>1. pc[w] # "xDone"
      BY <2>1, <2>2, <2>3 DEF Locked, LockedCaller, ExitPlaces
    <3>2. pc[w] \notin {"sLock", "fStop"}
      <4>1. pc[w] \in {"sLock", "fStop"} => det[self[w]].lock = NoThread
        BY StepAt DEF Stop, FreeStop, StopDetection, Owner, Mine
      <4> QED
        BY <1>0, <2>2, <2>3, <4>1 DEF Threads
    <3>3. CASE pc[w] = "fMembers"
      <4>1. New(w) = NewDetector
        BY <3>3, CallerMembers
      <4> QED
        BY <2>3, <4>1 DEF New, NewDetector
    <3>4. CASE pc[w] # "fMembers"
      <4>1. New(w).done \in {FALSE, Mine(w).done}
        BY <3>1, <3>2, <3>4, CallerMembers
      <4> QED
        BY <2>2, <2>3, <4>1 DEF Mine, New
    <3> QED
      BY <3>3, <3>4
  <2> QED
    BY <1>3, <2>2, <2>3
<1>6. ASSUME NEW x \in Workers, pc'[x] = "dReset"
      PROVE  det'[self[x]].renderer = "none"
  <2>1. x = w
    BY <1>1, <1>2, <1>6 DEF Threads
  <2> QED
    BY <1>6, <2>1, CallerGoes, CallerMembers DEF New
<1> QED
  BY <1>1, <1>5, <1>6 DEF HandOver, Handing, Anew

\* So does a present's step.
LEMMA PresentHandOver ==
  ASSUME OpenGLGame, Types, Locked, HandOver, NEW g \in GameThreads, PresentStep(g)
  PROVE  HandOver'
<1>0. Places /\ Objects /\ DetOK /\ GameThreads \cap Workers = {} /\ g \in Threads
  BY ThreadAssumption DEF Types, Threads
<1>1. /\ self[g] \in 1 .. MaxInst /\ self[g] \notin freed
      /\ UNCHANGED <<self, freed>>
  BY <1>0, PresentMoves, PresentKeeps, PresentLocks DEF Objects
<1>2. \A t \in Threads : t # g => pc'[t] = pc[t]
  BY <1>0, PresentMoves DEF Goto, Places
<1>3. \A i \in 1 .. MaxInst : i # self[g] => det'[i] = det[i]
  BY PresentDet DEF Types
<1>4. pc[g] \in LockedPresent => det[self[g]].lock = g
  BY <1>1 DEF Locked
<1>5. pc'[g] \in HandPlaces => /\ pc[g] \in {"pCheck", "hRestore", "hUnhook", "hRenderer"}
                               /\ pc[g] = "pCheck" => ~ Mine(g).done
  BY <1>0 DEF PresentStep, PresentLock, PresentCall, PresentCheck, HandOffRestore,
     RestorePatches, HandOffUnhook, UnhookAll, HandOffRenderer, HandOffDone, PresentLeave,
     Within, At, Goto, Places, HandPlaces
<1>6. ASSUME NEW h \in GameThreads, pc'[h] \in HandPlaces, self[h] \notin freed
      PROVE  ~ det'[self[h]].done
  <2>1. CASE h = g
    <3>1. pc[g] # "hDone" /\ ~ Mine(g).done
      BY <1>1, <1>5, <1>6, <2>1 DEF HandOver, Handing, HandPlaces, Mine
    <3> QED
      BY <2>1, <3>1, PresentMembers DEF New
  <2>2. CASE h # g
    <3>1. pc[h] \in HandPlaces /\ self[h] \in 1 .. MaxInst
      BY <1>0, <1>2, <1>6, <2>2 DEF Threads, Objects, HandPlaces
    <3>2. ~ det[self[h]].done /\ det[self[h]].lock = h
      BY <1>6, <3>1 DEF HandOver, Handing, Locked, HandPlaces, LockedPresent
    <3>3. CASE self[h] = self[g]
      <4>1. pc[g] # "hDone"
        BY <1>4, <2>2, <3>2, <3>3 DEF LockedPresent
      <4> QED
        BY <3>2, <3>3, <4>1, PresentMembers DEF Mine, New
    <3> QED
      BY <1>3, <3>1, <3>2, <3>3
  <2> QED
    BY <2>1, <2>2
<1>7. ASSUME NEW w \in Workers, pc'[w] = "dReset"
      PROVE  det'[self[w]].renderer = "none"
  <2>1. pc[w] = "dReset" /\ w # g /\ self[w] \in 1 .. MaxInst /\ det[self[w]].lock = w
    BY <1>0, <1>2, <1>7 DEF Threads, Objects, Locked, LockedCaller
  <2>2. det[self[w]].renderer = "none"
    BY <2>1 DEF HandOver, Anew
  <2>3. CASE self[w] = self[g]
    <3>1. pc[g] # "hRenderer"
      BY <1>4, <2>1, <2>3 DEF LockedPresent
    <3> QED
      BY <2>2, <2>3, <3>1, PresentMembers DEF Mine, New
  <2> QED
    BY <1>3, <2>1, <2>2, <2>3
<1> QED
  BY <1>1, <1>6, <1>7 DEF HandOver, Handing, Anew

\* A present hands over, and a worker begins a detection, undisturbed.
LEMMA HandOverStep ==
  ASSUME OpenGLGame, Types, Control, Locked, HandOver, [Next]_vars
  PROVE  HandOver'
<1> USE DEF HandOver, Handing, Anew
<1>1. CASE UNCHANGED <<det, pc, self, freed>>
  BY <1>1
<1>2. ASSUME NEW t \in Threads, NEW to \in {"dLock", "sLock", "gLock", "fStop", "pLock"},
             TakeInst(t, to), UNCHANGED <<det, freed>>, pc[t] = "out"
      PROVE  HandOver'
  <2>1. /\ \A x \in Threads : x # t => pc'[x] = pc[x] /\ self'[x] = self[x]
        /\ pc'[t] = to
    BY <1>2 DEF TakeInst, Goto, Types, Places, Objects
  <2> QED
    BY <1>2, <2>1 DEF HandPlaces, Threads
<1>3. ASSUME NEW w \in Workers, Begin(w)
      PROVE  HandOver'
  BY <1>3, <1>2, Begins DEF Types, Threads
<1>4. ASSUME NEW g \in GameThreads, Present(g)
      PROVE  HandOver'
  BY <1>4, <1>2 DEF Present, At, Threads
<1> QED
  BY <1>1, <1>3, <1>4, NextSteps, Betweens, Frames, Controls, Idles, CallerHandOver,
     PresentHandOver DEF coreVars, frameFrame

\* What a worker's step does to the original that its detector has saved.
LEMMA CallerOrig ==
  ASSUME Types, NEW w \in Workers, CallerStep(w), pc[w] # "fMembers"
  PROVE  New(w).orig["glx"] =
            IF pc'[w] = "dInstall" /\ lib[w] = "glx" THEN "raw"
            ELSE IF pc[w] = "dRecord" /\ lib[w] = "glx" /\ entry["glx"] = "detector" THEN "tramp"
            ELSE Mine(w).orig["glx"]
<1> SUFFICES ASSUME NEW d, NEW e, d = Mine(w), e = New(w)
             PROVE  e.orig["glx"] =
                       IF pc'[w] = "dInstall" /\ lib[w] = "glx" THEN "raw"
                       ELSE IF pc[w] = "dRecord" /\ lib[w] = "glx" /\ entry["glx"] = "detector"
                            THEN "tramp"
                       ELSE d.orig["glx"]
  OBVIOUS
<1>d. d = det[self[w]] /\ e = det'[self[w]]
  BY DEF Mine, New
<1>0. /\ self[w] \in 1 .. MaxInst /\ w \in Threads
      /\ d \in DetectorType /\ lib[w] \in APIs
      /\ Places /\ Objects /\ DetOK /\ "glx" \in APIs
  BY <1>d, CallerMoves DEF Moves, Types, Objects, Threads, DetOK, Values, APIs
<1>1. pc'[w] = "dInstall" => HookLibrary(w)
  BY CallerGoes
<1>2. CASE pc'[w] = "dInstall"
  <2> DEFINE a == lib[w]
  <2>1. Changed(self[w], [Mine(w) EXCEPT !.hooked[a] = TRUE, !.hook[a] = TRUE,
                                         !.orig[a] = "raw"])
    BY <1>d, <1>0, <1>1, <1>2, HookChanges, Zenon
  <2>2. e = [d EXCEPT !.hooked[a] = TRUE, !.hook[a] = TRUE, !.orig[a] = "raw"]
    BY <1>d, <1>0, <2>1, ChangedAt DEF Mine
  <2>3. e.orig = [d.orig EXCEPT ![a] = "raw"] /\ d.orig \in [APIs -> {"null", "raw", "tramp"}]
    BY <1>0, <2>2 DEF DetectorType
  <2>4. pc[w] # "dRecord"
    BY <1>1, <1>2, StepAt
  <2> QED
    BY <1>0, <1>2, <2>3, <2>4
<1>3. CASE pc[w] = "dRecord"
  <2> DEFINE a == lib[w]
             detour == entry[a] = "detector"
             p == Mine(w).patched \/ ~ detour
             q == IF detour THEN Mine(w).detours \cup {a} ELSE Mine(w).detours
             r == IF detour THEN "tramp" ELSE Mine(w).orig[a]
  <2>1. Changed(self[w], [Mine(w) EXCEPT !.patched = p, !.detours = q, !.orig[a] = r,
                                         !.lock = NoThread])
    BY <1>d, <1>0, <1>3, StepAt, RecordChanges, Zenon
  <2>2. r = IF entry[lib[w]] = "detector" THEN "tramp" ELSE d.orig[lib[w]]
    BY <1>d DEF Mine
  <2> HIDE DEF p, q, r
  <2>3. e = [d EXCEPT !.patched = p, !.detours = q, !.orig[a] = r, !.lock = NoThread]
    BY <1>d, <1>0, <2>1, ChangedAt DEF Mine
  <2>4. e.orig = [d.orig EXCEPT ![a] = r] /\ d.orig \in [APIs -> {"null", "raw", "tramp"}]
    BY <1>0, <2>3 DEF DetectorType
  <2>5. pc'[w] # "dInstall"
    BY <1>1, <1>3, StepAt
  <2> QED
    BY <1>0, <1>3, <2>2, <2>4, <2>5
<1>4. CASE pc[w] = "dReset"
  <2>0. Changed(self[w], [Mine(w) EXCEPT !.started = FALSE, !.done = FALSE, !.lock = NoThread])
    BY <1>0, <1>4, StepAt, ResetChanges, Zenon
  <2>1. e = [d EXCEPT !.started = FALSE, !.done = FALSE, !.lock = NoThread]
    BY <1>d, <1>0, <2>0, ChangedAt DEF Mine
  <2> QED
    BY <1>0, <1>1, <1>4, <2>1, StepAt DEF DetectorType
<1>5. CASE pc[w] = "dFinish"
  <2>0. Changed(self[w], [Mine(w) EXCEPT !.lock = w, !.started = TRUE])
    BY <1>0, <1>5, StepAt, FinishChanges, Zenon
  <2>1. e = [d EXCEPT !.lock = w, !.started = TRUE]
    BY <1>d, <1>0, <2>0, ChangedAt DEF Mine
  <2> QED
    BY <1>0, <1>1, <1>5, <2>1, StepAt DEF DetectorType
<1>6. CASE pc[w] = "xDone"
  <2>0. Changed(self[w], [Mine(w) EXCEPT !.done = TRUE, !.patched = FALSE])
    BY <1>0, <1>6, StepAt, RestoreChanges, Zenon
  <2>1. e = [d EXCEPT !.done = TRUE, !.patched = FALSE]
    BY <1>d, <1>0, <2>0, ChangedAt DEF Mine
  <2> QED
    BY <1>0, <1>1, <1>6, <2>1, StepAt DEF DetectorType
<1>7. CASE pc[w] = "xUnhook"
  <2>0. Changed(self[w], [Mine(w) EXCEPT !.detours = {}])
    BY <1>0, <1>7, StepAt, UnhookChanges
  <2>1. e = [d EXCEPT !.detours = {}]
    BY <1>d, <1>0, <2>0, ChangedAt DEF Mine
  <2> QED
    BY <1>0, <1>1, <1>7, <2>1, StepAt DEF DetectorType
<1>8. CASE pc[w] = "xDelete"
  <2>0. Changed(self[w], [Mine(w) EXCEPT !.hooked = [a \in APIs |-> FALSE], !.hook = [a \in APIs |-> FALSE],
                                         !.lock = NoThread])
    BY <1>0, <1>8, StepAt, DeleteChanges, Zenon
  <2>1. e = [d EXCEPT !.hooked = [a \in APIs |-> FALSE], !.hook = [a \in APIs |-> FALSE],
                      !.lock = NoThread]
    BY <1>d, <1>0, <2>0, ChangedAt DEF Mine
  <2> QED
    BY <1>0, <1>1, <1>8, <2>1, StepAt DEF DetectorType
<1>9. CASE pc[w] \in {"sLock", "fStop"}
  <2>0. Changed(self[w], [Mine(w) EXCEPT !.done = TRUE])
    BY <1>0, <1>9, StepAt, StopChanges
  <2>1. e = [d EXCEPT !.done = TRUE]
    BY <1>d, <1>0, <2>0, ChangedAt DEF Mine
  <2> QED
    BY <1>0, <1>1, <1>9, <2>1, StepAt DEF DetectorType
<1>10. CASE /\ pc[w] \notin {"dReset", "dRecord", "dFinish", "xDone", "xUnhook", "xDelete",
                             "sLock", "fStop", "fMembers"}
            /\ pc'[w] # "dInstall"
  <2>1. Quiet
    BY <1>d, <1>0, <1>10, CallerDet, StepAt DEF FinishLock, Within, At
  <2> QED
    BY <1>d, <1>0, <1>10, <2>1 DEF Quiet
<1> QED
  BY <1>2, <1>3, <1>4, <1>5, <1>6, <1>7, <1>8, <1>9, <1>10

\* A present's step keeps it.
LEMMA PresentOrig ==
  ASSUME OpenGLGame, Types, NEW g \in GameThreads, PresentStep(g)
  PROVE  New(g).orig["glx"] = Mine(g).orig["glx"]
<1> SUFFICES ASSUME NEW d, NEW e, d = Mine(g), e = New(g) PROVE e.orig["glx"] = d.orig["glx"]
  OBVIOUS
<1>d. d = det[self[g]] /\ e = det'[self[g]]
  BY DEF Mine, New
<1>0. /\ self[g] \in 1 .. MaxInst /\ g \in Threads
      /\ d \in DetectorType
      /\ Places /\ Objects /\ DetOK /\ "glx" \in APIs /\ PresentAPI[g] = "glx"
  BY <1>d, PresentMoves DEF Types, Objects, Threads, DetOK, APIs, OpenGLGame
<1>1. CASE pc[g] = "hRestore"
  <2>1. e = [d EXCEPT !.patched = FALSE]
    BY <1>d, <1>0, <1>1, PresentAt, HandRestoreChanges, ChangedAt DEF Mine
  <2> QED
    BY <1>0, <2>1 DEF DetectorType
<1>2. CASE pc[g] = "hUnhook"
  <2>1. e = [d EXCEPT !.detours = {}]
    BY <1>d, <1>0, <1>2, PresentAt, HandUnhookChanges, ChangedAt DEF Mine
  <2> QED
    BY <1>0, <2>1 DEF DetectorType
<1>3. CASE pc[g] = "hDone"
  <2>1. e = [d EXCEPT !.done = TRUE]
    BY <1>d, <1>0, <1>3, PresentAt, HandDoneChanges, ChangedAt DEF Mine
  <2> QED
    BY <1>0, <2>1 DEF DetectorType
<1>4. CASE pc[g] = "hRenderer"
  <2> DEFINE r == IF Mine(g).hook["glx"] THEN "glx" ELSE "none"
  <2>1. Changed(self[g], [Mine(g) EXCEPT !.renderer = r, !.hook["glx"] = FALSE])
    BY <1>d, <1>0, <1>4, PresentAt, HandChanges, Zenon
  <2> HIDE DEF r
  <2>2. e = [d EXCEPT !.renderer = r, !.hook["glx"] = FALSE]
    BY <1>d, <1>0, <2>1, ChangedAt DEF Mine
  <2> QED
    BY <1>0, <2>2 DEF DetectorType
<1>5. CASE pc[g] \notin {"hRestore", "hUnhook", "hDone", "hRenderer"}
  <2>1. Quiet
    BY <1>d, <1>0, <1>5, PresentDet, PresentAt
  <2> QED
    BY <1>d, <1>0, <2>1 DEF Quiet
<1> QED
  BY <1>1, <1>2, <1>3, <1>4, <1>5

\* A detour exists as long as the detector keeps the hook it was made for.
Detoured ==
    /\ \A i \in 1 .. MaxInst : "glx" \in det[i].detours =>
          det[i].orig["glx"] = "tramp" /\ det[i].hook["glx"] /\ det[i].renderer = "none"
    /\ \A w \in Workers :
          /\ pc[w] \in {"dInstall", "dRecord"} /\ lib[w] = "glx" =>
                det[self[w]].hook["glx"] /\ det[self[w]].renderer = "none"
          /\ pc[w] = "dRecord" /\ lib[w] = "glx" => entry["glx"] = "detector"
          /\ pc[w] = "xDelete" => det[self[w]].detours = {}
    /\ \A g \in GameThreads :
          pc[g] = "hRenderer" /\ self[g] \notin freed => det[self[g]].detours = {}

\* A worker's step keeps the detours of a detector and the redirections
\* together.
LEMMA CallerDetoured ==
  ASSUME OpenGLGame, Types, Control, Held, Locked, GLRenderers, Spare, Finds, HandOver, Detoured,
         NEW w \in Workers, CallerStep(w)
  PROVE  Detoured'
<1>0. /\ Places /\ Objects /\ DetOK /\ "glx" \in APIs /\ NoThread \notin Threads
      /\ GameThreads \cap Workers = {} /\ entry \in [APIs -> {"driver", "detector", "hook"}]
  BY ThreadAssumption DEF Types, APIs, Values
<1>1. /\ pc[w] # "out" /\ self[w] \in 1 .. MaxInst /\ lib[w] \in APIs
      /\ \A x \in Workers : x # w => pc[x] = "out"
      /\ UNCHANGED self
  BY CallerMoves, ActiveIsOne, CallerKeeps DEF Moves, Types, Objects, Threads, Values
<1>2. \A t \in Threads : t # w => pc'[t] = pc[t]
  BY <1>0, CallerMoves DEF Moves, Goto, Places
<1>3. \A i \in 1 .. MaxInst : i # self[w] => det'[i] = det[i]
  BY CallerDet DEF Types, Values
<1>4. \A i \in 1 .. MaxInst : i # self[w] => Bare(i)
  BY <1>1, ActiveIsOne DEF Spare, Uses
<1>5. freed \subseteq freed'
  BY CallerFrees
<1>6. pc[w] = "fMembers" => New(w).detours = {}
  <2>1. pc[w] = "fMembers" => New(w) = NewDetector
    BY CallerMembers
  <2> QED
    BY <2>1 DEF NewDetector
<1>7. "glx" \in New(w).detours =>
        New(w).orig["glx"] = "tramp" /\ New(w).hook["glx"] /\ New(w).renderer = "none"
  <2> SUFFICES ASSUME "glx" \in New(w).detours
               PROVE  New(w).orig["glx"] = "tramp" /\ New(w).hook["glx"] /\ New(w).renderer = "none"
    OBVIOUS
  <2>1. pc[w] # "fMembers"
    BY <1>6
  <2>2. CASE pc'[w] = "dInstall" /\ lib[w] = "glx"
    <3>1. pc[w] = "dHook" /\ ~ Mine(w).hooked["glx"]
      BY <2>1, <2>2, CallerGoes, CallerMembers, StepAt
    <3>2. "glx" \notin Mine(w).detours
      BY <1>0, <1>1, <3>1 DEF Detoured, Finds, Keeps, Mine
    <3> QED
      BY <2>1, <3>1, <3>2, CallerMembers
  <2>3. CASE pc[w] = "dRecord" /\ lib[w] = "glx" /\ entry["glx"] = "detector"
    <3>1. Mine(w).hook["glx"] /\ Mine(w).renderer = "none"
      BY <2>3 DEF Detoured, Mine
    <3>2. pc'[w] # "dInstall"
      BY <2>3, CallerGoes, StepAt
    <3> QED
      BY <2>1, <2>3, <3>1, <3>2, CallerMembers, CallerOrig
  <2>4. CASE /\ ~ (pc'[w] = "dInstall" /\ lib[w] = "glx")
             /\ ~ (pc[w] = "dRecord" /\ lib[w] = "glx" /\ entry["glx"] = "detector")
    <3>1. "glx" \in Mine(w).detours
      <4>1. CASE pc[w] = "dRecord"
        <5>1. New(w).detours = IF entry[lib[w]] = "detector" THEN Mine(w).detours \cup {lib[w]}
                                                             ELSE Mine(w).detours
          BY <2>1, <4>1, CallerMembers
        <5> QED
          BY <2>4, <4>1, <5>1
      <4>2. CASE pc[w] # "dRecord"
        BY <2>1, <2>4, <4>2, CallerMembers
      <4> QED
        BY <4>1, <4>2
    <3>2. pc[w] # "xDelete"
      BY <3>1 DEF Detoured, Mine
    <3>3. Mine(w).orig["glx"] = "tramp" /\ Mine(w).hook["glx"] /\ Mine(w).renderer = "none"
      BY <1>1, <3>1 DEF Detoured, Mine
    <3>4. New(w).orig["glx"] = Mine(w).orig["glx"]
      BY <2>1, <2>4, CallerOrig
    <3>5. New(w).hook["glx"] = Mine(w).hook["glx"] /\ New(w).renderer = Mine(w).renderer
      BY <2>1, <2>4, <3>2, CallerMembers
    <3> QED
      BY <3>3, <3>4, <3>5
  <2> QED
    BY <2>2, <2>3, <2>4
<1>8. ASSUME NEW i \in 1 .. MaxInst, "glx" \in det'[i].detours
      PROVE  det'[i].orig["glx"] = "tramp" /\ det'[i].hook["glx"] /\ det'[i].renderer = "none"
  BY <1>3, <1>4, <1>7, <1>8 DEF Bare, New
<1>9. pc'[w] = "dRecord" => Install(w)
  BY CallerGoes
<1>10. /\ pc'[w] \in {"dInstall", "dRecord"} /\ lib'[w] = "glx" =>
             New(w).hook["glx"] /\ New(w).renderer = "none"
       /\ pc'[w] = "dRecord" /\ lib'[w] = "glx" => entry'["glx"] = "detector"
       /\ pc'[w] = "xDelete" => New(w).detours = {}
  <2>1. CASE pc'[w] = "dInstall"
    <3>1. HookLibrary(w) /\ pc[w] = "dHook" /\ UNCHANGED lib
      BY <1>0, <2>1, CallerGoes, StepAt, Zenon DEF HookLibrary, NextLibrary, Goto, Places, Threads
    <3>2. lib[w] = "glx" => ~ Mine(w).done /\ ~ Mine(w).hooked["glx"] /\ New(w).hook["glx"]
                            /\ New(w).renderer = Mine(w).renderer
      BY <2>1, <3>1, CallerMembers
    <3>3. Mine(w).renderer = "none" \/ Mine(w).done \/ Mine(w).hooked["glx"]
      BY <1>0, <1>1 DEF GLRenderers, Finds, Found, Mine
    <3> QED
      BY <2>1, <3>1, <3>2, <3>3
  <2>2. CASE pc'[w] = "dRecord"
    <3>1. Install(w) /\ pc[w] = "dInstall" /\ UNCHANGED lib
      BY <1>9, <2>2, StepAt DEF Install
    <3>2. lib[w] = "glx" => New(w).hook["glx"] /\ New(w).renderer = "none"
      <4>1. New(w).hook["glx"] = Mine(w).hook["glx"] /\ New(w).renderer = Mine(w).renderer
        BY <2>2, <3>1, CallerMembers
      <4> QED
        BY <3>1, <4>1 DEF Detoured, Mine
    <3>3. lib[w] = "glx" => entry'["glx"] = "detector"
      BY <1>0, <3>1 DEF Install, Patchable, Redirect
    <3> QED
      BY <2>2, <3>1, <3>2, <3>3
  <2>3. CASE pc'[w] = "xDelete"
    BY <2>3, CallerGoes, CallerMembers
  <2> QED
    BY <2>1, <2>2, <2>3
<1>11. ASSUME NEW g \in GameThreads, pc'[g] = "hRenderer", self[g] \notin freed'
       PROVE  det'[self[g]].detours = {}
  <2>1. pc[g] = "hRenderer" /\ self[g] \notin freed /\ g # w /\ self[g] \in 1 .. MaxInst
    BY <1>0, <1>2, <1>5, <1>11 DEF Threads, Objects
  <2>2. det[self[g]].detours = {} /\ det[self[g]].lock = g
    BY <2>1 DEF Detoured, Locked, LockedPresent
  <2>3. CASE self[g] = self[w]
    <3>1. pc[w] # "dRecord"
      BY <2>1, <2>2, <2>3 DEF Locked, LockedCaller
    <3>2. New(w).detours \in {{}, Mine(w).detours}
      BY <1>6, <3>1, CallerMembers
    <3> QED
      BY <2>2, <2>3, <3>2 DEF Mine, New
  <2> QED
    BY <1>3, <2>1, <2>2, <2>3
<1>12. \A x \in Workers : x # w => pc'[x] = "out"
  BY <1>1, <1>2 DEF Threads
<1> QED
  BY <1>1, <1>8, <1>10, <1>11, <1>12 DEF Detoured, New

\* Only the unhooking of the detours changes where a present call lands.
LEMMA PresentEntry ==
  ASSUME NEW g \in GameThreads, PresentStep(g), pc[g] # "hUnhook"
  PROVE  UNCHANGED entry
<1>1. CASE HandOffRestore(g)
  BY <1>1, Zenon DEF HandOffRestore, RestorePatches
<1>2. CASE PresentLock(g) \/ PresentCall(g) \/ PresentCheck(g)
  BY <1>2, Zenon DEF PresentLock, PresentCall, PresentCheck, redirects
<1>3. CASE HandOffRenderer(g) \/ HandOffDone(g) \/ PresentLeave(g)
  BY <1>3, Zenon DEF HandOffRenderer, HandOffDone, PresentLeave, redirects
<1> QED
  BY <1>1, <1>2, <1>3, PresentAt DEF PresentStep

\* A present's step keeps the detours and the redirections together.
LEMMA PresentDetoured ==
  ASSUME OpenGLGame, Types, Control, Locked, Spare, Detoured, NEW g \in GameThreads, PresentStep(g)
  PROVE  Detoured'
<1>0. /\ Places /\ Objects /\ DetOK /\ "glx" \in APIs /\ NoThread \notin Threads
      /\ GameThreads \cap Workers = {} /\ g \in Threads
      /\ entry \in [APIs -> {"driver", "detector", "hook"}]
  BY ThreadAssumption DEF Types, APIs, Threads, Values
<1>1. /\ self[g] \in 1 .. MaxInst /\ self[g] \notin freed
      /\ UNCHANGED <<self, freed, lib>>
  BY <1>0, PresentMoves, PresentKeeps, PresentLocks DEF Objects
<1>2. \A t \in Threads : t # g => pc'[t] = pc[t]
  BY <1>0, PresentMoves DEF Goto, Places
<1>3. \A i \in 1 .. MaxInst : i # self[g] => det'[i] = det[i]
  BY PresentDet DEF Types
<1>4. pc[g] \in LockedPresent => det[self[g]].lock = g
  BY <1>1 DEF Locked
<1>5. New(g).detours \in {{}, Mine(g).detours}
  BY PresentMembers
<1>6. ASSUME NEW i \in 1 .. MaxInst, "glx" \in det'[i].detours
      PROVE  det'[i].orig["glx"] = "tramp" /\ det'[i].hook["glx"] /\ det'[i].renderer = "none"
  <2>1. CASE i = self[g]
    <3>1. "glx" \in Mine(g).detours
      BY <1>5, <1>6, <2>1 DEF New
    <3>2. pc[g] # "hRenderer"
      BY <1>1, <3>1 DEF Detoured, Mine
    <3>3. /\ New(g).hook["glx"] = Mine(g).hook["glx"] /\ New(g).renderer = Mine(g).renderer
          /\ New(g).orig["glx"] = Mine(g).orig["glx"]
      BY <3>2, PresentMembers, PresentOrig
    <3> QED
      BY <1>1, <2>1, <3>1, <3>3 DEF Detoured, Mine, New
  <2>2. CASE i # self[g]
    BY <1>3, <1>6, <2>2 DEF Detoured
  <2> QED
    BY <2>1, <2>2
<1>7. ASSUME NEW w \in Workers
      PROVE  /\ pc'[w] \in {"dInstall", "dRecord"} /\ lib[w] = "glx" =>
                   det'[self[w]].hook["glx"] /\ det'[self[w]].renderer = "none"
             /\ pc'[w] = "dRecord" /\ lib[w] = "glx" => entry'["glx"] = "detector"
             /\ pc'[w] = "xDelete" => det'[self[w]].detours = {}
  <2>1. pc'[w] = pc[w] /\ w # g /\ w \in Threads
    BY <1>0, <1>2 DEF Threads
  <2>2. pc[w] # "out" => self[w] \in 1 .. MaxInst
    BY <1>0, <2>1 DEF Objects
  <2>3. CASE self[w] = self[g]
    <3>1. pc[w] \in {"dInstall", "dRecord"} => pc[g] \notin {"hRenderer", "hUnhook"}
      BY <1>4, <2>1, <2>3 DEF Locked, LockedCaller, LockedPresent
    <3>2. pc[w] \in {"dInstall", "dRecord"} =>
             /\ New(g).hook["glx"] = Mine(g).hook["glx"] /\ New(g).renderer = Mine(g).renderer
             /\ UNCHANGED entry
      <4>1. pc[g] # "hUnhook" => UNCHANGED entry
        BY PresentEntry
      <4>2. pc[g] # "hRenderer" =>
               New(g).hook["glx"] = Mine(g).hook["glx"] /\ New(g).renderer = Mine(g).renderer
        BY PresentMembers
      <4> QED
        BY <3>1, <4>1, <4>2
    <3> QED
      BY <1>5, <2>1, <2>3, <3>2 DEF Detoured, Mine, New
  <2>4. CASE self[w] # self[g]
    <3>1. pc[w] # "out" => det'[self[w]] = det[self[w]]
      BY <1>3, <2>2, <2>4
    <3>2. pc[w] = "dRecord" => UNCHANGED entry
      <4>1. SUFFICES ASSUME pc[w] = "dRecord" PROVE UNCHANGED entry
        OBVIOUS
      <4>2. Mine(g).detours = {}
        BY <1>1, <2>4, <4>1, ActiveIsOne DEF Spare, Uses, Bare, Mine
      <4>3. CASE pc[g] = "hUnhook"
        BY <1>0, <4>2, <4>3, PresentAt, Zenon DEF HandOffUnhook, UnhookAll, Redirect
      <4>4. CASE pc[g] # "hUnhook"
        BY <4>4, PresentEntry
      <4> QED
        BY <4>3, <4>4
    <3> QED
      BY <2>1, <3>1, <3>2 DEF Detoured
  <2> QED
    BY <2>3, <2>4
<1>8. ASSUME NEW h \in GameThreads, pc'[h] = "hRenderer", self[h] \notin freed
      PROVE  det'[self[h]].detours = {}
  <2>1. CASE h = g
    <3>1. pc'[g] = "hRenderer" => pc[g] = "hUnhook" \/ (pc[g] = "hRenderer" /\ pc' = pc)
      BY <1>0 DEF PresentStep, PresentLock, PresentCall, PresentCheck, HandOffRestore,
         RestorePatches, HandOffUnhook, UnhookAll, HandOffRenderer, HandOffDone, PresentLeave,
         Within, At, Goto, Places
    <3>2. pc[g] = "hRenderer" => Mine(g).detours = {}
      BY <1>1 DEF Detoured, Mine
    <3> QED
      BY <1>5, <1>8, <2>1, <3>1, <3>2, PresentMembers DEF New
  <2>2. CASE h # g
    <3>1. /\ pc[h] = "hRenderer" /\ self[h] \in 1 .. MaxInst /\ det[self[h]].detours = {}
      BY <1>0, <1>2, <1>8, <2>2 DEF Threads, Objects, Detoured
    <3> QED
      BY <1>3, <1>5, <3>1 DEF New, Mine
  <2> QED
    BY <2>1, <2>2
<1> QED
  BY <1>1, <1>6, <1>7, <1>8 DEF Detoured

\* A detector that recorded a detour holds the only redirection of OpenGL's
\* presents.
LEMMA DetouredStep ==
  ASSUME OpenGLGame, OneController, Types, Control, Held, Locked, GLRenderers, GLGiven, Spare, Finds,
         HandOver, Detoured, [Next]_vars
  PROVE  Detoured'
<1>0. "glx" \in APIs /\ entry \in [APIs -> {"driver", "detector", "hook"}]
  BY DEF Types, APIs, Values
<1>1. ASSUME UNCHANGED <<det, pc, self, lib, freed>>,
             (\A w \in Workers : pc[w] = "dRecord" /\ lib[w] = "glx" /\ entry["glx"] = "detector"
                                 => entry'["glx"] = "detector")
      PROVE  Detoured'
  BY <1>1 DEF Detoured
<1>2. ASSUME NEW t \in Threads, NEW to \in {"dLock", "sLock", "gLock", "fStop", "pLock"},
             TakeInst(t, to), UNCHANGED <<det, lib, freed, entry>>, pc[t] = "out"
      PROVE  Detoured'
  <2>1. /\ \A x \in Threads : x # t => pc'[x] = pc[x] /\ self'[x] = self[x]
        /\ pc'[t] = to
    BY <1>2 DEF TakeInst, Goto, Types, Places, Objects
  <2> QED
    BY <1>2, <2>1 DEF Detoured, Threads
<1>3. ASSUME NEW w \in Workers, Begin(w)
      PROVE  Detoured'
  BY <1>3, <1>2, Begins DEF Types, Threads, redirects
<1>4. ASSUME NEW g \in GameThreads, Present(g)
      PROVE  Detoured'
  BY <1>4, <1>2 DEF Present, At, Threads, redirects
<1>5. ASSUME NEW w \in Workers, Between(w)
      PROVE  Detoured'
  <2>1. pc[w] = "out" /\ Active(w)
    BY <1>5, Betweens DEF Active
  <2>2. \A x \in Workers : pc[x] = "out"
    BY <2>1, ActiveIsOne
  <2> QED
    BY <1>1, <1>5, <2>2, Betweens DEF coreVars
<1>6. ASSUME NEW g \in GameThreads, Frame(g)
      PROVE  Detoured'
  BY <1>6, <1>1, Frames DEF frameFrame, redirects
<1>7. ASSUME NEW c \in Controllers, Controller(c)
      PROVE  Detoured'
  <2>1. entry["glx"] = "detector" => entry'["glx"] = "detector"
    <3>1. CASE StopUnhook(c)
      BY <1>0, <3>1 DEF StopUnhook, Redirect
    <3>2. CASE UNCHANGED entry
      BY <3>2
    <3> QED
      BY <1>7, <3>1, <3>2 DEF Controller, StartExchange, StartClear, StartSpawn, StopExchange,
         StopSignal, StopJoin, StopTake, StopNotify, StopFree, StopReturn, detVars, redirects
  <2> QED
    BY <1>1, <1>7, <2>1, Controls DEF coreVars
<1>8. CASE Idle
  BY <1>1, <1>8, Idles DEF redirects
<1> QED
  BY <1>3, <1>4, <1>5, <1>6, <1>7, <1>8, NextSteps, CallerDetoured, PresentDetoured

-----------------------------------------------------------------------------
(* The invariants of an OpenGL game.                                       *)

\* Everything that relates the worker, the controller, the detector and the
\* hook object of a game that presents with OpenGL.
BInv == /\ GInv /\ Locked
        /\ GLRenderers /\ GLGiven
        /\ HandOver /\ Detoured

\* The invariants hold at first.
LEMMA BInvInit ==
  ASSUME Init
  PROVE  BInv
<1>1. GInv
  BY GInvInit
<1>2. Locked
  BY DetectorInitially DEF Locked, LockedCaller, ExitPlaces, LockedPresent
<1>3. GLRenderers
  BY DetectorInitially DEF GLRenderers, Bare
<1>4. GLGiven
  BY DetectorInitially DEF GLGiven, Init, BridgeInit
<1>5. HandOver
  BY DetectorInitially DEF HandOver, Handing, Anew, HandPlaces
<1>6. Detoured
  BY DetectorInitially DEF Detoured, Bare
<1> QED
  BY <1>1, <1>2, <1>3, <1>4, <1>5, <1>6 DEF BInv

\* The invariants are inductive.
LEMMA BInvStep ==
  ASSUME OneController, OpenGLGame, BInv, [Next]_vars
  PROVE  BInv'
<1> USE DEF BInv
<1>1. GInv' /\ Types /\ Types' /\ Control /\ Held /\ Held' /\ Spare /\ Finds
  BY GInvStep DEF GInv, CInv
<1>2. Locked'
  BY <1>1, LockedStep
<1>3. GLRenderers' /\ GLGiven'
  BY <1>1, RenderersStep, GivenStep
<1>4. HandOver'
  BY <1>1, HandOverStep
<1>5. Detoured'
  BY <1>1, DetouredStep
<1> QED
  BY <1>1, <1>2, <1>3, <1>4, <1>5

\* The invariants of all layers hold throughout.
THEOREM BridgeInvariant ==
  ASSUME OneController, OpenGLGame
  PROVE  Spec => []BInv
BY BInvInit, BInvStep, PTL DEF Spec

-----------------------------------------------------------------------------

(* The process does not end before somebody calls stop.                    *)

OneGame == \A g, h \in GameThreads : g = h

\* The detection has ended with the renderer.
Over(i) == det[i].renderer = "glx" /\ det[i].done

LatePlaces == {"get", "got", "own", "start", "startSaved", "free"}

DetourPlaces == {"pLock", "pCall", "pCheck", "hRestore", "hUnhook"}

Calm == ~ g_stop /\ \A c \in Controllers : cpc[c] \notin StopPlaces

\* Only the current detector ends its detection, or one being destroyed.
Known == \A i \in 1 .. MaxInst : det[i].done =>
    i = instance \/ \E w \in Workers : pc[w] = "fMembers" /\ self[w] = i

\* The worker is about to start a detection anew.
Searching(w) == \/ wpc[w] = "poll" /\ pc[w] = "out"
                \/ wpc[w] = "polled" /\ pc[w] \in {"dLock", "dEnter", "dReset"}

\* A detection that ended with nothing is started anew.
Renewed == \A i \in 1 .. MaxInst : det[i].done /\ det[i].renderer = "none" =>
    \E w \in Workers : Searching(w)

\* The worker leaves the detection with a renderer only.
Succeeded == \A w \in Workers :
    /\ wpc[w] # "giveUp"
    /\ wpc[w] = "got" /\ pc[w] = "out" => ret[w] = "glx"
    /\ \/ wpc[w] \in LatePlaces
       \/ wpc[w] = "polled" /\ pc[w] = "out" /\ ret[w] = "done"
       => instance # 0 /\ Over(instance)
    /\ pc[w] \in ExitPlaces \cup FreePlaces => Over(self[w])

\* What a game thread relies on inside the detector.
Inside == \A g \in GameThreads :
    /\ pc[g] # "out" => self[g] = instance
    /\ pc[g] \in DetourPlaces =>
          \/ "glx" \in det[self[g]].detours
          \/ \E w \in Workers : pc[w] = "dRecord" /\ lib[w] = "glx" /\ self[w] = self[g]
    /\ pc[g] = "hRenderer" => det[self[g]].hook["glx"]
    /\ pc[g] = "hDone" => det[self[g]].renderer = "glx"
    /\ pc[g] # "out" => \A w \in Workers : pc[w] \notin {"fDelete", "fMembers"}

\* What it relies on inside the hook.
Drawing ==
    /\ hookObj["glx"].alive => hookObj["glx"].orig # "null"
    /\ hookObj["glx"].orig = "tramp" => entry["glx"] = "hook"
    /\ \A g \in GameThreads : fpc[g] # "out" => entry["glx"] = "hook"

Early == Calm /\ Known /\ Renewed /\ Succeeded /\ Inside /\ Drawing /\ fault = "none"

Young == stops = 0 => Early

\* What a worker's step leaves alone.
LEMMA CallerAround ==
  ASSUME BInv, NEW w \in Workers, CallerStep(w)
  PROVE  /\ pc[w] # "out" /\ pc[w] \in CallerPlaces /\ self[w] \in 1 .. MaxInst
         /\ UNCHANGED self /\ Active(w)
         /\ \A x \in Workers : x # w => ~ Active(x) /\ pc[x] = "out" /\ pc'[x] = "out"
         /\ \A g \in GameThreads : pc'[g] = pc[g] /\ g # w
         /\ \A i \in 1 .. MaxInst : i # self[w] => det'[i] = det[i]
         /\ pc[w] # "fMembers" => self[w] = instance
         /\ self[w] \notin freed /\ instance \notin freed
<1> USE DEF BInv, GInv, CInv
<1>0. GameThreads \cap Workers = {} /\ Places /\ Objects /\ DetOK /\ w \in Threads
  BY ThreadAssumption DEF Types, Threads
<1>1. pc[w] # "out" /\ pc[w] \in CallerPlaces /\ self[w] \in 1 .. MaxInst /\ UNCHANGED self
  BY <1>0, CallerMoves, CallerKeeps DEF Moves, Objects
<1>2. Active(w)
  BY <1>1 DEF Types, Calls, Active
<1>3. \A x \in Workers : x # w => ~ Active(x) /\ pc[x] = "out"
  BY <1>1, ActiveIsOne
<1>4. \A t \in Threads : t # w => pc'[t] = pc[t]
  BY <1>0, CallerMoves DEF Moves, Goto, Places
<1>5. \A i \in 1 .. MaxInst : i # self[w] => det'[i] = det[i]
  BY <1>0, CallerDet DEF Types, Values
<1> QED
  BY <1>0, <1>1, <1>2, <1>3, <1>4, <1>5 DEF Threads, Held

\* A detection that has ended with the renderer stays so until its detector
\* is destroyed.
LEMMA CallerOver ==
  ASSUME BInv, NEW w \in Workers, CallerStep(w), NEW i \in 1 .. MaxInst, Over(i)
  PROVE  Over(i)' \/ (pc[w] = "fMembers" /\ i = self[w])
<1>1. CASE i # self[w]
  BY <1>1, CallerAround DEF Over
<1>2. CASE i = self[w]
  <2>1. SUFFICES ASSUME pc[w] # "fMembers" PROVE Over(i)'
    BY <1>2
  <2>2. Mine(w).renderer = "glx" /\ Mine(w).done
    BY <1>2 DEF Over, Mine
  <2>3. pc[w] # "dReset"
    BY <2>2 DEF BInv, GInv, HandOver, Anew, Mine
  <2>4. New(w).renderer = "glx"
    BY <2>1, <2>2, CallerMembers DEF BInv, GInv, CInv
  <2>5. New(w).done
    <3>1. New(w).done = IF pc[w] = "dReset" THEN FALSE
                        ELSE IF pc[w] \in {"xDone", "sLock", "fStop"} THEN TRUE
                        ELSE Mine(w).done
      BY <2>1, CallerMembers DEF BInv, GInv, CInv
    <3> QED
      BY <2>2, <2>3, <3>1
  <2> QED
    BY <1>2, <2>4, <2>5, CallerAround DEF Over, New
<1> QED
  BY <1>1, <1>2

\* A worker's step ends the detection of the current detector only.
LEMMA KnownCaller ==
  ASSUME BInv, BInv', Known, NEW w \in Workers, CallerStep(w)
  PROVE  Known'
<1> SUFFICES ASSUME NEW i \in 1 .. MaxInst, det'[i].done
             PROVE  i = instance' \/ \E x \in Workers : pc'[x] = "fMembers" /\ self'[x] = i
  BY DEF Known
<1>1. CASE i # self[w]
  <2>1. det[i].done
    BY <1>1, CallerAround
  <2>2. \A x \in Workers : pc[x] = "fMembers" => x = w
    BY CallerAround
  <2>3. i = instance /\ pc[w] = "fMembers"
    BY <1>1, <2>1, <2>2, CallerAround DEF Known
  <2> QED
    BY <2>3, CallerFrees
<1>2. CASE i = self[w]
  <2>1. CASE pc'[w] # "out"
    <3>1. (pc'[w] = "fMembers") <=> (self'[w] # instance')
      BY <2>1 DEF BInv, GInv, Held
    <3> QED
      BY <1>2, <3>1, CallerAround
  <2>2. CASE pc'[w] = "out"
    <3>1. pc[w] # "fMembers"
      <4>1. SUFFICES ASSUME pc[w] = "fMembers" PROVE FALSE
        OBVIOUS
      <4>2. New(w) = NewDetector
        BY <4>1, CallerMembers DEF BInv, GInv, CInv
      <4> QED
        BY <1>2, <4>2, CallerAround DEF New, NewDetector
    <3>2. pc[w] # "fDelete"
      BY <2>2, CallerGoes DEF BInv, GInv, CInv
    <3> QED
      BY <1>2, <3>1, <3>2, CallerAround, CallerFrees
  <2> QED
    BY <2>1, <2>2
<1> QED
  BY <1>1, <1>2

\* A worker that finds the detection ended without a renderer starts it anew.
LEMMA RenewedCaller ==
  ASSUME BInv, Known, Renewed, Succeeded, NEW w \in Workers, CallerStep(w), UNCHANGED wpc
  PROVE  Renewed'
<1> SUFFICES ASSUME NEW i \in 1 .. MaxInst, det'[i].done, det'[i].renderer = "none"
             PROVE  Searching(w)'
  BY DEF Renewed, Searching
<1>1. ASSUME det[i].done, det[i].renderer = "none"
      PROVE  Searching(w) /\ pc[w] \in {"dLock", "dEnter", "dReset"} /\ i = self[w]
             /\ wpc[w] = "polled" /\ restart[w]
  <2>1. PICK x \in Workers : Searching(x)
    BY <1>1 DEF Renewed
  <2>2. x = w
    BY <2>1, CallerAround DEF Searching, Active
  <2>3. pc[w] \in {"dLock", "dEnter", "dReset"} /\ wpc[w] = "polled"
    BY <2>1, <2>2, CallerAround DEF Searching
  <2>4. i = self[w]
    BY <1>1, <2>3, CallerAround DEF Known
  <2> QED
    BY <2>1, <2>2, <2>3, <2>4 DEF BInv, GInv, CInv, Types, Calls
<1>2. CASE i # self[w]
  BY <1>1, <1>2, CallerAround
<1>3. CASE i = self[w]
  <2>1. New(w).done /\ New(w).renderer = "none"
    BY <1>3, CallerAround DEF New
  <2>2. pc[w] # "fMembers"
    <3>1. pc[w] = "fMembers" => New(w) = NewDetector
      BY CallerMembers DEF BInv, GInv, CInv
    <3> QED
      BY <2>1, <3>1 DEF NewDetector
  <2>3. /\ Mine(w).renderer = "none"
        /\ New(w).done = IF pc[w] = "dReset" THEN FALSE
                         ELSE IF pc[w] \in {"xDone", "sLock", "fStop"} THEN TRUE
                         ELSE Mine(w).done
    BY <2>1, <2>2, CallerMembers DEF BInv, GInv, CInv
  <2>4. pc[w] \notin {"dReset", "xDone", "fStop"}
    BY <2>1, <2>3 DEF Succeeded, ExitPlaces, FreePlaces, Over, Mine
  <2>5. CASE pc[w] = "sLock"
    <3>1. wpc[w] \in {"poll", "free"}
      BY <2>5 DEF BInv, GInv, CInv, Types, Calls, DetectPlaces, PassPlaces, ExitPlaces, FreePlaces
    <3>2. wpc[w] # "free"
      BY <2>3, <2>5, CallerAround DEF Succeeded, LatePlaces, Over, Mine
    <3>3. pc'[w] = "out"
      BY <2>5, CallerMoves DEF Moves, Goto, BInv, GInv, CInv, Types, Places, Threads
    <3> QED
      BY <3>1, <3>2, <3>3 DEF Searching
  <2>6. CASE pc[w] # "sLock"
    <3>1. det[i].done /\ det[i].renderer = "none"
      BY <1>3, <2>1, <2>3, <2>4, <2>6 DEF Mine
    <3>2. pc[w] \in {"dLock", "dEnter"} /\ wpc[w] = "polled" /\ restart[w]
      BY <1>1, <2>4, <3>1
    <3>3. CASE pc[w] = "dLock"
      <4>1. DetectLock(w)
        BY <3>3, StepAt DEF CallerStep, LibraryLock, Acquire, SkipLibrary, Install, Decide,
           Within, At
      <4> QED
        BY <3>2, <4>1 DEF DetectLock, Acquire, Goto, Searching, BInv, GInv, CInv, Types, Places, Threads
    <3>4. CASE pc[w] = "dEnter"
      <4>1. DetectEnter(w)
        BY <3>4, StepAt
      <4> QED
        BY <1>3, <3>1, <3>2, <4>1 DEF DetectEnter, Goto, Searching, Mine, BInv, GInv, CInv, Types,
           Places, Threads
    <3> QED
      BY <3>2, <3>3, <3>4
  <2> QED
    BY <2>5, <2>6
<1> QED
  BY <1>2, <1>3

\* How a worker comes to end a detection.
LEMMA CallerEnds ==
  ASSUME BInv, NEW w \in Workers, CallerStep(w), pc'[w] \in ExitPlaces \cup FreePlaces
  PROVE  \/ pc[w] \in (ExitPlaces \cup FreePlaces) \ {"fMembers"}
         \/ /\ pc[w] \in {"dEnter", "dDecide"} /\ Mine(w).done
            /\ pc[w] = "dEnter" => Mine(w).renderer # "none" \/ ~ restart[w]
<1>0. Places /\ w \in Threads
  BY DEF BInv, GInv, CInv, Types, Threads
<1> USE DEF ExitPlaces, FreePlaces, Goto, Places, Within, At
<1>1. CASE DetectEnter(w)
  BY <1>0, <1>1 DEF DetectEnter
<1>2. CASE Decide(w)
  BY <1>0, <1>2 DEF Decide
<1>3. CASE ExitRestore(w) \/ ExitUnhook(w) \/ FreeStop(w) \/ FreeDelete(w)
  BY <1>3 DEF ExitRestore, ExitUnhook, FreeStop, StopDetection, FreeDelete
<1>4. CASE \/ DetectLock(w) \/ DetectReset(w) \/ SkipLibrary(w) \/ LibraryLock(w)
           \/ HookLibrary(w) \/ Install(w) \/ Record(w) \/ FinishLock(w) \/ ExitDelete(w)
           \/ Stop(w) \/ Get(w) \/ FreeMembers(w)
  BY <1>0, <1>4, Zenon DEF DetectLock, Acquire, DetectReset, SkipLibrary, NextLibrary, LibraryLock,
     HookLibrary, Install, Record, FinishLock, ExitDelete, Stop, StopDetection, Get,
     FreeMembers, UnhookAll
<1> QED
  BY <1>1, <1>2, <1>3, <1>4 DEF CallerStep

\* Before a stop, a worker leaves the detection with the renderer.
LEMMA SucceededCaller ==
  ASSUME BInv, Known, Renewed, Succeeded, NEW w \in Workers, CallerStep(w), UNCHANGED wpc
  PROVE  Succeeded'
<1>0. Places /\ w \in Threads /\ ret \in [Callers -> Results]
  BY DEF BInv, GInv, CInv, Types, Threads, Values
<1>1. \A x \in Workers : x # w =>
        wpc[x] \notin LatePlaces \cup {"polled", "got", "giveUp"} /\ pc'[x] = "out"
  BY CallerAround DEF Active, LatePlaces
<1>2. wpc[w] # "giveUp"
  BY DEF Succeeded
<1>3. wpc[w] \in LatePlaces => instance' # 0 /\ Over(instance)'
  <2>1. SUFFICES ASSUME wpc[w] \in LatePlaces
                 PROVE  instance' # 0 /\ Over(instance)'
    OBVIOUS
  <2>2. instance # 0 /\ Over(instance)
    BY <2>1 DEF Succeeded
  <2>3. pc[w] \in {"gLock", "sLock"}
    BY <2>1, CallerAround DEF BInv, GInv, CInv, Types, Calls, LatePlaces
  <2>4. UNCHANGED instance
    BY <2>3, CallerFrees
  <2>5. self[w] = instance /\ instance \in 1 .. MaxInst
    BY <2>3, CallerAround
  <2>6. \A i \in 1 .. MaxInst : Over(i) => Over(i)'
    BY <2>3, CallerOver
  <2> QED
    BY <2>2, <2>4, <2>5, <2>6 DEF Over
<1>4. wpc[w] = "got" /\ pc'[w] = "out" => ret'[w] = "glx"
  <2>1. SUFFICES ASSUME wpc[w] = "got" PROVE ret'[w] = "glx"
    OBVIOUS
  <2>2. pc[w] = "gLock"
    BY <2>1, CallerAround DEF BInv, GInv, CInv, Types, Calls
  <2>3. Get(w) /\ self[w] = instance /\ Over(instance)
    BY <2>1, <2>2, StepAt, CallerAround DEF Succeeded, LatePlaces
  <2> QED
    BY <1>0, <2>3 DEF Get, Over, Mine
<1>5. pc'[w] \in ExitPlaces \cup FreePlaces => Over(self[w])'
  <2>1. SUFFICES ASSUME pc'[w] \in ExitPlaces \cup FreePlaces PROVE Over(self[w])'
    OBVIOUS
  <2>2. Over(self[w]) /\ pc[w] # "fMembers"
    <3>1. CASE pc[w] \in (ExitPlaces \cup FreePlaces) \ {"fMembers"}
      BY <3>1 DEF Succeeded
    <3>2. CASE /\ pc[w] \in {"dEnter", "dDecide"} /\ Mine(w).done
               /\ pc[w] = "dEnter" => Mine(w).renderer # "none" \/ ~ restart[w]
      <4>1. Mine(w).renderer # "none"
        <5>1. SUFFICES ASSUME Mine(w).renderer = "none" PROVE FALSE
          OBVIOUS
        <5>2. PICK x \in Workers : Searching(x)
          BY <3>2, <5>1, CallerAround DEF Renewed, Mine
        <5>3. x = w
          BY <5>2, CallerAround DEF Searching, Active
        <5>4. pc[w] = "dEnter" /\ wpc[w] = "polled"
          BY <3>2, <5>2, <5>3 DEF Searching
        <5>5. restart[w]
          BY <5>4 DEF BInv, GInv, CInv, Types, Calls
        <5> QED
          BY <3>2, <5>1, <5>4, <5>5
      <4>2. Mine(w).renderer = "glx"
        BY <4>1, CallerAround DEF BInv, GInv, GLRenderers, Mine
      <4> QED
        BY <3>2, <4>2 DEF Over, Mine
    <3> QED
      BY <2>1, <3>1, <3>2, CallerEnds
  <2>3. \A i \in 1 .. MaxInst : Over(i) => Over(i)'
    BY <2>2, CallerOver
  <2>4. self'[w] = self[w] /\ self[w] \in 1 .. MaxInst
    BY CallerAround
  <2> QED
    BY <2>2, <2>3, <2>4 DEF Over
<1>6. wpc[w] = "polled" /\ pc'[w] = "out" /\ ret'[w] = "done"
      => instance' # 0 /\ Over(instance)'
  <2>1. SUFFICES ASSUME wpc[w] = "polled", pc'[w] = "out", ret'[w] = "done"
                 PROVE  instance' # 0 /\ Over(instance)'
    OBVIOUS
  <2>2. pc[w] \in DetectPlaces
    BY <2>1, CallerAround DEF BInv, GInv, CInv, Types, Calls
  <2>3. pc[w] = "xDelete"
    <3>1. ~ Decide(w)
      BY <1>0, <2>1, <2>2 DEF Decide, Goto, Places, Within, At, Results
    <3>2. ~ (Stop(w) \/ Get(w) \/ FreeStop(w) \/ FreeDelete(w) \/ FreeMembers(w))
      BY <2>2 DEF Stop, Get, FreeStop, StopDetection, FreeDelete, FreeMembers, Within, At,
         DetectPlaces, PassPlaces, ExitPlaces
    <3>3. ~ (\/ DetectLock(w) \/ DetectReset(w) \/ SkipLibrary(w) \/ LibraryLock(w)
             \/ HookLibrary(w) \/ Install(w) \/ Record(w) \/ FinishLock(w)
             \/ DetectEnter(w) \/ ExitRestore(w) \/ ExitUnhook(w))
      BY <1>0, <2>1, Zenon DEF DetectLock, Acquire, DetectReset, SkipLibrary, NextLibrary,
         LibraryLock, HookLibrary, Install, Record, FinishLock, DetectEnter, ExitRestore,
         RestorePatches, ExitUnhook, UnhookAll, Goto, Places
    <3> QED
      BY <3>1, <3>2, <3>3, StepAt DEF CallerStep
  <2>4. UNCHANGED instance /\ self[w] = instance /\ Over(instance) /\ instance \in 1 .. MaxInst
    BY <2>3, CallerFrees, CallerAround DEF Succeeded, ExitPlaces
  <2>5. \A i \in 1 .. MaxInst : Over(i) => Over(i)'
    BY <2>3, CallerOver
  <2> QED
    BY <2>4, <2>5 DEF Over
<1>7. ASSUME NEW x \in Workers, x # w
      PROVE  /\ wpc'[x] # "giveUp" /\ wpc'[x] \notin LatePlaces
             /\ wpc'[x] \notin {"got", "polled"} /\ pc'[x] = "out"
  BY <1>1, <1>7
<1>8. "out" \notin ExitPlaces \cup FreePlaces
  BY DEF ExitPlaces, FreePlaces
<1> QED
  BY <1>2, <1>3, <1>4, <1>5, <1>6, <1>7, <1>8 DEF Succeeded

\* A worker's step keeps what presents inside the detector rely on.
LEMMA InsideCaller ==
  ASSUME BInv, Succeeded, Inside, NEW w \in Workers, CallerStep(w)
  PROVE  Inside'
<1>0. /\ Places /\ Objects
      /\ \A g \in GameThreads : pc'[g] = pc[g] /\ self'[g] = self[g] /\ g # w
  BY CallerAround DEF BInv, GInv, CInv, Types
<1>1. ASSUME NEW g \in GameThreads, pc[g] # "out"
      PROVE  /\ pc[w] \notin {"fDelete", "fMembers"} /\ UNCHANGED instance
             /\ self[g] = instance /\ self[w] = instance /\ instance \in 1 .. MaxInst
             /\ pc[g] \in LockedPresent => det[instance].lock = g /\ pc[w] \notin LockedCaller
  <2>1. pc[w] \notin {"fDelete", "fMembers"} /\ self[g] = instance
    BY <1>1 DEF Inside
  <2>2. self[w] = instance /\ instance \in 1 .. MaxInst /\ instance \notin freed
    BY <2>1, CallerAround
  <2>3. UNCHANGED instance
    BY <2>1, CallerFrees
  <2>4. pc[g] \in LockedPresent => det[instance].lock = g /\ pc[w] \notin LockedCaller
    BY <1>0, <2>1, <2>2 DEF BInv, GInv, Locked
  <2> QED
    BY <2>1, <2>2, <2>3, <2>4
<1>2. ASSUME NEW g \in GameThreads, pc[g] \in DetourPlaces
      PROVE  \/ "glx" \in det'[self[g]].detours
             \/ \E x \in Workers : pc'[x] = "dRecord" /\ lib'[x] = "glx" /\ self'[x] = self[g]
  <2>0. pc[g] # "out"
    BY <1>2 DEF DetourPlaces
  <2>1. /\ pc[w] \notin {"fDelete", "fMembers"} /\ self[g] = self[w]
    BY <1>1, <2>0
  <2>2. CASE "glx" \in Mine(w).detours
    <3>1. Mine(w).renderer = "none"
      BY <2>2, CallerAround DEF BInv, GInv, Detoured, Mine
    <3>2. pc[w] # "xUnhook"
      BY <3>1 DEF Succeeded, ExitPlaces, Over, Mine
    <3>3. New(w).detours \in {Mine(w).detours, Mine(w).detours \cup {lib[w]}}
      BY <2>1, <3>2, CallerMembers DEF BInv, GInv, CInv
    <3> QED
      BY <2>1, <2>2, <3>3 DEF New
  <2>3. CASE "glx" \notin Mine(w).detours
    <3>1. PICK x \in Workers : pc[x] = "dRecord" /\ lib[x] = "glx" /\ self[x] = self[g]
      BY <1>2, <2>1, <2>3 DEF Inside, Mine
    <3>2. pc[w] = "dRecord" /\ lib[w] = "glx"
      BY <3>1, CallerAround
    <3>3. entry["glx"] = "detector"
      BY <3>2 DEF BInv, GInv, Detoured
    <3>4. "glx" \in New(w).detours
      BY <3>2, <3>3, CallerMembers DEF BInv, GInv, CInv
    <3> QED
      BY <2>1, <3>4 DEF New
  <2> QED
    BY <2>2, <2>3
<1>3. ASSUME NEW g \in GameThreads
      PROVE  /\ pc[g] = "hRenderer" => det'[self[g]].hook["glx"]
             /\ pc[g] = "hDone" => det'[self[g]].renderer = "glx"
  <2>1. SUFFICES ASSUME pc[g] \in {"hRenderer", "hDone"}
                 PROVE  /\ pc[g] = "hRenderer" => New(w).hook["glx"]
                        /\ pc[g] = "hDone" => New(w).renderer = "glx"
                        /\ self[g] = self[w]
    BY DEF New
  <2>2. /\ pc[w] \notin {"fDelete", "fMembers"} /\ self[g] = self[w] /\ pc[w] \notin LockedCaller
    BY <1>1, <2>1 DEF LockedPresent
  <2>3. pc[w] # "xDelete"
    BY <2>2 DEF LockedCaller, ExitPlaces
  <2>4. Mine(w).hook["glx"] => New(w).hook["glx"]
    BY <2>2, <2>3, CallerMembers DEF BInv, GInv, CInv
  <2>5. New(w).renderer = Mine(w).renderer
    BY <2>2, CallerMembers DEF BInv, GInv, CInv
  <2> QED
    BY <2>1, <2>2, <2>4, <2>5 DEF Inside, Mine
<1>4. ASSUME NEW g \in GameThreads, pc[g] # "out", NEW x \in Workers
      PROVE  pc'[x] \notin {"fDelete", "fMembers"}
  <2>1. SUFFICES ASSUME x = w, pc'[w] \in {"fDelete", "fMembers"} PROVE FALSE
    BY CallerAround
  <2>2. pc[w] = "fStop"
    BY <1>1, <1>4, <2>1, CallerGoes DEF BInv, GInv, CInv
  <2>3. FreeStop(w) /\ self[g] = self[w] /\ Over(self[w])
    BY <1>1, <1>4, <2>2, StepAt DEF Succeeded, FreePlaces
  <2>4. pc[g] \in LockedPresent => det[self[w]].lock = g
    BY <1>1, <1>4, <2>3
  <2>5. NoThread \notin GameThreads
    BY ThreadAssumption DEF Threads
  <2>6. pc[g] \notin LockedPresent
    BY <2>3, <2>4, <2>5 DEF FreeStop, StopDetection, Owner, Mine
  <2>7. pc[g] = "pLock"
    BY <1>0, <1>4, <2>6 DEF Places, PresentPlaces
  <2>8. "glx" \notin det[self[g]].detours
    BY <2>3, CallerAround DEF Over, BInv, GInv, Detoured
  <2>9. PICK y \in Workers : pc[y] = "dRecord"
    BY <2>7, <2>8 DEF Inside, DetourPlaces
  <2> QED
    BY <2>2, <2>9, CallerAround
<1>5. \A g \in GameThreads : pc[g] # "out" => self[g] = instance'
  BY <1>1
<1> QED
  BY <1>0, <1>2, <1>3, <1>4, <1>5 DEF Inside

\* Before a stop, the presents that land in the hook find it.
LEMMA HookedAlive ==
  ASSUME BInv, Calm, entry["glx"] = "hook"
  PROVE  /\ g_renderer = "glx" /\ hookObj["glx"].alive
         /\ \A i \in 1 .. MaxInst : "glx" \notin det[i].detours
<1>1. g_renderer = "glx"
  BY DEF BInv, GInv, Redirected, Holds, Calm, StopPlaces, APIs
<1> QED
  BY <1>1 DEF BInv, GInv, Obtained, Released, Detoured, APIs

\* A worker's step keeps what frames in the hook rely on.
LEMMA DrawingCaller ==
  ASSUME BInv, Calm, Drawing, NEW w \in Workers, CallerStep(w), UNCHANGED fpc
  PROVE  Drawing'
<1>0. /\ "glx" \in APIs /\ entry \in [APIs -> {"driver", "detector", "hook"}]
      /\ lib[w] \in APIs /\ HooksOK
  BY DEF BInv, GInv, CInv, Types, APIs, Values
<1>1. entry["glx"] = "hook" => entry'["glx"] = "hook"
  <2>1. SUFFICES ASSUME entry["glx"] = "hook" PROVE entry'["glx"] = "hook"
    OBVIOUS
  <2>2. g_renderer = "glx" /\ \A i \in 1 .. MaxInst : "glx" \notin det[i].detours
    BY <2>1, HookedAlive
  <2>3. CASE pc[w] = "dInstall"
    <3>1. wpc[w] \in {"stopFirst", "polled"}
      BY <2>3 DEF BInv, GInv, CInv, Types, Calls, DetectPlaces, PassPlaces, FreePlaces
    <3>2. g_renderer = "none"
      BY <3>1 DEF BInv, GInv, CInv, Control
    <3> QED
      BY <2>2, <3>2
  <2>4. CASE pc[w] \in {"xUnhook", "fMembers"}
    <3>1. "glx" \notin Mine(w).detours
      BY <2>2, CallerAround DEF Mine
    <3>2. entry' = Redirect(Mine(w).detours, "driver")
      BY <2>4, StepAt, Zenon DEF ExitUnhook, FreeMembers, UnhookAll
    <3> QED
      BY <1>0, <2>1, <3>1, <3>2 DEF Redirect
  <2>5. CASE pc[w] \notin {"dInstall", "xUnhook", "fMembers"}
    BY <2>1, <2>5, StepAt, Zenon DEF CallerStep, DetectLock, LibraryLock, Acquire, DetectEnter,
       DetectReset, SkipLibrary, HookLibrary, Record, FinishLock, Decide, ExitRestore,
       RestorePatches, ExitDelete, Stop, FreeStop, StopDetection, Get, FreeDelete, redirects
  <2> QED
    BY <2>3, <2>4, <2>5
<1>2. \/ hookObj'["glx"] = hookObj["glx"]
      \/ hookObj'["glx"].orig = "raw"
      \/ ~ hookObj'["glx"].alive /\ hookObj'["glx"].orig = "null"
  <2>1. CASE HookLibrary(w)
    <3>1. CASE UNCHANGED hookObj
      BY <3>1
    <3>2. ASSUME NEW h, HookChanged(lib[w], h), h.orig = "raw"
          PROVE  hookObj'["glx"] = hookObj["glx"] \/ hookObj'["glx"].orig = "raw"
      BY <1>0, <3>2, HookChangedAt
    <3> QED
      BY <1>0, <2>1, <3>1, <3>2, HookLibraryHooks
  <2>2. CASE ExitDelete(w) \/ FreeDelete(w)
    BY <1>0, <2>2 DEF ExitDelete, FreeDelete, DeleteHooks, NoHook
  <2>3. CASE UNCHANGED hookObj
    BY <2>3
  <2> QED
    BY <2>1, <2>2, <2>3, Zenon DEF CallerStep, DetectLock, LibraryLock, Acquire, DetectEnter,
       DetectReset, SkipLibrary, Install, Record, FinishLock, Decide, ExitRestore,
       ExitUnhook, Stop, FreeStop, StopDetection, Get, FreeMembers
<1> QED
  BY <1>1, <1>2 DEF Drawing

\* What a present's step leaves alone.
LEMMA PresentAround ==
  ASSUME OneGame, OpenGLGame, BInv, Inside, NEW g \in GameThreads, PresentStep(g)
  PROVE  /\ pc[g] # "out" /\ pc[g] \in PresentPlaces
         /\ self[g] = instance /\ instance \in 1 .. MaxInst
         /\ UNCHANGED <<self, lib, instance, ret, hookObj>>
         /\ \A w \in Workers : pc'[w] = pc[w]
         /\ \A h \in GameThreads : h = g
         /\ \A i \in 1 .. MaxInst : i # self[g] => det'[i] = det[i]
         /\ pc[g] \in LockedPresent =>
               \A w \in Workers : ~ (pc[w] = "dRecord" /\ self[w] = instance)
<1> USE DEF BInv, GInv, CInv
<1>0. /\ Places /\ Objects /\ DetOK /\ g \in Threads /\ GameThreads \cap Workers = {}
      /\ \A w \in Workers : w \in Threads /\ w # g
  BY ThreadAssumption DEF Types, Threads
<1>1. pc[g] # "out" /\ pc[g] \in PresentPlaces
  BY PresentMoves
<1>2. self[g] = instance /\ instance \in 1 .. MaxInst
  BY <1>0, <1>1 DEF Inside, Objects
<1>3. \A t \in Threads : t # g => pc'[t] = pc[t]
  BY <1>0, PresentMoves DEF Goto, Places
<1>4. \A i \in 1 .. MaxInst : i # self[g] => det'[i] = det[i]
  BY <1>0, PresentDet
<1>5. pc[g] \in LockedPresent =>
        \A w \in Workers : ~ (pc[w] = "dRecord" /\ self[w] = instance)
  BY <1>0, <1>2 DEF Locked, Held, LockedCaller
<1> QED
  BY <1>0, <1>1, <1>2, <1>3, <1>4, <1>5, PresentKeeps DEF OneGame

\* Which step of a present leads to a place.
LEMMA PresentGoes ==
  ASSUME BInv, NEW g \in GameThreads, PresentStep(g)
  PROVE  /\ pc'[g] \in DetourPlaces => pc[g] \in DetourPlaces \ {"hUnhook"}
         /\ pc'[g] = "hRenderer" => pc[g] = "hUnhook"
         /\ pc'[g] = "hDone" => pc[g] = "hRenderer"
<1>0. Places /\ g \in Threads
  BY DEF BInv, GInv, CInv, Types, Threads
<1> USE DEF DetourPlaces, Goto, Places, Within, At
<1>1. CASE PresentCall(g)
  BY <1>0, <1>1 DEF PresentCall
<1>2. CASE PresentCheck(g)
  BY <1>0, <1>2 DEF PresentCheck
<1>3. CASE \/ PresentLock(g) \/ HandOffRestore(g) \/ HandOffUnhook(g) \/ HandOffRenderer(g)
           \/ HandOffDone(g) \/ PresentLeave(g)
  BY <1>0, <1>3 DEF PresentLock, HandOffRestore, RestorePatches, HandOffUnhook, UnhookAll,
     HandOffRenderer, HandOffDone, PresentLeave
<1> QED
  BY <1>1, <1>2, <1>3 DEF PresentStep

\* A detection that has ended is not ended again by a present.
LEMMA PresentOver ==
  ASSUME OneGame, OpenGLGame, BInv, Inside, NEW g \in GameThreads, PresentStep(g),
         NEW i \in 1 .. MaxInst, Over(i)
  PROVE  Over(i)'
<1>1. CASE i # self[g]
  BY <1>1, PresentAround DEF Over
<1>2. CASE i = self[g]
  <2>1. pc[g] # "hRenderer"
    <3>1. SUFFICES ASSUME pc[g] = "hRenderer" PROVE FALSE
      OBVIOUS
    <3>2. self[g] \notin freed
      BY PresentAround DEF BInv, GInv, Held
    <3> QED
      BY <1>2, <3>1, <3>2 DEF Over, BInv, GInv, HandOver, Handing, HandPlaces
  <2>2. New(g).renderer = Mine(g).renderer /\ (Mine(g).done => New(g).done)
    BY <2>1, PresentMembers DEF BInv, GInv, CInv
  <2> QED
    BY <1>2, <2>2, PresentAround DEF Over, Mine, New
<1> QED
  BY <1>1, <1>2

\* A present that ends the detection does so with the renderer.
LEMMA PresentFinds ==
  ASSUME OneGame, OpenGLGame, BInv, Known, Renewed, Succeeded, Inside,
         NEW g \in GameThreads, PresentStep(g), UNCHANGED wpc
  PROVE  Known' /\ Renewed' /\ Succeeded'
<1>1. \A i \in 1 .. MaxInst : Over(i) => Over(i)'
  BY PresentOver
<1>2. Known'
  BY PresentAround DEF Known
<1>3. ASSUME NEW i \in 1 .. MaxInst, det'[i].done, det'[i].renderer = "none"
      PROVE  det[i].done /\ det[i].renderer = "none"
  <2>1. CASE i # self[g]
    BY <1>3, <2>1, PresentAround
  <2>2. CASE i = self[g]
    <3>1. New(g).done /\ New(g).renderer = "none"
      BY <1>3, <2>2, PresentAround DEF New
    <3>2. pc[g] # "hRenderer"
      BY <3>1, PresentMembers DEF BInv, GInv, CInv, Inside, Mine
    <3>3. Mine(g).renderer = "none"
      BY <3>1, <3>2, PresentMembers DEF BInv, GInv, CInv
    <3>4. pc[g] # "hDone"
      BY <3>3 DEF Inside, Mine
    <3>5. Mine(g).done
      BY <3>1, <3>4, PresentMembers DEF BInv, GInv, CInv
    <3> QED
      BY <2>2, <3>3, <3>5 DEF Mine
  <2> QED
    BY <2>1, <2>2
<1>4. Renewed'
  BY <1>3, PresentAround DEF Renewed, Searching
<1>5. Succeeded'
  <2>1. \A w \in Workers : pc[w] # "out" => self[w] \in 1 .. MaxInst
    BY DEF BInv, GInv, CInv, Types, Objects, Threads
  <2>2. "out" \notin ExitPlaces \cup FreePlaces
    BY DEF ExitPlaces, FreePlaces
  <2>3. Over(instance) => Over(instance)'
    BY <1>1, PresentAround DEF Over
  <2>4. \A w \in Workers : pc[w] \in ExitPlaces \cup FreePlaces => Over(self[w])'
    BY <1>1, <2>1, <2>2, PresentAround DEF Succeeded, Over
  <2> QED
    BY <2>3, <2>4, PresentAround DEF Succeeded
<1> QED
  BY <1>2, <1>4, <1>5

\* A present's step keeps what it relies on.
LEMMA InsidePresent ==
  ASSUME OneGame, OpenGLGame, BInv, Inside, NEW g \in GameThreads, PresentStep(g)
  PROVE  Inside'
<1>1. pc'[g] \in DetourPlaces =>
        \/ "glx" \in New(g).detours
        \/ \E w \in Workers : pc'[w] = "dRecord" /\ lib'[w] = "glx" /\ self'[w] = self[g]
  <2>1. SUFFICES ASSUME pc'[g] \in DetourPlaces
                 PROVE  \/ "glx" \in New(g).detours
                        \/ \E w \in Workers : pc'[w] = "dRecord" /\ lib'[w] = "glx"
                                              /\ self'[w] = self[g]
    OBVIOUS
  <2>2. pc[g] \in DetourPlaces /\ pc[g] # "hUnhook"
    BY <2>1, PresentGoes
  <2>3. New(g).detours = Mine(g).detours
    BY <2>2, PresentMembers DEF BInv, GInv, CInv
  <2>4. \/ "glx" \in Mine(g).detours
        \/ \E w \in Workers : pc[w] = "dRecord" /\ lib[w] = "glx" /\ self[w] = self[g]
    BY <2>2 DEF Inside, Mine
  <2> QED
    BY <2>3, <2>4, PresentAround
<1>2. pc'[g] = "hRenderer" => New(g).hook["glx"]
  <2>1. SUFFICES ASSUME pc'[g] = "hRenderer" PROVE New(g).hook["glx"]
    OBVIOUS
  <2>2. pc[g] = "hUnhook"
    BY <2>1, PresentGoes
  <2>3. "glx" \in Mine(g).detours
    BY <2>2, PresentAround DEF Inside, DetourPlaces, LockedPresent, Mine
  <2>4. Mine(g).hook["glx"]
    BY <2>3, PresentAround DEF BInv, GInv, Detoured, Mine
  <2> QED
    BY <2>2, <2>4, PresentMembers DEF BInv, GInv, CInv
<1>3. pc'[g] = "hDone" => New(g).renderer = "glx"
  <2>1. pc'[g] = "hDone" => pc[g] = "hRenderer" /\ Mine(g).hook["glx"]
    BY PresentGoes DEF Inside, Mine
  <2> QED
    BY <2>1, PresentMembers DEF BInv, GInv, CInv
<1> QED
  BY <1>1, <1>2, <1>3, PresentAround DEF Inside, New

\* A present calls a function or a living trampoline, and leaves the hook's
\* redirection.
LEMMA DrawingPresent ==
  ASSUME OneGame, OpenGLGame, BInv, Calm, Inside, Drawing, NEW g \in GameThreads, PresentStep(g),
         UNCHANGED fpc, fault = "none"
  PROVE  Drawing' /\ fault' = "none"
<1>0. "glx" \in APIs /\ entry \in [APIs -> {"driver", "detector", "hook"}]
  BY DEF BInv, GInv, CInv, Types, APIs, Values
<1>1. entry["glx"] = "hook" => entry'["glx"] = "hook"
  <2>1. CASE pc[g] = "hUnhook"
    <3>1. entry' = Redirect(Mine(g).detours, "driver")
      BY <2>1, PresentAt, Zenon DEF HandOffUnhook, UnhookAll
    <3>2. entry["glx"] = "hook" => "glx" \notin Mine(g).detours
      BY HookedAlive, PresentAround DEF Mine
    <3> QED
      BY <1>0, <3>1, <3>2 DEF Redirect
  <2>2. CASE pc[g] # "hUnhook"
    BY <2>2, PresentAt, Zenon DEF PresentStep, PresentLock, PresentCall, PresentCheck,
       HandOffRestore, RestorePatches, HandOffRenderer, HandOffDone, PresentLeave, redirects
  <2> QED
    BY <2>1, <2>2
<1>2. Drawing'
  BY <1>1, PresentAround DEF Drawing
<1>3. fault' = "none"
  <2>1. CASE PresentCall(g)
    <3>1. pc[g] = "pCall"
      BY <2>1 DEF PresentCall, Within, At
    <3>2. "glx" \in Mine(g).detours
      BY <3>1, PresentAround DEF Inside, DetourPlaces, LockedPresent, Mine
    <3>3. Mine(g).orig["glx"] = "tramp"
      BY <3>2, PresentAround DEF BInv, GInv, Detoured, Mine
    <3> QED
      BY <2>1, <3>2, <3>3 DEF PresentCall, OpenGLGame
  <2>2. CASE ~ PresentCall(g)
    BY <2>2 DEF PresentStep, PresentLock, PresentCheck, HandOffRestore, HandOffUnhook,
       HandOffRenderer, HandOffDone, PresentLeave
  <2> QED
    BY <2>1, <2>2
<1> QED
  BY <1>2, <1>3

\* Nobody destroys the detector that OpenGL's presents land in.
LEMMA Landing ==
  ASSUME BInv, Succeeded, entry["glx"] = "detector"
  PROVE  /\ instance \in 1 .. MaxInst
         /\ \/ "glx" \in det[instance].detours
            \/ \E w \in Workers : pc[w] = "dRecord" /\ lib[w] = "glx" /\ self[w] = instance
         /\ \A w \in Workers : pc[w] \notin {"fDelete", "fMembers"}
<1> USE DEF BInv, GInv, CInv
<1>0. /\ instance \in 0 .. MaxInst /\ MaxInst \in Nat
      /\ \A w \in Workers : pc[w] # "out" => self[w] \in 1 .. MaxInst
  BY InstAssumption DEF Types, Objects, Threads
<1>1. CASE \E w \in Workers : pc[w] = "dRecord" /\ lib[w] = "glx"
  <2>1. PICK w \in Workers : pc[w] = "dRecord" /\ lib[w] = "glx"
    BY <1>1
  <2>2. self[w] = instance
    BY <2>1 DEF Held
  <2>3. \A x \in Workers : pc[x] # "out" => x = w
    BY <2>1, ActiveIsOne
  <2> QED
    BY <1>0, <2>1, <2>2, <2>3
<1>2. CASE \E i \in 1 .. MaxInst : "glx" \in det[i].detours
  <2>1. PICK i \in 1 .. MaxInst : "glx" \in det[i].detours
    BY <1>2
  <2>2. det[i].renderer = "none" /\ ~ Over(i)
    BY <2>1 DEF Detoured, Over
  <2>3. PICK w \in Workers : Uses(w, i)
    BY <2>1 DEF Spare, Bare
  <2>4. \A x \in Workers : pc[x] # "out" => x = w
    BY <2>3, ActiveIsOne DEF Uses
  <2>5. pc[w] \notin FreePlaces
    <3>1. pc[w] \in FreePlaces => i = self[w]
      BY <2>3 DEF Uses, FreePlaces
    <3> QED
      BY <2>2, <3>1 DEF Succeeded
  <2>6. i = instance
    BY <2>3, <2>5 DEF Uses, Held, FreePlaces
  <2> QED
    BY <2>1, <2>4, <2>5, <2>6 DEF FreePlaces
<1> QED
  BY <1>1, <1>2 DEF Entered, APIs

\* A present that enters the detector finds it whole.
LEMMA PresentEarly ==
  ASSUME OneGame, OpenGLGame, BInv, Early, NEW g \in GameThreads, Present(g), UNCHANGED bridgeVars
  PROVE  Early'
<1> USE DEF Early
<1>0. /\ GameThreads \cap Workers = {} /\ Places /\ Objects /\ g \in Threads
      /\ PresentAPI[g] = "glx"
  BY ThreadAssumption DEF BInv, GInv, CInv, Types, Threads, OpenGLGame
<1>1. entry["glx"] = "detector"
  BY <1>0 DEF Present, Lands
<1>2. instance \in 1 .. MaxInst
  BY <1>1, Landing
<1>3. /\ UNCHANGED <<instance, created, redirects, hookObj, det, lib, ret, fault>>
      /\ self' = [self EXCEPT ![g] = instance] /\ pc' = [pc EXCEPT ![g] = "pLock"]
  <2>1. instance # 0
    BY <1>2
  <2>2. TakeInst(g, "pLock") /\ UNCHANGED <<redirects, hookObj, det, lib, ret, fault>>
    BY DEF Present
  <2>3. UNCHANGED <<instance, created>> /\ self' = [self EXCEPT ![g] = instance]
        /\ pc' = [pc EXCEPT ![g] = "pLock"]
    BY <2>1, <2>2 DEF TakeInst, Goto
  <2> QED
    BY <2>2, <2>3
<1>4. /\ \A w \in Workers : pc'[w] = pc[w] /\ self'[w] = self[w]
      /\ pc'[g] = "pLock" /\ self'[g] = instance /\ \A h \in GameThreads : h = g
  BY <1>0, <1>3 DEF Threads, Places, Objects, OneGame
<1>5. Calm' /\ Known' /\ Renewed' /\ Drawing' /\ fault' = "none"
  BY <1>3, <1>4 DEF Calm, Known, Renewed, Searching, Drawing, redirects, bridgeVars
<1>6. Succeeded'
  <2>1. wpc' = wpc
    BY DEF bridgeVars
  <2> QED
    BY <1>3, <1>4, <2>1 DEF Succeeded, Over
<1>7. Inside'
  BY <1>1, <1>3, <1>4, Landing DEF Inside
<1> QED
  BY <1>5, <1>6, <1>7

\* A call that begins works on the detector of the last.
LEMMA BeginEarly ==
  ASSUME BInv, Early, NEW w \in Workers, Begin(w)
  PROVE  Early'
<1> USE DEF Early
<1>0. /\ GameThreads \cap Workers = {} /\ Places /\ Objects /\ Values /\ w \in Threads
      /\ wpc \in [Workers -> WorkerPlaces]
  BY ThreadAssumption DEF BInv, GInv, CInv, Types, Threads, Places
<1>1. /\ fault = "none" /\ pc[w] = "out" /\ CallBegun(w)
      /\ UNCHANGED <<redirects, hookObj, det, lib, ret, fault, sharedVars>>
  BY <1>0, Begins
<1>2. PICK to \in {"dLock", "sLock", "gLock", "fStop"} : TakeInst(w, to)
  BY <1>0, Begins
<1>3. /\ \A t \in Threads : t # w => pc'[t] = pc[t] /\ self'[t] = self[t]
      /\ pc'[w] = to /\ self'[w] = instance'
      /\ instance # 0 => instance' = instance
  BY <1>0, <1>2 DEF TakeInst, Goto, Places, Objects
<1>4. \A x \in Workers : x # w => wpc'[x] = wpc[x]
  BY <1>0, Begins
<1>5. \A x \in Workers : x # w => ~ Active(x) /\ pc[x] = "out"
  <2>1. Active(w)
    BY <1>1 DEF CallBegun, Active
  <2> QED
    BY <2>1, ActiveIsOne DEF BInv, GInv, CInv
<1>6. wpc[w] # "giveUp"
  BY DEF Succeeded
<1>7. Calm' /\ fault' = "none"
  BY <1>1 DEF Calm, sharedVars
<1>8. Known'
  BY <1>1, <1>3, <1>5 DEF Known, Threads
<1>9. Renewed'
  <2>1. SUFFICES ASSUME NEW x \in Workers, Searching(x) PROVE Searching(w)'
    BY <1>1 DEF Renewed
  <2>2. x = w
    BY <1>5, <2>1 DEF Searching, Active
  <2>3. wpc[w] = "poll"
    BY <1>1, <2>1, <2>2 DEF Searching
  <2> QED
    BY <1>1, <2>3 DEF CallBegun, Searching
<1>10. Succeeded'
  <2>1. ASSUME NEW x \in Workers, x # w
        PROVE  wpc'[x] \in {"none", "ended"} /\ pc'[x] = "out"
    BY <1>3, <1>4, <1>5, <2>1 DEF Active, Threads
  <2>2. wpc[w] \in {"get", "free"} => instance # 0 /\ Over(instance)
    BY DEF Succeeded, LatePlaces
  <2>3. \A i : Over(i)' <=> Over(i)
    BY <1>1 DEF Over
  <2>4. /\ wpc'[w] # "giveUp"
        /\ pc'[w] # "out"
        /\ wpc'[w] \in LatePlaces => wpc[w] = "get"
        /\ pc'[w] \in ExitPlaces \cup FreePlaces => wpc[w] = "free"
    BY <1>1, <1>6 DEF CallBegun, LatePlaces, ExitPlaces, FreePlaces
  <2>5. wpc[w] \in {"get", "free"} => Over(instance') /\ instance' # 0 /\ self'[w] = instance'
    BY <1>3, <2>2
  <2>6. \A x \in Workers : pc'[x] \in ExitPlaces \cup FreePlaces => Over(self[x])'
    <3>1. SUFFICES ASSUME NEW x \in Workers, pc'[x] \in ExitPlaces \cup FreePlaces
                   PROVE  Over(self[x])'
      OBVIOUS
    <3>2. x = w
      BY <2>1, <3>1 DEF ExitPlaces, FreePlaces
    <3>3. det'[self'[w]] = det[instance']
      BY <1>1, <1>3
    <3> QED
      BY <2>4, <2>5, <3>1, <3>2, <3>3 DEF Over
  <2>7. wpc[w] = "get" => instance' # 0 /\ Over(instance)'
    BY <1>1, <2>5 DEF Over
  <2>8. ASSUME NEW x \in Workers
        PROVE  /\ wpc'[x] # "giveUp"
               /\ ~ (wpc'[x] \in {"got", "polled"} /\ pc'[x] = "out")
               /\ wpc'[x] \in LatePlaces => instance' # 0 /\ Over(instance)'
    BY <2>1, <2>4, <2>7 DEF LatePlaces
  <2> QED
    BY <2>6, <2>8 DEF Succeeded
<1>11. Inside'
  <2>1. ASSUME NEW g \in GameThreads
        PROVE  /\ pc'[g] = pc[g] /\ self'[g] = self[g]
               /\ pc[g] # "out" => instance' = instance
    <3>1. g # w /\ g \in Threads
      BY <1>0 DEF Threads
    <3>2. pc[g] # "out" => instance # 0
      BY <1>0, <3>1 DEF Inside, Objects
    <3> QED
      BY <1>3, <3>1, <3>2
  <2>2. ASSUME NEW x \in Workers, pc[x] = "dRecord"
        PROVE  x # w /\ pc'[x] = pc[x] /\ self'[x] = self[x]
    BY <1>1, <1>5, <2>2
  <2>3. ASSUME NEW x \in Workers
        PROVE  pc'[x] \notin {"fDelete", "fMembers"}
    BY <1>3, <1>5 DEF Threads
  <2>4. "out" \notin DetourPlaces
    BY DEF DetourPlaces
  <2> QED
    BY <1>1, <2>1, <2>2, <2>3, <2>4 DEF Inside
<1>12. Drawing'
  BY <1>1 DEF Drawing, redirects, sharedVars
<1> QED
  BY <1>7, <1>8, <1>9, <1>10, <1>11, <1>12

\* Between calls a worker, which nobody stops, goes on to start the hook.
LEMMA BetweenEarly ==
  ASSUME BInv, Early, NEW w \in Workers, Between(w)
  PROVE  Early'
<1> USE DEF Early
<1>0. /\ "glx" \in APIs /\ entry \in [APIs -> {"driver", "detector", "hook"}] /\ HooksOK
      /\ Places /\ wpc \in [Workers -> WorkerPlaces]
  BY DEF BInv, GInv, CInv, Types, APIs, Values, Places
<1>1. /\ pc[w] = "out" /\ fault = "none"
      /\ UNCHANGED <<coreVars, fault, g_stop, cpc, fpc>>
  BY Betweens
<1>2. PICK to \in {"poll", "get", "giveUp", "own", "start", "startSaved", "free", "ended"} :
          wpc' = [wpc EXCEPT ![w] = to]
  BY Betweens
<1>3. wpc'[w] = to /\ \A x \in Workers : x # w => wpc'[x] = wpc[x]
  BY <1>0, <1>2
<1>4. \A x \in Workers : x # w => ~ Active(x)
  <2>1. Active(w)
    BY Betweens DEF Active, WorkerPlaces
  <2> QED
    BY <2>1, ActiveIsOne DEF BInv, GInv, CInv
<1>5. /\ to # "giveUp" /\ wpc[w] # "poll"
      /\ to \in LatePlaces => instance # 0 /\ Over(instance)
  <2>1. ~ PollEnd(w)
    BY DEF PollEnd, Calm
  <2>2. wpc[w] # "giveUp"
    BY DEF Succeeded
  <2>3. CASE Polled(w)
    <3>1. wpc[w] = "polled" /\ to = IF ret[w] = "done" THEN "get" ELSE "poll"
      BY <1>0, <1>3, <2>3 DEF Polled, WGo
    <3> QED
      BY <1>1, <3>1 DEF Succeeded, LatePlaces
  <2>4. CASE Got(w)
    <3>1. wpc[w] = "got" /\ ret[w] = "glx" /\ ~ g_stop
      BY <1>1, <2>4 DEF Got, WGo, Succeeded, Calm
    <3>2. to = "own"
      BY <1>0, <1>3, <2>4, <3>1 DEF Got, WGo
    <3> QED
      BY <3>1, <3>2 DEF Succeeded, LatePlaces
  <2>5. CASE Own(w) \/ StartHook(w) \/ StartHookSaved(w)
    <3>1. wpc[w] \in {"own", "start", "startSaved"} /\ to # "giveUp"
      BY <1>0, <1>3, <2>5 DEF Own, StartHook, StartHookSaved, WGo
    <3> QED
      BY <3>1 DEF Succeeded, LatePlaces
  <2>6. CASE WorkerEnd(w)
    <3>1. wpc[w] = "end" /\ to = "ended"
      BY <1>0, <1>3, <2>6 DEF WorkerEnd, WGo
    <3> QED
      BY <3>1 DEF LatePlaces
  <2> QED
    BY <2>1, <2>3, <2>4, <2>5, <2>6 DEF Between
<1>6. Calm' /\ Known' /\ Inside' /\ fault' = "none"
  BY <1>1 DEF Calm, Known, Inside, coreVars
<1>7. Renewed'
  <2>1. \A x \in Workers : ~ Searching(x)
    BY <1>1, <1>4, <1>5 DEF Searching, Active
  <2> QED
    BY <1>1, <2>1 DEF Renewed, coreVars
<1>8. Succeeded'
  <2>1. ASSUME NEW x \in Workers
        PROVE  /\ wpc'[x] \notin {"giveUp", "got", "polled"}
               /\ wpc'[x] \in LatePlaces => instance # 0 /\ Over(instance)
    BY <1>3, <1>4, <1>5, <2>1 DEF Active, LatePlaces
  <2>2. \A i : Over(i)' <=> Over(i)
    BY <1>1 DEF Over, coreVars
  <2>3. \A x \in Workers : Over(self[x])' <=> Over(self[x])
    BY <1>1 DEF Over, coreVars
  <2>4. Over(instance)' <=> Over(instance)
    BY <1>1 DEF Over, coreVars
  <2> QED
    BY <1>1, <2>1, <2>3, <2>4 DEF Succeeded, coreVars
<1>9. Drawing'
  <2>1. CASE StartHook(w)
    <3>1. UNCHANGED hookObj /\ ret[w] = "glx"
      BY <2>1 DEF StartHook, BInv, GInv, GLGiven
    <3>2. entry'["glx"] \in {entry["glx"], "hook"}
      BY <1>0, <2>1, <3>1 DEF StartHook, Redirect
    <3> QED
      BY <1>1, <3>1, <3>2 DEF Drawing
  <2>2. CASE StartHookSaved(w)
    <3>1. UNCHANGED entry /\ ret[w] = "glx"
      BY <2>2 DEF StartHookSaved, WGo, BInv, GInv, GLGiven, redirects
    <3>2. PICK h : /\ HookChanged("glx", h) /\ h.alive = hookObj["glx"].alive
                   /\ h.orig = IF entry["glx"] = "hook" THEN "tramp" ELSE hookObj["glx"].orig
      BY <1>0, <2>2, <3>1, SavedHooks
    <3>3. hookObj'["glx"] = h
      BY <1>0, <3>2, HookChangedAt
    <3> QED
      BY <1>1, <3>1, <3>2, <3>3 DEF Drawing
  <2>3. CASE UNCHANGED <<entry, hookObj>>
    BY <1>1, <2>3 DEF Drawing
  <2> QED
    BY <2>1, <2>2, <2>3 DEF Between, PollEnd, Polled, Got, Own, WorkerEnd, detVars, redirects
<1> QED
  BY <1>6, <1>7, <1>8, <1>9

\* Before a stop the controller only starts.
LEMMA ControllerEarly ==
  ASSUME BInv, Early, NEW c \in Controllers, Controller(c), stops' = 0
  PROVE  Early'
<1> USE DEF Early
<1>0. Places /\ stops \in Nat /\ cpc \in [Controllers -> ControlPlaces]
      /\ spawned \subseteq Workers /\ wpc \in [Workers -> WorkerPlaces]
      /\ \A w \in Workers : wpc[w] = "none" <=> w \notin spawned
  BY StopsAssumption DEF BInv, GInv, CInv, Types, Bridge, Places
<1>1. cpc[c] \notin StopPlaces
  BY DEF Calm
<1>2. ~ StopExchange(c)
  BY <1>0 DEF StopExchange
<1>3. StartExchange(c) \/ StartClear(c) \/ StartSpawn(c)
  BY <1>1, <1>2 DEF Controller, StopSignal, StopJoin, StopTake, StopNotify, StopUnhook,
     StopFree, StopReturn, CGo, StopPlaces
<1>4. UNCHANGED detVars /\ UNCHANGED fpc
  BY <1>3 DEF StartExchange, StartClear, StartSpawn
<1>5. /\ g_stop' = FALSE
      /\ \E to \in {"clear", "spawn", "idle"} : cpc' = [cpc EXCEPT ![c] = to]
  BY <1>3 DEF StartExchange, StartClear, StartSpawn, CGo, Calm
<1>6. \A w \in Workers : wpc'[w] = wpc[w] \/ (wpc[w] = "none" /\ wpc'[w] = "begin")
  <2>1. CASE StartSpawn(c)
    BY <1>0, <2>1 DEF StartSpawn
  <2> QED
    BY <1>3, <2>1 DEF StartExchange, StartClear
<1>7. Calm'
  BY <1>0, <1>5 DEF Calm, StopPlaces
<1>8. Known' /\ Inside' /\ Drawing' /\ fault' = "none"
  BY <1>4 DEF detVars, redirects, Known, Inside, Drawing
<1>9. Renewed'
  BY <1>4, <1>6 DEF detVars, Renewed, Searching
<1>10. Succeeded'
  BY <1>4, <1>6 DEF detVars, Succeeded, Over, LatePlaces
<1> QED
  BY <1>7, <1>8, <1>9, <1>10

\* A frame in the hook calls what exists.
LEMMA FrameEarly ==
  ASSUME OpenGLGame, BInv, Early, stops = 0, NEW g \in GameThreads, Frame(g)
  PROVE  Early'
<1> USE DEF Early
<1>0. /\ PresentAPI[g] = "glx" /\ "glx" \in APIs /\ HooksOK
      /\ Places /\ fpc \in [GameThreads -> FramePlaces]
  BY DEF OpenGLGame, BInv, GInv, CInv, Types, APIs, Places
<1>1. /\ UNCHANGED <<redirects, instance, created, det, pc, self, lib, ret, g_stop, cpc, wpc>>
  BY Frames DEF frameFrame
<1>2. entry["glx"] = "hook"
  <2>1. CASE FrameEnter(g)
    BY <1>0, <2>1 DEF FrameEnter, Lands
  <2>2. CASE fpc[g] # "out"
    BY <2>2 DEF Drawing
  <2> QED
    BY <2>1, <2>2 DEF Frame, FrameReady, FrameSkip, FrameCallback, FrameState, FrameDraw, FrameOriginal,
       FrameOriginalLost, FrameUseFreed, FGo
<1>3. hookObj["glx"].alive
  BY <1>2, HookedAlive
<1>4. hookObj'["glx"].orig = hookObj["glx"].orig
  <2>1. ASSUME NEW h, HookChanged("glx", h), h.orig = hookObj["glx"].orig
        PROVE  hookObj'["glx"].orig = hookObj["glx"].orig
    BY <1>0, <2>1, HookChangedAt
  <2> QED
    BY <1>0, <2>1, FrameHooks
<1>5. fault' = "none"
  <2>1. ~ FrameOriginalLost(g)
    BY <1>0, <1>2, <1>3 DEF FrameOriginalLost, Drawing
  <2>2. ~ FrameUseFreed(g)
    <3>1. fgen[g] \in Nat /\ fgen[g] <= 0
      BY DEF BInv, GInv, CInv, Types, Bridge, Generations
    <3>2. hookObj["glx"].gen \in Nat /\ hookObj["glx"].gen <= 0
      BY <1>0 DEF BInv, GInv, CInv, Generations, HooksOK, HookType
    <3> QED
      BY <1>0, <3>1, <3>2 DEF FrameUseFreed, Dangling
  <2> QED
    BY <2>1, <2>2 DEF Frame, FrameEnter, FrameReady, FrameSkip, FrameCallback, FrameState, FrameDraw,
       FrameOriginal
<1>6. Drawing'
  BY <1>1, <1>2, <1>3, <1>4 DEF Drawing, redirects
<1>7. Calm' /\ Known' /\ Renewed' /\ Succeeded' /\ Inside'
  BY <1>1 DEF Calm, Known, Renewed, Searching, Succeeded, Over, Inside
<1> QED
  BY <1>5, <1>6, <1>7

\* Nobody is inside a detector that was freed.
LEMMA IdleEarly ==
  ASSUME BInv, Early, Idle
  PROVE  Early'
<1> USE DEF Early
<1>1. fault' = "none"
  <2>1. ASSUME NEW t \in Threads PROVE ~ UseFreed(t)
    BY DEF UseFreed, Inside, BInv, GInv, Held, Threads
  <2> QED
    BY <2>1 DEF Idle, Load, LoadLibrary, vars, detVars
<1>2. UNCHANGED <<redirects, hookObj, instance, created, det, pc, self, lib, ret, g_stop,
                  cpc, wpc, fpc>>
  BY Idles DEF bridgeVars
<1> QED
  BY <1>1, <1>2 DEF Calm, Known, Renewed, Searching, Succeeded, Over, Inside, Drawing, redirects

\* A worker's step keeps everything.
LEMMA CallerEarly ==
  ASSUME BInv, BInv', Early, NEW w \in Workers, CallerStep(w), UNCHANGED bridgeVars
  PROVE  Early'
<1> USE DEF Early
<1>1. UNCHANGED <<wpc, cpc, fpc, g_stop>> /\ fault' = "none"
  BY CallerKeeps DEF bridgeVars
<1>2. Calm'
  BY <1>1 DEF Calm
<1> QED
  BY <1>1, <1>2, KnownCaller, RenewedCaller, SucceededCaller, InsideCaller, DrawingCaller

\* Until somebody calls stop, all of that holds.
LEMMA YoungStep ==
  ASSUME OneGame, OneController, OpenGLGame, BInv, Young, [Next]_vars
  PROVE  Young'
<1> SUFFICES ASSUME stops' = 0 PROVE Early'
  BY DEF Young
<1>1. BInv'
  BY BInvStep
<1>2. stops = 0
  <2>1. stops \in Nat /\ stops' \in {stops, stops + 1}
    <3>1. stops \in Nat
      BY StopsAssumption DEF BInv, GInv, CInv, Types, Bridge
    <3>2. ASSUME NEW c \in Controllers, Controller(c)
          PROVE  stops' \in {stops, stops + 1}
      BY <3>2 DEF Controller, StartExchange, StartClear, StartSpawn, StopExchange, StopSignal,
         StopJoin, StopTake, StopNotify, StopUnhook, StopFree, StopReturn
    <3>3. Places /\ Values
      BY DEF BInv, GInv, CInv, Types
    <3> QED
      BY <3>1, <3>2, <3>3, NextSteps, Begins, Betweens, Frames, Idles
         DEF bridgeVars, sharedVars, frameFrame
  <2> QED
    BY <2>1
<1>3. Early
  BY <1>2 DEF Young
<1>4. ASSUME NEW g \in GameThreads, PresentStep(g), UNCHANGED bridgeVars
      PROVE  Early'
  <2>1. UNCHANGED <<wpc, cpc, fpc, g_stop>>
    BY <1>4 DEF bridgeVars
  <2>2. Calm'
    BY <1>3, <2>1 DEF Early, Calm
  <2> QED
    BY <1>3, <1>4, <2>1, <2>2, PresentFinds, InsidePresent, DrawingPresent DEF Early
<1> QED
  BY <1>1, <1>2, <1>3, <1>4, NextSteps, CallerEarly, BeginEarly, BetweenEarly, PresentEarly,
     ControllerEarly, FrameEarly, IdleEarly

\* It holds at first.
LEMMA YoungInit ==
  ASSUME Init
  PROVE  Young
<1>1. Calm /\ Drawing /\ fault = "none"
  BY DEF Init, DetectorInit, BridgeInit, Calm, StopPlaces, Drawing, NoHook, APIs
<1>2. Known /\ Renewed
  <2>1. \A i \in 1 .. MaxInst : ~ det[i].done
    BY DEF Init, DetectorInit, NewDetector
  <2> QED
    BY <2>1 DEF Known, Renewed
<1>3. Succeeded /\ Inside
  BY DetectorInitially DEF Succeeded, Inside, LatePlaces, DetourPlaces, ExitPlaces, FreePlaces
<1> QED
  BY <1>1, <1>2, <1>3 DEF Young, Early

\* Until somebody calls stop no present of a game with one presenting thread
\* calls a null function or a freed trampoline, and none uses a detector or a
\* hook that was deleted.
THEOREM NoFaultInvariant ==
  ASSUME OneGame, OneController, OpenGLGame
  PROVE  Spec => []NoFault
<1>1. Init => BInv /\ Young
  BY BInvInit, YoungInit
<1>2. BInv /\ Young /\ [Next]_vars => (BInv /\ Young)'
  BY BInvStep, YoungStep
<1>3. Young => NoFault
  BY DEF Young, Early, NoFault
<1> QED
  BY <1>1, <1>2, <1>3, PTL DEF Spec

-----------------------------------------------------------------------------

(* Before the first stop, with a pointer to patch: who patches it.         *)

\* The overlay is started once at most.
Once ==
    /\ ~ g_stop
    /\ \A c \in Controllers : /\ cpc[c] \notin StopPlaces
                              /\ cpc[c] \in {"clear", "spawn"} => spawned = {}
    /\ ~ g_started => spawned = {}
    /\ \A w, x \in spawned : w = x

\* The worker has a detection behind it that has restored what was patched.
Restored(w) ==
    \/ wpc[w] \in {"get", "got", "giveUp", "own", "start", "startSaved", "free", "end",
                   "ended"}
    \/ wpc[w] = "polled" /\ pc[w] = "out" /\ ret[w] = "done"
    \/ pc[w] \in {"xUnhook", "xDelete"}

\* The game's pointer leads to the detector that remembers it, or is about
\* to, and to the hook once the worker has started it.
Pointer ==
    /\ entry["vk"] = "driver"
    /\ table = "detector" =>
          /\ instance # 0
          /\ det[instance].hooked["vk"]
          /\ det[instance].patched \/ \E w \in Workers : pc[w] = "dRecord" /\ lib[w] = "vk"
    /\ table = "hook" =>
          \E w \in Workers : wpc[w] \in {"startSaved", "free", "end", "ended"}
    /\ \A i \in 1 .. MaxInst : det[i].patched => i = instance
    /\ \A w \in Workers : Restored(w) => \A i \in 1 .. MaxInst : ~ det[i].patched
    /\ \A w \in Workers : pc[w] = "dInstall" /\ lib[w] = "vk" =>
                              table = "driver" /\ det[self[w]].hooked["vk"]

\* stops counts up.
LEMMA StopsStep ==
  ASSUME Types, [Next]_vars
  PROVE  \/ UNCHANGED stops
         \/ \E c \in Controllers : StopExchange(c)
<1>1. ASSUME NEW c \in Controllers, Controller(c)
      PROVE  UNCHANGED stops \/ StopExchange(c)
  BY <1>1 DEF Controller, StartExchange, StartClear, StartSpawn, StopSignal, StopJoin, StopTake,
     StopNotify, StopUnhook, StopFree, StopReturn
<1> QED
  BY <1>1, NextSteps, Begins, Betweens, Frames, Idles
     DEF bridgeVars, frameFrame, sharedVars, Types

\* Before the first stop one worker is spawned at most.
LEMMA OnceStep ==
  ASSUME OneController, Types, Control, Once, [Next]_vars, UNCHANGED stops
  PROVE  Once'
<1>0. stops \in Nat
  BY StopsAssumption DEF Types, Bridge
<1>1. ASSUME NEW c \in Controllers, Controller(c)
      PROVE  Once'
  <2>0. (\A d \in Controllers : d = c) /\ cpc[c] \notin StopPlaces
    BY DEF OneController, Once
  <2>1. CASE StartExchange(c)
    BY <2>0, <2>1 DEF StartExchange, CGo, Once, Types, Places, StopPlaces
  <2>2. CASE StartClear(c)
    BY <2>0, <2>2 DEF StartClear, CGo, Once, Types, Places, StopPlaces
  <2>3. CASE StartSpawn(c)
    BY <2>0, <2>3 DEF StartSpawn, CGo, Once, Control, Types, Places, StopPlaces
  <2>4. CASE StopExchange(c)
    BY <1>0, <2>4 DEF StopExchange
  <2> QED
    BY <1>1, <2>0, <2>1, <2>2, <2>3, <2>4 DEF Controller, StopSignal, StopJoin, StopTake,
       StopNotify, StopUnhook, StopFree, StopReturn, CGo, StopPlaces
<1>2. CASE UNCHANGED <<g_stop, g_started, spawned, cpc>>
  BY <1>2 DEF Once
<1> QED
  BY <1>1, <1>2, NextSteps, Begins, Betweens, Frames, Idles
     DEF bridgeVars, sharedVars, frameFrame, Types

\* One worker has ever been spawned: while it is active no other is anything.
LEMMA OnlyOne ==
  ASSUME Types, Once, NEW w \in Workers, wpc[w] # "none", NEW x \in Workers, wpc[x] # "none"
  PROVE  x = w
BY DEF Types, Bridge, Once

\* A worker inside a call restores what the detector has patched.
LEMMA PointerCaller ==
  ASSUME ~ VkInline, Types, Control, Held, Once, Pointer,
         NEW w \in Workers, CallerStep(w), UNCHANGED bridgeVars
  PROVE  Pointer'
<1>0. /\ Places /\ Objects /\ DetOK /\ "glx" \in APIs /\ "vk" \in APIs
      /\ entry \in [APIs -> {"driver", "detector", "hook"}] /\ lib[w] \in APIs
      /\ table \in {"driver", "detector", "hook"}
  BY DEF Types, APIs, Values
<1>1. /\ pc[w] # "out" /\ self[w] \in 1 .. MaxInst /\ UNCHANGED <<self, wpc>>
      /\ w \in Threads
  BY CallerMoves, CallerKeeps DEF Moves, Types, Objects, Threads, bridgeVars
<1>2. \A x \in Workers : x # w => pc[x] = "out" /\ pc'[x] = "out"
  BY <1>0, <1>1, ActiveIsOne, CallerMoves DEF Moves, Goto, Places, Threads
<1>3. /\ wpc[w] # "none" /\ wpc[w] \notin {"get", "giveUp", "own", "start", "startSaved", "ended"}
      /\ pc[w] \in DetectPlaces => wpc[w] \in {"stopFirst", "polled"}
  BY <1>1 DEF Types, Calls, DetectPlaces, FreePlaces, ExitPlaces, PassPlaces
<1>4. \A x \in Workers : x # w => wpc[x] = "none"
  BY <1>3, OnlyOne
<1>5. \A i \in 1 .. MaxInst : i # self[w] => det'[i] = det[i]
  BY <1>0, CallerDet
<1>6. pc[w] # "fMembers" => self[w] = instance
  BY <1>1 DEF Held
<1>7. /\ (\E x \in Workers : wpc[x] \in {"startSaved", "free", "end", "ended"})
         <=> wpc[w] \in {"free", "end"}
      /\ (\E x \in Workers : wpc'[x] \in {"startSaved", "free", "end", "ended"})
         <=> wpc[w] \in {"free", "end"}
  BY <1>1, <1>3, <1>4
<1>8. \A x \in Workers : Restored(x)' => x = w
  <2>1. \A x \in Workers : x # w => wpc'[x] = "none" /\ pc'[x] = "out"
    BY <1>1, <1>2, <1>4
  <2> QED
    BY <2>1 DEF Restored
<1>9. Restored(w)' =>
        \/ Restored(w)
        \/ pc'[w] \in {"xUnhook", "xDelete"}
        \/ wpc[w] = "polled" /\ pc'[w] = "out" /\ pc[w] = "xDelete"
  BY <1>0, <1>1, <1>3, CallerLeaves, CallerMoves DEF Restored, Moves, Types, Calls
<1>10. CASE pc[w] = "dHook"
  <2>1. HookLibrary(w) /\ UNCHANGED <<redirects, instance>>
    BY <1>10, StepAt, Zenon DEF HookLibrary
  <2>2. /\ New(w).patched = Mine(w).patched
        /\ IF pc'[w] = "dInstall" /\ lib[w] = "vk"
           THEN ~ Mine(w).hooked["vk"] /\ New(w).hooked["vk"]
           ELSE New(w).hooked["vk"] = Mine(w).hooked["vk"]
    <3>1. New(w).patched = Mine(w).patched
      BY <1>10, CallerRedirections
    <3>2. "vk" \in APIs
      BY DEF APIs
    <3> QED
      BY <1>10, <3>1, <3>2, CallerHook
  <2>3. pc'[w] \in {"dInstall", "dFinish", "dLibrary"}
    BY <1>0, <1>1, <2>1 DEF HookLibrary, NextLibrary, Goto, Places
  <2>4. pc'[w] = "dInstall" => UNCHANGED lib
    BY <1>0, <1>1, <2>1 DEF HookLibrary, NextLibrary, Goto, Places
  <2>5. \A x \in Workers : ~ Restored(x)'
    <3>1. ~ Restored(w)
      BY <1>3, <1>10 DEF Restored, DetectPlaces, PassPlaces
    <3> QED
      BY <1>8, <1>9, <1>10, <2>3, <3>1
  <2>6. \A i \in 1 .. MaxInst : det'[i].patched = det[i].patched
    BY <1>1, <1>5, <2>2 DEF Mine, New
  <2>7. wpc[w] \in {"stopFirst", "polled"}
    BY <1>3, <1>10 DEF DetectPlaces, PassPlaces
  <2>8. table # "hook"
    BY <1>7, <2>7 DEF Pointer
  <2>9. table = "detector" => det[instance].hooked["vk"] /\ det[instance].patched
    BY <1>2, <1>10 DEF Pointer
  <2>10. CASE pc'[w] = "dInstall" /\ lib[w] = "vk"
    <3>1. table = "driver"
      BY <1>0, <1>6, <1>10, <2>2, <2>8, <2>9, <2>10 DEF Mine
    <3>2. det'[self'[w]].hooked["vk"]
      BY <1>1, <2>2, <2>10 DEF New
    <3>3. UNCHANGED table /\ UNCHANGED entry
      BY <2>1 DEF redirects
    <3>4. \A x \in Workers : pc'[x] = "dInstall" /\ lib'[x] = "vk" =>
                               table' = "driver" /\ det'[self'[x]].hooked["vk"]
      BY <1>2, <3>1, <3>2, <3>3
    <3>5. \A i \in 1 .. MaxInst : det'[i].patched => i = instance'
      BY <2>1, <2>6 DEF Pointer
    <3>6. entry'["vk"] = "driver" /\ table' = "driver"
      BY <3>1, <3>3 DEF Pointer
    <3> QED
      BY <2>5, <3>4, <3>5, <3>6 DEF Pointer
  <2>11. CASE ~ (pc'[w] = "dInstall" /\ lib[w] = "vk")
    <3>1. det'[instance].hooked["vk"] = det[instance].hooked["vk"]
      BY <1>6, <1>10, <2>2, <2>11 DEF Mine, New
    <3>2. \A x \in Workers : ~ (pc'[x] = "dInstall" /\ lib'[x] = "vk")
      BY <1>2, <2>4, <2>11
    <3>3. table = "detector" => instance # 0
      BY DEF Pointer
    <3>4. \A i \in 1 .. MaxInst : det'[i].patched => i = instance'
      BY <2>1, <2>6 DEF Pointer
    <3>5. entry'["vk"] = "driver" /\ table' # "hook"
      BY <2>1, <2>8 DEF Pointer, redirects
    <3>6. table' = "detector" => /\ instance' # 0 /\ det'[instance'].hooked["vk"]
                                /\ det'[instance'].patched
      BY <1>0, <2>1, <2>6, <2>9, <3>1, <3>3 DEF redirects, Objects
    <3> QED
      BY <2>5, <3>2, <3>4, <3>5, <3>6 DEF Pointer
  <2> QED
    BY <2>10, <2>11
<1>11. CASE pc[w] = "dInstall"
  <2>1. Install(w) /\ UNCHANGED <<det, instance, lib>>
    BY <1>11, StepAt DEF Install
  <2>2. pc'[w] = "dRecord"
    BY <1>0, <1>1, <2>1 DEF Install, Goto, Places
  <2>3. \A x \in Workers : ~ Restored(x)'
    <3>1. ~ Restored(w)
      BY <1>3, <1>11 DEF Restored, DetectPlaces, PassPlaces
    <3> QED
      BY <1>8, <1>9, <1>11, <2>2, <3>1
  <2>4. \A x \in Workers : ~ (pc'[x] = "dInstall" /\ lib'[x] = "vk")
    BY <1>2, <2>2
  <2>5. CASE lib[w] = "vk"
    <3>1. table = "driver" /\ det[self[w]].hooked["vk"] /\ entry["vk"] = "driver"
      BY <1>11, <2>5 DEF Pointer
    <3>2. table' = "detector" /\ UNCHANGED entry
      BY <2>1, <2>5, <3>1 DEF Install, Patchable
    <3>3. instance # 0 /\ det'[instance].hooked["vk"]
      BY <1>1, <1>6, <1>11, <2>1, <3>1
    <3>4. pc'[w] = "dRecord" /\ lib'[w] = "vk"
      BY <2>1, <2>2, <2>5
    <3> QED
      BY <2>1, <2>3, <2>4, <3>1, <3>2, <3>3, <3>4 DEF Pointer
  <2>6. CASE lib[w] # "vk"
    <3>1. UNCHANGED table /\ entry'["vk"] = entry["vk"]
      BY <1>0, <2>1, <2>6 DEF Install, Patchable, Redirect
    <3>2. \A x \in Workers : ~ (pc[x] = "dRecord" /\ lib[x] = "vk")
      BY <1>2, <1>11
    <3>3. table' = "hook" => \E x \in Workers : wpc'[x] \in {"startSaved", "free", "end", "ended"}
      BY <1>1, <3>1 DEF Pointer
    <3> QED
      BY <2>1, <2>3, <2>4, <3>1, <3>2, <3>3 DEF Pointer
  <2> QED
    BY <2>5, <2>6
<1>12. CASE pc[w] = "dRecord"
  <2>1. Record(w) /\ UNCHANGED <<redirects, instance>>
    BY <1>12, StepAt, Zenon DEF Record
  <2>2. /\ New(w).patched = (Mine(w).patched \/ entry[lib[w]] # "detector")
        /\ New(w).hooked["vk"] = Mine(w).hooked["vk"]
    <3>1. pc'[w] # "dInstall"
      BY <1>12, CallerGoes, StepAt
    <3> QED
      BY <1>0, <1>12, <3>1, CallerMembersOf
  <2>3. pc'[w] \in {"dFinish", "dLibrary"}
    BY <1>0, <1>1, <2>1 DEF Record, NextLibrary, Goto, Places
  <2>4. \A x \in Workers : ~ Restored(x)'
    <3>1. ~ Restored(w)
      BY <1>3, <1>12 DEF Restored, DetectPlaces, PassPlaces
    <3> QED
      BY <1>8, <1>9, <1>12, <2>3, <3>1
  <2>5. \A x \in Workers : pc'[x] # "dInstall"
    BY <1>2, <2>3
  <2>6. self[w] = instance
    BY <1>6, <1>12
  <2>7. \A i \in 1 .. MaxInst : det'[i].patched => i = instance
    BY <1>5, <2>6 DEF Pointer
  <2>8. table = "detector" => det'[instance].hooked["vk"] /\ det'[instance].patched /\ instance # 0
    <3>1. SUFFICES ASSUME table = "detector"
                   PROVE  det'[instance].hooked["vk"] /\ det'[instance].patched /\ instance # 0
      OBVIOUS
    <3>2. /\ det[instance].hooked["vk"] /\ instance # 0 /\ entry["vk"] = "driver"
          /\ det[instance].patched \/ lib[w] = "vk"
      BY <1>2, <3>1 DEF Pointer
    <3> QED
      BY <2>2, <2>6, <3>2 DEF Mine, New
  <2>9. table = "hook" => \E x \in Workers : wpc'[x] \in {"startSaved", "free", "end", "ended"}
    BY <1>1 DEF Pointer
  <2>10. entry["vk"] = "driver"
    BY DEF Pointer
  <2> QED
    BY <2>1, <2>4, <2>5, <2>7, <2>8, <2>9, <2>10 DEF Pointer, redirects
<1>13. CASE pc[w] = "xDone"
  <2>1. ExitRestore(w) /\ UNCHANGED <<entry, instance, lib>>
    BY <1>13, StepAt DEF ExitRestore, RestorePatches
  <2>2. /\ ~ New(w).patched
        /\ New(w).hooked["vk"] = Mine(w).hooked["vk"]
    <3>1. pc'[w] # "dInstall"
      BY <1>13, CallerGoes, StepAt
    <3> QED
      BY <1>0, <1>13, <3>1, CallerMembersOf
  <2>3. pc'[w] = "xUnhook" /\ table' = IF Mine(w).patched THEN "driver" ELSE table
    BY <1>0, <1>1, <2>1 DEF ExitRestore, RestorePatches, Goto, Places
  <2>4. self[w] = instance
    BY <1>6, <1>13
  <2>5. \A i \in 1 .. MaxInst : ~ det'[i].patched
    BY <1>5, <2>2, <2>4 DEF Pointer, New
  <2>6. table' # "detector"
    BY <1>2, <1>13, <2>3, <2>4 DEF Pointer, Mine
  <2>7. table' = "hook" => \E x \in Workers : wpc'[x] \in {"startSaved", "free", "end", "ended"}
    BY <1>1, <2>3 DEF Pointer
  <2>8. \A x \in Workers : pc'[x] # "dInstall"
    BY <1>2, <2>3
  <2>9. entry'["vk"] = "driver"
    BY <2>1 DEF Pointer
  <2> QED
    BY <2>5, <2>6, <2>7, <2>8, <2>9 DEF Pointer
<1>14. CASE pc[w] \in {"xUnhook", "xDelete"}
  <2>1. UNCHANGED <<table, instance>> /\ entry'["vk"] = "driver"
    <3>1. entry["vk"] = "driver"
      BY DEF Pointer
    <3>2. CASE pc[w] = "xUnhook"
      BY <1>0, <3>1, <3>2, StepAt, Zenon DEF ExitUnhook, UnhookAll, Redirect
    <3>3. CASE pc[w] = "xDelete"
      BY <1>0, <3>1, <3>3, StepAt, Zenon DEF ExitDelete, redirects
    <3> QED
      BY <1>14, <3>2, <3>3
  <2>2. New(w).patched = Mine(w).patched
    BY <1>0, <1>14, CallerMembersOf
  <2>3. \A x \in Workers : pc'[x] # "dInstall"
    BY <1>2, <1>14, CallerGoes, StepAt
  <2>4. \A i \in 1 .. MaxInst : ~ det'[i].patched
    <3>1. \A i \in 1 .. MaxInst : ~ det[i].patched
      BY <1>14 DEF Pointer, Restored
    <3> QED
      BY <1>1, <1>5, <2>2, <3>1 DEF Mine, New
  <2>5. table # "detector"
    <3>1. Restored(w)
      BY <1>14 DEF Restored
    <3>2. instance # 0 => ~ det[instance].patched
      BY <1>0, <3>1 DEF Pointer, Objects
    <3> QED
      BY <1>2, <1>14, <3>2 DEF Pointer
  <2>6. table = "hook" => \E x \in Workers : wpc'[x] \in {"startSaved", "free", "end", "ended"}
    BY <1>1 DEF Pointer
  <2> QED
    BY <2>1, <2>3, <2>4, <2>5, <2>6 DEF Pointer
<1>15. CASE pc[w] \in FreePlaces
  <2>1. /\ wpc[w] = "end" /\ Restored(w)
    BY <1>1, <1>15 DEF Types, Calls, Restored, FreePlaces, DetectPlaces, PassPlaces, ExitPlaces
  <2>2. entry'["vk"] = "driver" /\ UNCHANGED table
    <3>1. entry["vk"] = "driver"
      BY DEF Pointer
    <3>2. CASE pc[w] = "fMembers"
      BY <1>0, <3>1, <3>2, StepAt DEF FreeMembers, UnhookAll, Redirect
    <3>3. CASE pc[w] \in {"fStop", "fDelete"}
      BY <1>0, <3>1, <3>3, StepAt DEF FreeStop, StopDetection, FreeDelete, redirects
    <3> QED
      BY <1>15, <3>2, <3>3 DEF FreePlaces
  <2>3. \A x \in Workers : pc'[x] # "dInstall"
    BY <1>2, <1>15, CallerGoes, StepAt DEF FreePlaces
  <2>4. \A i \in 1 .. MaxInst : ~ det'[i].patched
    <3>1. \A i \in 1 .. MaxInst : ~ det[i].patched
      BY <2>1 DEF Pointer
    <3>2. ~ New(w).patched
      <4>1. CASE New(w) = NewDetector
        BY <4>1 DEF NewDetector
      <4>2. CASE New(w).patched = Mine(w).patched
        BY <1>1, <3>1, <4>2 DEF Mine
      <4> QED
        BY <1>0, <1>15, <4>1, <4>2, CallerMembersOf DEF FreePlaces
    <3> QED
      BY <1>1, <1>5, <3>1, <3>2 DEF New
  <2>5. table # "detector"
    <3>1. instance # 0 => ~ det[instance].patched
      BY <1>0, <2>1 DEF Pointer, Objects
    <3> QED
      BY <1>2, <1>15, <3>1 DEF Pointer, FreePlaces
  <2>6. table = "hook" => \E x \in Workers : wpc'[x] \in {"startSaved", "free", "end", "ended"}
    BY <1>1 DEF Pointer
  <2> QED
    BY <2>2, <2>3, <2>4, <2>5, <2>6 DEF Pointer
<1>16. CASE pc[w] \notin {"dHook", "dInstall", "dRecord"} \cup ExitPlaces \cup FreePlaces
  <2>1. UNCHANGED <<redirects, instance>>
    BY <1>16, StepAt, CallerFrees, Zenon DEF ExitPlaces, FreePlaces, CallerStep, DetectLock,
       LibraryLock, Acquire, DetectEnter, DetectReset, SkipLibrary, FinishLock, Decide, Stop,
       StopDetection, Get
  <2>2. pc'[w] \notin {"dInstall", "xUnhook", "xDelete"}
    BY <1>16, CallerGoes, StepAt DEF ExitPlaces
  <2>3. /\ New(w).patched = Mine(w).patched
        /\ New(w).hooked["vk"] = Mine(w).hooked["vk"]
    BY <1>0, <1>16, <2>2, CallerMembersOf DEF ExitPlaces, FreePlaces
  <2>4. \A x \in Workers : Restored(x)' => Restored(x)
    BY <1>8, <1>9, <1>16, <2>2 DEF ExitPlaces
  <2>5. \A i \in 1 .. MaxInst : /\ det'[i].patched = det[i].patched
                                /\ det'[i].hooked["vk"] = det[i].hooked["vk"]
    BY <1>1, <1>5, <2>3 DEF Mine, New
  <2>6. \A x \in Workers : pc'[x] # "dInstall"
    BY <1>2, <2>2
  <2>7. \A x \in Workers : pc[x] # "dRecord"
    BY <1>2, <1>16
  <2>8. table = "hook" => \E x \in Workers : wpc'[x] \in {"startSaved", "free", "end", "ended"}
    BY <1>1 DEF Pointer
  <2>9. table = "detector" => instance # 0 /\ det'[instance].hooked["vk"] /\ det'[instance].patched
    BY <1>0, <2>5, <2>7 DEF Pointer, Objects
  <2> QED
    BY <2>1, <2>4, <2>5, <2>6, <2>8, <2>9 DEF Pointer, redirects
<1> QED
  BY <1>10, <1>11, <1>12, <1>13, <1>14, <1>15, <1>16 DEF ExitPlaces

\* A present only ever gives the pointer back.
LEMMA PointerPresent ==
  ASSUME Types, Pointer, NEW g \in GameThreads, PresentStep(g), UNCHANGED bridgeVars
  PROVE  Pointer'
<1>0. /\ Places /\ Objects /\ DetOK /\ "vk" \in APIs
      /\ entry \in [APIs -> {"driver", "detector", "hook"}]
      /\ self[g] \in 1 .. MaxInst /\ UNCHANGED <<self, lib, instance, ret, wpc>>
  BY PresentMoves, PresentKeeps DEF Types, APIs, Values, Objects, Threads, bridgeVars
<1>1. \A x \in Workers : pc'[x] = pc[x]
  BY <1>0, PresentMoves, ThreadAssumption DEF Goto, Places, Threads
<1>2. \A i \in 1 .. MaxInst : i # self[g] => det'[i] = det[i]
  BY <1>0, PresentDet
<1>3. /\ New(g).hooked["vk"] = Mine(g).hooked["vk"]
      /\ New(g).patched = IF pc[g] = "hRestore" THEN FALSE ELSE Mine(g).patched
  BY <1>0, PresentMembersOf
<1>4. \A i \in 1 .. MaxInst : /\ det'[i].hooked["vk"] = det[i].hooked["vk"]
                              /\ det'[i].patched => det[i].patched
                              /\ i # self[g] \/ pc[g] # "hRestore" => det'[i].patched = det[i].patched
  BY <1>0, <1>2, <1>3 DEF Mine, New
<1>5. entry'["vk"] = "driver" /\ (table' = table \/ table' = "driver")
  <2>1. CASE pc[g] = "hUnhook"
    BY <1>0, <2>1, PresentAt, Zenon DEF HandOffUnhook, UnhookAll, Redirect, Pointer
  <2>2. CASE pc[g] # "hUnhook"
    BY <2>2, PresentAt, Zenon DEF PresentStep, PresentLock, PresentCall, PresentCheck,
       HandOffRestore, RestorePatches, HandOffRenderer, HandOffDone, PresentLeave, redirects, Pointer
  <2> QED
    BY <2>1, <2>2
<1>6. pc[g] = "hRestore" => table' = IF Mine(g).patched THEN "driver" ELSE table
  BY PresentAt DEF HandOffRestore, RestorePatches
<1>7. table' = "detector" => /\ instance' # 0 /\ det'[instance'].hooked["vk"]
                             /\ \/ det'[instance'].patched
                                \/ \E w \in Workers : pc'[w] = "dRecord" /\ lib'[w] = "vk"
  <2>1. SUFFICES ASSUME table' = "detector"
                 PROVE  /\ instance # 0 /\ det'[instance].hooked["vk"]
                        /\ \/ det'[instance].patched
                           \/ \E w \in Workers : pc[w] = "dRecord" /\ lib[w] = "vk"
    BY <1>0, <1>1
  <2>2. /\ instance # 0 /\ det[instance].hooked["vk"]
        /\ \/ det[instance].patched
           \/ \E w \in Workers : pc[w] = "dRecord" /\ lib[w] = "vk"
    BY <1>5, <2>1 DEF Pointer
  <2>3. instance \in 1 .. MaxInst
    BY <1>0, <2>2 DEF Objects
  <2>4. det[instance].patched => det'[instance].patched
    BY <1>4, <1>6, <2>1, <2>3 DEF Mine
  <2> QED
    BY <1>4, <2>2, <2>3, <2>4
<1>8. table' = "hook" =>
        \E w \in Workers : wpc'[w] \in {"startSaved", "free", "end", "ended"}
  BY <1>0, <1>5 DEF Pointer
<1>9. \A w \in Workers : Restored(w)' => \A i \in 1 .. MaxInst : ~ det'[i].patched
  BY <1>0, <1>1, <1>4 DEF Pointer, Restored
<1>10. \A w \in Workers : pc'[w] = "dInstall" /\ lib'[w] = "vk" =>
                              table' = "driver" /\ det'[self'[w]].hooked["vk"]
  <2>1. \A w \in Workers : pc[w] # "out" => self[w] \in 1 .. MaxInst
    BY <1>0 DEF Objects, Threads
  <2> QED
    BY <1>0, <1>1, <1>4, <1>5, <2>1 DEF Pointer
<1> QED
  BY <1>0, <1>4, <1>5, <1>7, <1>8, <1>9, <1>10 DEF Pointer

\* Entering the detector changes nothing of this.
LEMMA PointerTaken ==
  ASSUME Types, Pointer, NEW t \in Threads, NEW to \in {"dLock", "sLock", "gLock", "fStop", "pLock"},
         TakeInst(t, to), pc[t] = "out", UNCHANGED <<redirects, det, lib, ret>>,
         \A w \in Workers : Restored(w)' => Restored(w),
         \A w \in Workers : wpc[w] \in {"startSaved", "free", "end", "ended"}
                            => wpc'[w] \in {"startSaved", "free", "end", "ended"}
  PROVE  Pointer'
<1>0. /\ Places /\ Objects /\ DetOK
      /\ instance # 0 => UNCHANGED instance
      /\ \A x \in Threads : x # t => pc'[x] = pc[x] /\ self'[x] = self[x]
      /\ pc'[t] = to
  BY DEF Types, TakeInst, Goto, Places, Objects
<1>1. entry'["vk"] = "driver" /\ table' = table
  BY DEF Pointer, redirects
<1>2. \A w \in Workers : pc'[w] = "dInstall" /\ lib'[w] = "vk" =>
                              table' = "driver" /\ det'[self'[w]].hooked["vk"]
  BY <1>0, <1>1 DEF Pointer, Threads
<1>3. \A i \in 1 .. MaxInst : det'[i].patched => i = instance'
  BY <1>0 DEF Pointer
<1>4. table' = "detector" => /\ instance' # 0 /\ det'[instance'].hooked["vk"]
                             /\ \/ det'[instance'].patched
                                \/ \E w \in Workers : pc'[w] = "dRecord" /\ lib'[w] = "vk"
  <2>1. \A w \in Workers : pc[w] = "dRecord" => pc'[w] = "dRecord"
    BY <1>0 DEF Threads
  <2> QED
    BY <1>0, <1>1, <2>1 DEF Pointer
<1>5. table' = "hook" =>
        \E w \in Workers : wpc'[w] \in {"startSaved", "free", "end", "ended"}
  BY <1>1 DEF Pointer
<1>6. \A w \in Workers : Restored(w)' => \A i \in 1 .. MaxInst : ~ det'[i].patched
  BY DEF Pointer
<1> QED
  BY <1>1, <1>2, <1>3, <1>4, <1>5, <1>6 DEF Pointer

\* The worker starts the hook only when nothing is patched.
LEMMA PointerBetween ==
  ASSUME ~ VkInline, Types, Control, Once, Pointer, NEW w \in Workers, Between(w)
  PROVE  /\ Pointer'
         /\ table' = table \/ table = "driver"
<1>0. /\ Places /\ Objects /\ "vk" \in APIs /\ entry \in [APIs -> {"driver", "detector", "hook"}]
      /\ table \in {"driver", "detector", "hook"}
      /\ UNCHANGED <<det, instance, pc, self, lib, ret>> /\ pc[w] = "out" /\ Active(w)
      /\ \A x \in Workers : x # w => wpc'[x] = wpc[x]
  BY Betweens DEF Types, Values, APIs, coreVars, Places, Active
<1>1. \A x \in Workers : x # w => wpc[x] = "none" /\ wpc'[x] = "none"
  BY <1>0, OnlyOne DEF Active
<1>2. \A x \in Workers : pc[x] = "out"
  BY <1>0, ActiveIsOne
<1>3. entry["vk"] = "driver"
  BY DEF Pointer
<1>4. CASE StartHook(w)
  <2>1. wpc[w] = "start" /\ wpc'[w] \in {"startSaved", "free"}
    BY <1>0, <1>4 DEF StartHook, WGo, Places
  <2>2. \A i \in 1 .. MaxInst : ~ det[i].patched
    BY <2>1 DEF Pointer, Restored
  <2>3. table = "driver"
    <3>1. table # "hook"
      BY <1>1, <2>1 DEF Pointer
    <3>2. table # "detector"
      BY <1>0, <1>2, <2>2 DEF Pointer, Objects
    <3> QED
      BY <1>0, <3>1, <3>2
  <2>4. entry'["vk"] = "driver" /\ table' \in {"driver", "hook"}
    <3>1. Patchable(ret[w]) \/ ret[w] # "vk"
      BY <2>3 DEF Patchable
    <3> QED
      BY <1>0, <1>3, <1>4, <2>3, <3>1 DEF StartHook, Redirect
  <2>5. table' = "hook" => wpc'[w] \in {"startSaved", "free", "end", "ended"}
    BY <2>1
  <2> QED
    BY <1>0, <1>2, <2>2, <2>3, <2>4, <2>5 DEF Pointer
<1>5. CASE UNCHANGED redirects
  <2>1. wpc[w] \in {"startSaved", "free", "end"} => wpc'[w] \in {"free", "end", "ended"}
    BY <1>0 DEF Between, PollEnd, Polled, Got, Own, StartHook, StartHookSaved, WorkerEnd, WGo, Places
  <2>2. Restored(w)' => Restored(w)
    BY <1>0 DEF Between, PollEnd, Polled, Got, Own, StartHook, StartHookSaved, WorkerEnd, WGo, Places,
       Restored, Once
  <2>3. \A x \in Workers : Restored(x)' => \A i \in 1 .. MaxInst : ~ det'[i].patched
    <3>1. \A x \in Workers : x # w => ~ Restored(x)'
      BY <1>0, <1>1, <1>2 DEF Restored
    <3> QED
      BY <1>0, <2>2, <3>1 DEF Pointer
  <2>4. table' = "hook" => \E x \in Workers : wpc'[x] \in {"startSaved", "free", "end", "ended"}
    <3>1. SUFFICES ASSUME table = "hook"
                   PROVE  wpc'[w] \in {"startSaved", "free", "end", "ended"}
      BY <1>5 DEF redirects
    <3>2. wpc[w] \in {"startSaved", "free", "end", "ended"}
      BY <1>1, <3>1 DEF Pointer
    <3> QED
      BY <1>0, <2>1, <3>2 DEF Active
  <2> QED
    BY <1>0, <1>2, <1>5, <2>3, <2>4 DEF Pointer, redirects
<1> QED
  BY <1>4, <1>5 DEF Between, PollEnd, Polled, Got, Own, StartHookSaved, WorkerEnd, detVars

\* Nobody is inside stop, and start touches nothing of this.
LEMMA PointerControl ==
  ASSUME Types, Once, Pointer, NEW c \in Controllers, Controller(c)
  PROVE  Pointer' /\ UNCHANGED table
<1>0. cpc[c] \notin StopPlaces /\ UNCHANGED <<det, instance, pc, self, lib, ret>>
  BY Controls DEF Once, coreVars
<1>1. UNCHANGED redirects
  BY <1>0 DEF Controller, StartExchange, StartClear, StartSpawn, StopExchange, StopSignal,
     StopJoin, StopTake, StopNotify, StopUnhook, StopFree, StopReturn, CGo, StopPlaces, detVars
<1>2. \A w \in Workers : wpc'[w] = wpc[w] \/ (wpc[w] = "none" /\ wpc'[w] = "begin")
  <2>1. CASE StartSpawn(c)
    <3>1. PICK w \in Workers \ spawned : wpc' = [wpc EXCEPT ![w] = "begin"]
      BY <2>1 DEF StartSpawn
    <3> QED
      BY <3>1 DEF Types, Bridge, Places
  <2> QED
    BY <1>0, <2>1 DEF Controller, StartExchange, StartClear, StopExchange,
       StopSignal, StopJoin, StopTake, StopNotify, StopUnhook, StopFree, StopReturn
<1>3. \A w \in Workers : Restored(w)' => Restored(w)
  BY <1>0, <1>2 DEF Restored
<1>4. \A w \in Workers : wpc[w] \in {"startSaved", "free", "end", "ended"}
                         => wpc'[w] \in {"startSaved", "free", "end", "ended"}
  BY <1>2
<1> QED
  BY <1>0, <1>1, <1>3, <1>4 DEF Pointer, redirects

\* Before the first stop the pointer leads where the invariant says, and is
\* only redirected from the driver or back to it.
LEMMA PointerStep ==
  ASSUME OneController, ~ VkInline, Types, Control, Held, Once, Pointer, [Next]_vars
  PROVE  Pointer' /\ (table' = table \/ table = "driver" \/ table' = "driver")
<1>0. Places /\ "vk" \in APIs /\ \A w \in Workers : lib[w] \in APIs
  BY DEF Types, APIs, Values
<1>1. ASSUME NEW w \in Workers, CallerStep(w), UNCHANGED bridgeVars
      PROVE  Pointer' /\ (table' = table \/ table = "driver" \/ table' = "driver")
  <2>0. Pointer'
    BY <1>1, PointerCaller
  <2>1. CASE pc[w] = "dInstall"
    BY <1>1, <2>0, <2>1, StepAt, Zenon DEF Install, Patchable
  <2>2. CASE pc[w] # "dInstall"
    BY <1>1, <2>0, <2>2, StepAt, Zenon DEF CallerStep, DetectLock, LibraryLock, Acquire, DetectEnter,
       DetectReset, SkipLibrary, HookLibrary, Record, FinishLock, Decide, ExitRestore,
       RestorePatches, ExitUnhook, UnhookAll, ExitDelete, Stop, FreeStop, StopDetection, Get,
       FreeDelete, FreeMembers, redirects
  <2> QED
    BY <2>1, <2>2
<1>2. ASSUME NEW w \in Workers, Begin(w)
      PROVE  Pointer' /\ UNCHANGED table
  <2>1. /\ UNCHANGED <<redirects, det, lib, ret>> /\ pc[w] = "out" /\ w \in Threads
        /\ \A x \in Workers : x # w => wpc'[x] = wpc[x] /\ pc'[x] = pc[x]
    BY <1>2, Begins DEF Types, Places, TakeInst, Goto, Threads
  <2>2. PICK to \in {"dLock", "sLock", "gLock", "fStop"} : TakeInst(w, to)
    BY <1>2, Begins DEF Types
  <2>3. /\ pc'[w] \in {"dLock", "sLock", "gLock", "fStop"}
        /\ \/ wpc'[w] \in {"stopFirst", "poll", "polled"}
           \/ wpc[w] = "get" /\ wpc'[w] = "got"
           \/ wpc[w] = "free" /\ wpc'[w] = "end"
           \/ wpc[w] = "giveUp" /\ wpc'[w] = "free"
    BY <1>0, <1>2, <2>1, <2>2, Begins DEF Types, CallBegun, TakeInst, Goto
  <2>4. \A x \in Workers : wpc[x] \in {"startSaved", "free", "end", "ended"}
                         => wpc'[x] \in {"startSaved", "free", "end", "ended"}
    BY <1>2, <2>1, Begins DEF Types, CallBegun
  <2>5. \A x \in Workers : Restored(x)' => Restored(x)
    <3>1. Restored(w)' => Restored(w)
      BY <2>3 DEF Restored
    <3> QED
      BY <2>1, <3>1 DEF Restored
  <2> QED
    BY <2>1, <2>2, <2>4, <2>5, PointerTaken DEF redirects
<1>3. ASSUME NEW g \in GameThreads, Present(g), UNCHANGED bridgeVars
      PROVE  Pointer' /\ UNCHANGED table
  <2>1. /\ UNCHANGED <<redirects, det, lib, ret, wpc>> /\ pc[g] = "out" /\ g \in Threads
        /\ TakeInst(g, "pLock") /\ \A x \in Workers : pc'[x] = pc[x]
    BY <1>0, <1>3, ThreadAssumption DEF Present, At, TakeInst, Goto, Places, Threads, bridgeVars
  <2>2. \A x \in Workers : Restored(x)' => Restored(x)
    BY <2>1 DEF Restored
  <2> QED
    BY <2>1, <2>2, PointerTaken DEF redirects
<1>4. ASSUME NEW g \in GameThreads, PresentStep(g), UNCHANGED bridgeVars
      PROVE  Pointer' /\ (table' = table \/ table' = "driver")
  <2>1. table' = table \/ table' = "driver"
    BY <1>4 DEF PresentStep, PresentLock, PresentCall, PresentCheck, HandOffRestore, RestorePatches,
       HandOffUnhook, UnhookAll, HandOffRenderer, HandOffDone, PresentLeave, redirects
  <2> QED
    BY <1>4, <2>1, PointerPresent
<1>5. CASE UNCHANGED <<redirects, instance, det, pc, self, lib, ret, wpc>>
  BY <1>5 DEF Pointer, Restored, redirects
<1> QED
  BY <1>1, <1>2, <1>3, <1>4, <1>5, NextSteps, PointerBetween, PointerControl, Frames, Idles
     DEF frameFrame, bridgeVars

\* What holds before the first stop, with what holds always.
VInv == CInv /\ Held /\ (stops = 0 => Once /\ Pointer)

\* At first nothing is patched.
LEMMA VInvInit == Init => VInv
<1> SUFFICES ASSUME Init PROVE VInv
  OBVIOUS
<1>1. CInv
  BY TypesInit, ControlInit DEF CInv
<1>2. Held
  BY DetectorInitially DEF Held, Init, DetectorInit
<1>3. Once
  BY DEF Once, Init, BridgeInit, StopPlaces
<1>4. Pointer
  BY DetectorInitially DEF Pointer, Restored, Init, DetectorInit, NewDetector, APIs
<1> QED
  BY <1>1, <1>2, <1>3, <1>4 DEF VInv

\* Before the first stop the pointer is only redirected from the driver or
\* back to it.
LEMMA VInvStep ==
  ASSUME OneController, ~ VkInline, VInv, [Next]_vars
  PROVE  /\ VInv'
         /\ stops = 0 => /\ entry["vk"] = "driver" /\ entry'["vk"] = "driver"
                         /\ table' = table \/ table = "driver" \/ table' = "driver"
<1>1. CInv' /\ Held' /\ Types /\ Control
  BY CStep, HeldStep DEF VInv, CInv
<1>2. stops' = 0 => stops = 0 /\ UNCHANGED stops
  <2>1. stops \in Nat
    BY <1>1, StopsAssumption DEF Types, Bridge
  <2>2. stops' = stops \/ stops' = stops + 1
    <3>1. ASSUME NEW c \in Controllers, StopExchange(c) PROVE stops' = stops + 1
      BY <3>1 DEF StopExchange
    <3> QED
      BY <1>1, <3>1, StopsStep
  <2> QED
    BY <2>1, <2>2
<1>3. ASSUME stops = 0
      PROVE  /\ Pointer /\ Pointer'
             /\ table' = table \/ table = "driver" \/ table' = "driver"
  BY <1>1, <1>3, PointerStep DEF VInv
<1>4. stops' = 0 => Once'
  BY <1>1, <1>2, OnceStep DEF VInv
<1> QED
  BY <1>1, <1>2, <1>3, <1>4 DEF VInv, Pointer

\* Until the first stop, whatever a present of the game lands in, a patched
\* pointer's target, a detector's detour or the hook, it lands in the driver
\* before it lands elsewhere, whatever the game's threads present with.
THEOREM NeverStackedUnstoppedProved ==
  ASSUME OneController
  PROVE  Spec => NeverStackedUnstopped
<1>1. CASE VkInline
  <2>1. DetouredGame
    BY <1>1 DEF DetouredGame
  <2>2. NeverStacked => NeverStackedUnstopped
    <3>1. [~ Stacks]_vars => [stops = 0 => ~ Stacks]_vars
      OBVIOUS
    <3> QED
      BY <3>1, PTL DEF NeverStacked, NeverStackedUnstopped
  <2> QED
    BY <2>1, <2>2, NeverStackedProved
<1>2. CASE ~ VkInline
  <2>1. Init => VInv
    BY VInvInit
  <2>2. VInv /\ [Next]_vars => VInv'
    BY <1>2, VInvStep
  <2>3. GInv /\ VInv /\ [Next]_vars => [stops = 0 => ~ Stacks]_vars
    <3> SUFFICES ASSUME GInv, VInv, [Next]_vars, stops = 0, NEW g \in GameThreads,
                        Redirection(PresentAPI[g])' # Redirection(PresentAPI[g]),
                        Lands(PresentAPI[g]) # "driver", Lands(PresentAPI[g])' # "driver"
                 PROVE  FALSE
      BY DEF Stacks
    <3>1. /\ entry["vk"] = "driver" /\ entry'["vk"] = "driver"
          /\ table' = table \/ table = "driver" \/ table' = "driver"
      BY <1>2, VInvStep
    <3>2. CASE PresentAPI[g] = "vk"
      <4>1. table # "driver" /\ table' # "driver"
        BY <3>1, <3>2 DEF Lands
      <4>2. table' # table
        BY <3>1, <3>2 DEF Redirection
      <4> QED
        BY <3>1, <4>1, <4>2
    <3>3. CASE PresentAPI[g] # "vk"
      <4>1. PresentAPI[g] \in APIs
        BY APIAssumption
      <4>2. /\ entry[PresentAPI[g]] # "driver" /\ entry'[PresentAPI[g]] # "driver"
            /\ entry'[PresentAPI[g]] # entry[PresentAPI[g]]
        BY <3>3 DEF Lands, Redirection
      <4> QED
        BY <4>1, <4>2, NotEnteredTwice DEF GInv, CInv
    <3> QED
      BY <3>2, <3>3
  <2> QED
    BY <2>1, <2>2, <2>3, AnyGameInvariant, PTL DEF Spec, NeverStackedUnstopped
<1> QED
  BY <1>1, <1>2

=============================================================================
