-------------------------- MODULE RendererDetector --------------------------
(***************************************************************************)
(* The Linux renderer detector (src/Linux/RendererDetector.cpp).           *)
(*                                                                         *)
(* Callers (an injected worker thread) use the API: DetectRenderer,        *)
(* StopRendererDetection, GetDetectedRenderer, FreeDetector.  A pass of    *)
(* DetectRenderer redirects the present function of each loaded graphics   *)
(* library to the detector.  The first present of the game that lands      *)
(* there undoes the redirections and hands the renderer hook over.         *)
(*                                                                         *)
(* The recursive mutex _RendererMutex is held by every caller and by the   *)
(* OpenGL present, but the Vulkan present only tries it and goes on without *)
(* it.  A detector object is numbered when it is constructed, so that a    *)
(* thread may still hold one that has been freed.  Using freed memory, a   *)
(* null function or a freed trampoline ends the process: `fault'.          *)
(***************************************************************************)
EXTENDS Naturals, FiniteSets

CONSTANTS GameThreads,  \* threads of the game that present frames
          PresentAPI,   \* the API each of them presents with
          Callers,      \* threads that use the detector's API
          Usable,       \* APIs whose driver resolves every function needed
          Modern,       \* gladLoaderLoadGL() finds OpenGL 3.1 or later
          VkInline,     \* no stored pointer to vkQueuePresentKHR can be found
          MaxInst,      \* bound: detector objects constructed
          NoThread

APIs == {"glx", "vk"}
Threads == GameThreads \cup Callers

ASSUME ThreadAssumption == GameThreads \cap Callers = {} /\ NoThread \notin Threads
ASSUME APIAssumption == PresentAPI \in [GameThreads -> APIs] /\ Usable \subseteq APIs
ASSUME InstAssumption == MaxInst \in Nat \ {0}
ASSUME BuildAssumption == Modern \in BOOLEAN /\ VkInline \in BOOLEAN

VARIABLES loaded,    \* libraries the game has loaded
          entry,     \* whom each driver's present function is detoured to
          table,     \* whom the game's stored vkQueuePresentKHR points to
          hookObj,   \* the renderer hook singletons
          instance,  \* RendererDetector_t::_Instance, 0 when null
          created,   \* detector objects constructed so far
          freed,     \* detector objects whose destructor has finished
          det,       \* the members of each detector object
          pc,        \* where each thread is
          self,      \* the detector object a thread is working on
          lib,       \* the library a caller's pass is at
          restart,   \* the restart argument of a caller's DetectRenderer
          ret,       \* what a caller's last call returned
          fault

redirects == <<entry, table>>

detVars == <<loaded, redirects, hookObj, instance, created, freed, det, pc, self,
             lib, restart, ret, fault>>

\* Members of a new RendererDetector_t.  orig is _GLXSwapBuffers and
\* _VkQueuePresentKHR, hook is _OpenGLXHook and _VulkanHook (FALSE: null),
\* detours the functions in _DetectionHooks, patched whether
\* _PresentPatchedAddresses is non-empty.
NewDetector ==
    [lock |-> NoThread, started |-> FALSE, done |-> FALSE, renderer |-> "none",
     hooked |-> [a \in APIs |-> FALSE], hook |-> [a \in APIs |-> FALSE],
     orig |-> [a \in APIs |-> "null"], detours |-> {}, patched |-> FALSE]

\* Members of a hook singleton that does not exist.  orig is the address of
\* the driver's function ("raw") or the trampoline of a detour.
NoHook == [alive |-> FALSE, orig |-> "null", hooked |-> FALSE,
           patched |-> FALSE, ready |-> FALSE, gen |-> 0]

DetectorInit ==
    /\ loaded = {}
    /\ entry = [a \in APIs |-> "driver"]
    /\ table = "driver"
    /\ hookObj = [a \in APIs |-> NoHook]
    /\ instance = 0
    /\ created = 0
    /\ freed = {}
    /\ det = [i \in 1 .. MaxInst |-> NewDetector]
    /\ pc = [t \in Threads |-> "out"]
    /\ self = [t \in Threads |-> 0]
    /\ lib = [w \in Callers |-> "glx"]
    /\ restart = [w \in Callers |-> FALSE]
    /\ ret = [w \in Callers |-> "none"]
    /\ fault = "none"

Goto(t, to) == pc' = [pc EXCEPT ![t] = to]
At(t, from) == pc[t] = from /\ fault = "none"

\* A thread is inside the detector object it works on, which still exists.
Within(t, from) == At(t, from) /\ self[t] \notin freed

Mine(t) == det[self[t]]
Owner(t) == Mine(t).lock

\* Where the game's present call of an API lands.
Lands(a) == IF a = "vk" /\ table # "driver" THEN table ELSE entry[a]

\* PatchFunctionPointer finds the game's pointer while it still has the
\* driver's address in it.
Patchable(a) == a = "vk" /\ ~ VkInline /\ table = "driver"

Redirect(as, to) == [a \in APIs |-> IF a \in as THEN to ELSE entry[a]]

\* auto inst = Inst(): the singleton, constructed on first use.
TakeInst(t, to) ==
    /\ instance = 0 => created < MaxInst
    /\ LET i == IF instance = 0 THEN created + 1 ELSE instance
       IN  /\ instance' = i
           /\ created' = IF instance = 0 THEN i ELSE created
           /\ self' = [self EXCEPT ![t] = i]
    /\ Goto(t, to)

\* The game loads a graphics library at some point (dlopen).
LoadLibrary(a) ==
    /\ fault = "none"
    /\ a \notin loaded
    /\ loaded' = loaded \cup {a}
    /\ UNCHANGED <<redirects, hookObj, instance, created, freed, det, pc, self,
                   lib, restart, ret, fault>>

-----------------------------------------------------------------------------
(* bool DetectRenderer(bool restart, ...)                                  *)

DetectCall(w, again) ==
    /\ At(w, "out")
    /\ TakeInst(w, "dLock")
    /\ restart' = [restart EXCEPT ![w] = again]
    /\ UNCHANGED <<loaded, redirects, hookObj, freed, det, lib, ret, fault>>

Acquire(w, from, to) ==
    /\ Within(w, from)
    /\ Owner(w) = NoThread
    /\ det' = [det EXCEPT ![self[w]].lock = w]
    /\ Goto(w, to)
    /\ UNCHANGED <<loaded, redirects, hookObj, instance, created, freed, self, lib,
                   restart, ret, fault>>

DetectLock(w) == Acquire(w, "dLock", "dEnter")

\* A finished detection is reported, unless it found nothing and the caller
\* wants it restarted; otherwise go on to the libraries.
DetectEnter(w) ==
    /\ Within(w, "dEnter")
    /\ IF ~ Mine(w).done
       THEN /\ Goto(w, "dLibrary")
            /\ det' = [det EXCEPT ![self[w]].lock = NoThread]
       ELSE /\ Goto(w, IF Mine(w).renderer # "none" \/ ~ restart[w]
                       THEN "xDone" ELSE "dReset")
            /\ UNCHANGED det
    /\ lib' = [lib EXCEPT ![w] = "glx"]
    /\ UNCHANGED <<loaded, redirects, hookObj, instance, created, freed, self,
                   restart, ret, fault>>

\* Mutant: restarting forgets to clear _DetectionDone.
DetectResetDone(w) ==
    /\ Within(w, "dReset")
    /\ det' = [det EXCEPT ![self[w]].started = FALSE,
                          ![self[w]].lock = NoThread]
    /\ Goto(w, "dLibrary")
    /\ UNCHANGED <<loaded, redirects, hookObj, instance, created, freed, self, lib,
                   restart, ret, fault>>

DetectReset(w) ==
    /\ Within(w, "dReset")
    /\ det' = [det EXCEPT ![self[w]].started = FALSE, ![self[w]].done = FALSE,
                          ![self[w]].lock = NoThread]
    /\ Goto(w, "dLibrary")
    /\ UNCHANGED <<loaded, redirects, hookObj, instance, created, freed, self, lib,
                   restart, ret, fault>>

\* RendererLibraries is walked in order: OpenGL, then Vulkan.
NextLibrary(w) ==
    IF lib[w] = "glx" THEN lib' = [lib EXCEPT ![w] = "vk"] /\ Goto(w, "dLibrary")
                      ELSE UNCHANGED lib /\ Goto(w, "dFinish")

SkipLibrary(w) ==
    /\ Within(w, "dLibrary")
    /\ lib[w] \notin loaded
    /\ NextLibrary(w)
    /\ UNCHANGED <<loaded, redirects, hookObj, instance, created, freed, det, self,
                   restart, ret, fault>>

LibraryLock(w) == lib[w] \in loaded /\ Acquire(w, "dLibrary", "dHook")

\* _HookOpenGLX and _HookVulkan: once per library, if its driver is usable,
\* get the hook singleton and remember the function to redirect.
HookLibrary(w) ==
    LET a == lib[w]
        fresh == ~ Mine(w).done /\ ~ Mine(w).hooked[a] /\ a \in Usable
    IN  /\ Within(w, "dHook")
        /\ IF fresh
           THEN /\ det' = [det EXCEPT ![self[w]].hooked[a] = TRUE,
                                      ![self[w]].hook[a] = TRUE,
                                      ![self[w]].orig[a] = "raw"]
                /\ hookObj' = [hookObj EXCEPT ![a].alive = TRUE,
                                              ![a].orig = "raw"]
                /\ Goto(w, "dInstall")
                /\ UNCHANGED lib
           ELSE /\ det' = [det EXCEPT ![self[w]].lock = NoThread]
                /\ UNCHANGED hookObj
                /\ IF Mine(w).done THEN UNCHANGED lib /\ Goto(w, "dFinish")
                                   ELSE NextLibrary(w)
        /\ UNCHANGED <<loaded, redirects, instance, created, freed, self, restart,
                       ret, fault>>

\* From here on the game's presents land in the detector: its pointer is
\* patched or, if none is found, the driver's function is detoured.
Install(w) ==
    LET a == lib[w]
    IN  /\ Within(w, "dInstall")
        /\ IF Patchable(a)
           THEN table' = "detector" /\ UNCHANGED entry
           ELSE entry' = Redirect({a}, "detector") /\ UNCHANGED table
        /\ Goto(w, "dRecord")
        /\ UNCHANGED <<loaded, hookObj, instance, created, freed, det, self,
                       lib, restart, ret, fault>>

\* The patched address is pushed to the vector, or the detour is kept and the
\* saved original becomes its trampoline.
Record(w) ==
    LET a == lib[w]
        detour == entry[a] = "detector"
    IN  /\ Within(w, "dRecord")
        /\ det' = [det EXCEPT
                     ![self[w]].patched = @ \/ ~ detour,
                     ![self[w]].detours = IF detour THEN @ \cup {a} ELSE @,
                     ![self[w]].orig[a] = IF detour THEN "tramp" ELSE @,
                     ![self[w]].lock = NoThread]
        /\ NextLibrary(w)
        /\ UNCHANGED <<loaded, redirects, hookObj, instance, created, freed,
                       self, restart, ret, fault>>

FinishLock(w) ==
    /\ Within(w, "dFinish")
    /\ Owner(w) = NoThread
    /\ det' = [det EXCEPT ![self[w]].lock = w, ![self[w]].started = TRUE]
    /\ Goto(w, "dDecide")
    /\ UNCHANGED <<loaded, redirects, hookObj, instance, created, freed, self, lib,
                   restart, ret, fault>>

Decide(w) ==
    /\ Within(w, "dDecide")
    /\ IF Mine(w).done
       THEN Goto(w, "xDone") /\ UNCHANGED <<det, ret>>
       ELSE /\ Goto(w, "out")
            /\ det' = [det EXCEPT ![self[w]].lock = NoThread]
            /\ ret' = [ret EXCEPT ![w] = "continue"]
    /\ UNCHANGED <<loaded, redirects, hookObj, instance, created, freed, self, lib,
                   restart, fault>>

-----------------------------------------------------------------------------
(* _ExitDetection, under the mutex                                         *)

\* Mutant: the recorded addresses are forgotten without restoring them.
RestoreNone(t, to) == UNCHANGED redirects /\ Goto(t, to)

\* RestoreFunctionPointers: the recorded addresses get the original back.
RestorePatches(t, to) ==
    /\ table' = IF Mine(t).patched THEN "driver" ELSE table
    /\ UNCHANGED entry
    /\ Goto(t, to)

ExitRestore(w) ==
    /\ Within(w, "xDone")
    /\ RestorePatches(w, "xUnhook")
    /\ det' = [det EXCEPT ![self[w]].done = TRUE, ![self[w]].patched = FALSE]
    /\ UNCHANGED <<loaded, hookObj, instance, created, freed, self, lib,
                   restart, ret, fault>>

\* Mutant: the list of detours is dropped, the detours stay.
UnhookNone(t, to) == UNCHANGED redirects /\ Goto(t, to)

\* _DetectionHooks.UnhookAll(): every detour is undone, its trampoline freed.
UnhookAll(t, to) ==
    /\ entry' = Redirect(Mine(t).detours, "driver")
    /\ UNCHANGED table
    /\ Goto(t, to)

ExitUnhook(w) ==
    /\ Within(w, "xUnhook")
    /\ UnhookAll(w, "xDelete")
    /\ det' = [det EXCEPT ![self[w]].detours = {}]
    /\ UNCHANGED <<loaded, hookObj, instance, created, freed, self, lib,
                   restart, ret, fault>>

\* The hook objects that were not handed over are deleted.
DeleteHooks(i) ==
    hookObj' = [a \in APIs |-> IF det[i].hook[a]
                               THEN [NoHook EXCEPT !.gen = hookObj[a].gen]
                               ELSE hookObj[a]]

ExitDelete(w) ==
    /\ Within(w, "xDelete")
    /\ DeleteHooks(self[w])
    /\ det' = [det EXCEPT ![self[w]].hooked = [a \in APIs |-> FALSE],
                          ![self[w]].hook = [a \in APIs |-> FALSE],
                          ![self[w]].lock = NoThread]
    /\ ret' = [ret EXCEPT ![w] = "done"]
    /\ Goto(w, "out")
    /\ UNCHANGED <<loaded, redirects, instance, created, freed, self, lib, restart,
                   fault>>

-----------------------------------------------------------------------------
(* StopRendererDetection, GetDetectedRenderer, FreeDetector                *)

Call(w, to) ==
    /\ At(w, "out")
    /\ TakeInst(w, to)
    /\ UNCHANGED <<loaded, redirects, hookObj, freed, det, lib, restart, ret, fault>>

StopCall(w) == Call(w, "sLock")
GetCall(w) == Call(w, "gLock")
FreeCall(w) == Call(w, "fStop")

StopDetection(w, from, to) ==
    /\ Within(w, from)
    /\ Owner(w) = NoThread
    /\ det' = [det EXCEPT ![self[w]].done = TRUE]
    /\ Goto(w, to)
    /\ UNCHANGED <<loaded, redirects, hookObj, instance, created, freed, self, lib,
                   restart, ret, fault>>

Stop(w) == StopDetection(w, "sLock", "out")

\* Mutant: the flag is returned instead of the renderer.
GetFlag(w) ==
    /\ Within(w, "gLock")
    /\ Owner(w) = NoThread
    /\ ret' = [ret EXCEPT ![w] = IF Mine(w).done THEN "found" ELSE "none"]
    /\ Goto(w, "out")
    /\ UNCHANGED <<loaded, redirects, hookObj, instance, created, freed, det, self,
                   lib, restart, fault>>

Get(w) ==
    /\ Within(w, "gLock")
    /\ Owner(w) = NoThread
    /\ ret' = [ret EXCEPT ![w] = IF Mine(w).done THEN Mine(w).renderer
                                 ELSE "none"]
    /\ Goto(w, "out")
    /\ UNCHANGED <<loaded, redirects, hookObj, instance, created, freed, det, self,
                   lib, restart, fault>>

\* delete Inst(): the destructor's body stops the detection, deletes the hooks
\* it still has and clears _Instance; only then do the members' destructors
\* undo the detours.  Patched pointers are not restored.
FreeStop(w) == StopDetection(w, "fStop", "fDelete")

FreeDelete(w) ==
    /\ Within(w, "fDelete")
    /\ DeleteHooks(self[w])
    /\ instance' = 0
    /\ Goto(w, "fMembers")
    /\ UNCHANGED <<loaded, redirects, created, freed, det, self, lib, restart, ret,
                   fault>>

FreeMembers(w) ==
    /\ Within(w, "fMembers")
    /\ UnhookAll(w, "out")
    /\ freed' = freed \cup {self[w]}
    /\ det' = [det EXCEPT ![self[w]] = NewDetector]
    /\ UNCHANGED <<loaded, hookObj, instance, created, self, lib, restart, ret,
                   fault>>

-----------------------------------------------------------------------------
(* The game presents: _MyGLXSwapBuffers and _MyvkQueuePresentKHR           *)

Present(g) ==
    /\ At(g, "out")
    /\ PresentAPI[g] \in loaded
    /\ Lands(PresentAPI[g]) = "detector"
    /\ TakeInst(g, "pLock")
    /\ UNCHANGED <<loaded, redirects, hookObj, freed, det, lib, restart, ret, fault>>

\* Mutant: OpenGL only tries the mutex too.
PresentTryLock(g) ==
    /\ Within(g, "pLock")
    /\ det' = [det EXCEPT ![self[g]].lock = IF @ = NoThread THEN g ELSE @]
    /\ Goto(g, "pCall")
    /\ UNCHANGED <<loaded, redirects, hookObj, instance, created, freed, self, lib,
                   restart, ret, fault>>

\* lock_guard for OpenGL; try_to_lock, its outcome ignored, for Vulkan.
PresentLock(g) ==
    /\ Within(g, "pLock")
    /\ \/ Owner(g) = NoThread /\ det' = [det EXCEPT ![self[g]].lock = g]
       \/ Owner(g) # NoThread /\ PresentAPI[g] = "vk" /\ UNCHANGED det
    /\ Goto(g, "pCall")
    /\ UNCHANGED <<loaded, redirects, hookObj, instance, created, freed, self, lib,
                   restart, ret, fault>>

\* The original is called first.  While a detour is in place but the saved
\* original is not yet its trampoline, the call lands in the detector again.
PresentCall(g) ==
    LET a == PresentAPI[g]
        o == Mine(g).orig[a]
    IN  /\ Within(g, "pCall")
        /\ CASE o = "null" -> fault' = "null" /\ UNCHANGED pc
             [] o = "tramp" /\ a \notin Mine(g).detours ->
                  fault' = "trampoline" /\ UNCHANGED pc
             [] o = "raw" /\ entry[a] = "detector" ->
                  Goto(g, "pLock") /\ UNCHANGED fault
             [] OTHER -> Goto(g, "pCheck") /\ UNCHANGED fault
        /\ UNCHANGED <<loaded, redirects, hookObj, instance, created, freed, det,
                       self, lib, restart, ret>>

PresentCheck(g) ==
    /\ Within(g, "pCheck")
    /\ Goto(g, IF /\ Mine(g).started /\ ~ Mine(g).done
                  /\ IF PresentAPI[g] = "vk" THEN Mine(g).hooked["vk"] ELSE Modern
               THEN "hRestore" ELSE "pLeave")
    /\ UNCHANGED <<loaded, redirects, hookObj, instance, created, freed, det, self,
                   lib, restart, ret, fault>>

\* _HookDetected: undo the redirections, hand the hook over, finish.
HandOffRestore(g) ==
    /\ Within(g, "hRestore")
    /\ RestorePatches(g, "hUnhook")
    /\ det' = [det EXCEPT ![self[g]].patched = FALSE]
    /\ UNCHANGED <<loaded, hookObj, instance, created, freed, self, lib,
                   restart, ret, fault>>

HandOffUnhook(g) ==
    /\ Within(g, "hUnhook")
    /\ UnhookAll(g, "hRenderer")
    /\ det' = [det EXCEPT ![self[g]].detours = {}]
    /\ UNCHANGED <<loaded, hookObj, instance, created, freed, self, lib,
                   restart, ret, fault>>

\* Mutant: the handed-over hook is not taken from the detector.
HandOffKeep(g) ==
    LET a == PresentAPI[g]
    IN  /\ Within(g, "hRenderer")
        /\ det' = [det EXCEPT
                     ![self[g]].renderer = IF Mine(g).hook[a] THEN a ELSE "none"]
        /\ Goto(g, "hDone")
        /\ UNCHANGED <<loaded, redirects, hookObj, instance, created, freed, self,
                       lib, restart, ret, fault>>

HandOffRenderer(g) ==
    LET a == PresentAPI[g]
    IN  /\ Within(g, "hRenderer")
        /\ det' = [det EXCEPT
                     ![self[g]].renderer = IF Mine(g).hook[a] THEN a ELSE "none",
                     ![self[g]].hook[a] = FALSE]
        /\ Goto(g, "hDone")
        /\ UNCHANGED <<loaded, redirects, hookObj, instance, created, freed, self,
                       lib, restart, ret, fault>>

HandOffDone(g) ==
    /\ Within(g, "hDone")
    /\ det' = [det EXCEPT ![self[g]].done = TRUE]
    /\ Goto(g, "pLeave")
    /\ UNCHANGED <<loaded, redirects, hookObj, instance, created, freed, self, lib,
                   restart, ret, fault>>

PresentLeave(g) ==
    /\ Within(g, "pLeave")
    /\ det' = [det EXCEPT ![self[g]].lock = IF @ = g THEN NoThread ELSE @]
    /\ Goto(g, "out")
    /\ UNCHANGED <<loaded, redirects, hookObj, instance, created, freed, self, lib,
                   restart, ret, fault>>

\* A thread goes on with a detector that has been freed under it.
UseFreed(t) ==
    /\ fault = "none"
    /\ pc[t] # "out"
    /\ self[t] \in freed
    /\ fault' = "freed"
    /\ UNCHANGED <<loaded, redirects, hookObj, instance, created, freed, det, pc,
                   self, lib, restart, ret>>

-----------------------------------------------------------------------------
\* What a caller does inside a call.
CallerStep(w) ==
    \/ DetectLock(w) \/ DetectEnter(w) \/ DetectReset(w)
    \/ SkipLibrary(w) \/ LibraryLock(w) \/ HookLibrary(w)
    \/ Install(w) \/ Record(w) \/ FinishLock(w) \/ Decide(w)
    \/ ExitRestore(w) \/ ExitUnhook(w) \/ ExitDelete(w)
    \/ Stop(w) \/ Get(w)
    \/ FreeStop(w) \/ FreeDelete(w) \/ FreeMembers(w)

PresentStep(g) ==
    \/ PresentLock(g) \/ PresentCall(g) \/ PresentCheck(g)
    \/ HandOffRestore(g) \/ HandOffUnhook(g) \/ HandOffRenderer(g)
    \/ HandOffDone(g) \/ PresentLeave(g)

-----------------------------------------------------------------------------
DetectorType ==
    [lock : Threads \cup {NoThread}, started : BOOLEAN, done : BOOLEAN,
     renderer : APIs \cup {"none"},
     hooked : [APIs -> BOOLEAN], hook : [APIs -> BOOLEAN],
     orig : [APIs -> {"null", "raw", "tramp"}],
     detours : SUBSET APIs, patched : BOOLEAN]

HookType == [alive : BOOLEAN, orig : {"null", "raw", "tramp"},
             hooked : BOOLEAN, patched : BOOLEAN, ready : BOOLEAN, gen : Nat]

DetectorTypeOK ==
    /\ loaded \subseteq APIs
    /\ entry \in [APIs -> {"driver", "detector", "hook"}]
    /\ table \in {"driver", "detector", "hook"}
    /\ hookObj \in [APIs -> HookType]
    /\ instance \in 0 .. MaxInst
    /\ created \in 0 .. MaxInst
    /\ freed \subseteq 1 .. MaxInst
    /\ det \in [1 .. MaxInst -> DetectorType]
    /\ \A t \in Threads : pc[t] = "out" \/ self[t] \in 1 .. MaxInst
    /\ lib \in [Callers -> APIs]
    /\ restart \in [Callers -> BOOLEAN]
    /\ ret \in [Callers -> APIs \cup {"none", "continue", "done"}]
    /\ fault \in {"none", "null", "trampoline", "freed"}
=============================================================================
