# Verification of ingame_overlay

ingame_overlay is injected into a game, finds out which graphics API the game
renders with, redirects the game's present function, and draws an ImGui
overlay into every frame on the game's own thread. `bridge/` wraps it in a C
API (`everyone_overlay_start`, `_stop`, `_is_ready`, ...) for a C# mod.

This directory holds TLA+ models of that program, configurations that
model-check them with TLC, and theorems about them checked by TLAPS. Paths are
relative to the repository's root (`src/` here means its directory of sources).

## 1. Inventory

### Components

**Bridge** (`bridge/everyone_overlay.cpp`). State: `g_started`, `g_stop`,
`g_ready` (atomics), `g_renderer`, `g_worker`, texts under `g_mutex`.
Operations: start (spawn a worker), stop (signal, join, delete the hook),
is_ready, setters. The worker polls the detector, takes over the renderer hook,
installs the callbacks, starts it, frees the detector. The callbacks run on the
game's thread. *Hard*: start, stop, the worker and the game's present interleave;
stop must not return while something still uses what it deletes. *Correct when*:
a stopped overlay leaves nothing behind; a started one eventually shows up;
no callback reaches a deleted hook.

**Renderer detector** (`src/Linux/RendererDetector.cpp`, `src/Windows/...`,
`src/MacOSX/...`). State: a singleton with a recursive mutex, `_DetectionStarted`,
`_DetectionDone`, `_RendererHook`, per library a "hooked" flag, a hook singleton
and the saved original, the list of detours and of patched pointers.
Operations: DetectRenderer(restart), StopRendererDetection, GetDetectedRenderer,
FreeDetector, and the two intercepted presents. *Hard*: the Vulkan present uses
`try_to_lock` and goes on without the lock; the present may hold an instance that
is freed; installation is two steps (redirect, then save the original).
*Correct when*: exactly one renderer is handed over, the redirections are undone
before the hook makes its own and when the detector is freed, no present calls
an original that is not there.

**Redirection** (`src/BaseHook.cpp`: inline detours over vendored mini_detour;
`src/Linux/PresentPointerHook.cpp`: stored pointers found and patched in memory).
State: the detours of each owner, patched addresses. *Correct when*: undone by
its owner, in reverse order, and never stacked by accident.

**Renderer hooks** (`src/Linux/OpenGLXHook.cpp`, `VulkanHook.cpp`; seven more on
Windows and macOS). State: readiness, the saved present, image resources with
load and release queues, the frame counter; for Vulkan also frames, fences,
descriptor pools, swapchain data. Operations: StartHook, the hooked present
(prepare, OverlayProc, upload, release, render, original), swapchain
and device interceptions, destructor. *Hard*: textures are freed while frames in
flight use them; everything Vulkan can be destroyed by the game between two
presents; partial failure of a frame.

**Image resources** (`src/RendererResourceInternal.cpp`,
`src/RendererHookInternal.cpp`). State: attached image, current and old
texture as weak pointers with sizes. Operations: Attach, Clear, Unload, Delete,
GetResourceId. *Hard*: replacing an image whose load is queued; dangling weak
pointers. *Correct when*: a resource shows what was attached, shares nothing with
another, loses nothing.

**Event queue** (`src/mpmc_bounded_queue.h`, used by `src/Windows/WindowsHook.cpp`
between the window procedure's thread and the present thread). State: ring
of cells with sequence numbers, two positions, a count. *Hard*: lock-free.
*Correct when*: a bounded FIFO, no data race on a cell.

**Input hook of Linux** (`src/Linux/X11Hook.cpp`). State: initialized, window,
two flags (hide the game's inputs, hide the overlay's), combination pushed, saved
pointer. Operations: the intercepted XPending and XEventsQueued look at the queue
and take away what the game must not see; XQueryPointer; HideAppInputs;
Prepare and Reset from the render thread. *Hard*: three threads and no lock; the
callback of the combination changes the flags the event is then treated with.
*Correct when*: the game is told only of events it was let have, the callback comes
once per press, and the pointer the game is told stands still under the overlay. One
would also want that no input has two readers and that the game has its inputs
whenever no overlay is there; the code ensures neither (see the known divergences).

**Input hook of Windows** (`src/Windows/WindowsHook.cpp`). The same, with messages
that are looked at before they are fetched, raw input with the event queue, and
the region the game confines the cursor to, which the overlay lifts and gives
back. *Correct when*: also, the cursor is free under the overlay and confined to the
saved region otherwise, and raw input is given to the game by the right flag.

**Screenshots** (`src/RendererHookInternal.cpp` and each hook's frame): a one-shot
request served before or after the overlay is drawn. *Hard*: the request is one
member that any thread sets, and a frame reads it first and clears it later. *Correct
when*: a request that no frame has read is what the next frame reads, whatever becomes
of the frames before it, and none is served twice.

**Device references** (`src/Windows/DX11Hook.cpp`; 9, 10 and 12 alike). The hook
holds references to the game's device, so it counts them and intercepts
Release, to let go when only its own are left. *Hard*: what ImGui creates late,
textures still loading, other threads that release. *Correct when*: a game
that released everything sees its device freed, and no game that still uses it loses
the overlay.

### Interactions

```
 C# mod ── start/stop ──▶ bridge ── worker thread ──▶ detector (DetectRenderer, ...)
                            │ g_renderer                 │ redirects
                            ▼                            ▼
 game thread ── present ─▶ [driver | detector | renderer hook] ─▶ original present
                                                   │ OverlayProc (callback)
                                                   ▼
                                 image resources ◀─ application ─▶ textures, queues
 window thread ── event queue ──▶ present thread
```

All hazards, with the line at which each bites and the properties that catch
it, are in `PROJECT.json` under `hazards`.

## 2. Plan

| # | module | what | state |
|---|--------|------|-------|
| 1 | `MpmcQueue`, `BoundedFifo` | event queue, refinement, data-race freedom | done, proved |
| 2 | `RendererDetector`, `OverlayBridge` | detection, hand-off, life cycle with a presenting game | done, safety proved (`OverlayBridgeProofs`) |
| 3 | `ImageResources` | resources, textures, load and release queues | done, safety proved (`ImageResourcesProofs`) |
| 4 | `VulkanFrames` | acquired images, fences, partial initialisation, swapchain and device reset | done, proved |
| 5 | `VulkanTextures` | descriptor pools and sets, composed with 3 | done, proved |
| 6 | `X11Input`, `WindowsInput` | event routing, key combinations, cursor | done, safety proved |
| 7 | `Screenshots` | one-shot requests, composed with 4 | done, proved |
| 8 | `DirectXDevice` | references to the device (Direct3D 11) | done, proved |
| 9 | WindowsDetector | the detector with DXGI/D3D libraries and `lock_guard` everywhere | left |
| 10 | descriptor heaps of Direct3D 12, Metal | the same life cycle as 3 and 5 | left |
| 11 | two presenting threads, two controllers | a larger instance of 2 | left |

Abstract specifications: the bounded FIFO (`BoundedFifo`, implemented by
`MpmcQueue`); `ImageResources` is the abstract life of textures that
`VulkanTextures` implements with descriptor sets (`PoolsAreResources`), and
`VulkanFrames` that of frames which `Screenshots` implements with pictures taken in
between (`ShotsAreFrames`). Left: a present switch (game, detector, hook, game,
one at a time) for the bridge.

## 3. Modules

### MpmcQueue, BoundedFifo, MpmcQueueProofs

Each atomic access of `enqueue` and `dequeue` is an action: `EnqueueLoad` (line
49), `EnqueueLook` (the load of `sequence_` and the comparison), `EnqueueClaim`
and `EnqueueRetry` (the compare-and-swap; the weak one may fail spuriously),
`EnqueueWrite` (the plain data), `EnqueueCount`, `EnqueuePublish`; likewise for
dequeue. Memory is sequentially consistent in the model: the data is ordered by
the release store and acquire load of `sequence_`. `log` is a history variable
(what was accepted for each position). `MaxEnqueues` bounds TLC's runs only: it
is a guard of the claim with a constant the proofs leave arbitrary.

`ImplementsFifo` is refinement of `BoundedFifo` (one FIFO of at most `Size`
values): a consumer receives its value when it claims the position
(`Received`).

### RendererDetector

One detector object has the members that decide anything (`NewDetector`); objects
are numbered in order of construction since threads may hold a freed one.
`entry[a]` is whom the driver's present function is detoured to, `table` whom
the game's stored `vkQueuePresentKHR` points to; `Lands(a)` is where a present
arrives. A caller's pass is walked section by section, where a section is what
the code does under the mutex or between two accesses another thread can observe:
`DetectLock`, `DetectEnter`, `DetectReset`, per library `SkipLibrary` /
`LibraryLock`, `HookLibrary`, `Install` (the redirection exists), `Record` (the
saved original becomes the trampoline), then `FinishLock`, `Decide`, and
`_ExitDetection` as `ExitRestore`, `ExitUnhook`, `ExitDelete`. A game thread's
present is `Present`, `PresentLock` (waits for OpenGL, only tries for Vulkan),
`PresentCall` (the original), `PresentCheck`, the four steps of `_HookDetected`
(`HandOff...`), `PresentLeave`. `FreeStop`, `FreeDelete`, `FreeMembers` is the
destructor: its body, then the members' destructors. What ends the process (a
null function, a freed trampoline, freed memory) is recorded in `fault`.

### OverlayBridge

Extends the detector with the bridge: `Start...` and `Stop...` are the steps of a
controller, `FirstPass` .. `WorkerEnd` of a worker (its calls into the detector
are the detector's actions), `Frame...` of the game in a started hook. `gen`
numbers the hook objects: a frame remembers the one it runs on (`fgen`), and is
`Dangling` when it has been deleted. A frame becomes ready or goes on to draw
(`FrameReady`), or returns without drawing (`FrameSkip`): its initialisation failed, or
the backends have no frame.

### ImageResources

One thread, so an operation is one action: `AttachResource`,
`ClearAttachedResource`, `Unload` (`Delete` is `Unload(true)`), `GetResourceId`
in its three outcomes (`GetLoaded`, `GetAllocated`, `GetOld`), and `EndFrame`
(upload a batch, release, render). Textures are names that are reused
(`Unreferenced`) once nothing points to them. `inUse` counts the frames during
which a handle that was given out may be used by the GPU. `Renderer` selects the
OpenGL hook (release at once) or the Vulkan hook (release after `Frames` frames,
a batch without live textures is not erased, `Removing` when the game destroys
its device). The width and height of an image are represented by the image.

### VulkanTextures

`ImageResources` with the pools of descriptor sets (`VulkanHook.cpp:149-223`). A
texture that is allocated takes a set of the first pool with room, or of a new one
(`IsFirst`, `TakeSet`); `GetRefused` is the failure of that. A texture gives its
set back when its last pointer goes (`ReleaseSets`), with the arithmetic of the
`uint32_t` counter. The pools go with the device; the release list does not
(`strays`, `mixed`), and the model stops (`InRange`) where the code reads the
vector of pools beyond its end.

### VulkanFrames

`CreateSwapchain`, `DestroyDevice`, `Acquire` and `Present...` are the intercepted
functions, with `_ResetRenderState` and `_DestroyRenderTargets` inside
(`ResetState`, `ResetFrames`, `FreeObjects`). `_PrepareForOverlay` is
`PresentFails(s)` (an initialisation that ends at step `s`, keeping what was made
before it, `Made`), `PresentInit`, `PresentReady`, then the two places where the
thread is while others move: `FrameWait` (the fence of the acquired image) and
`FrameSubmit`. Fences are numbers: the submission that signals them, 0 for a
fence made signalled, `Unsubmitted` for one that was reset. `GpuComplete` lets the
GPU finish any prefix. `Fails` says which calls may fail; `x11` is what the frame
needs of X11Hook. `made[o]` is the device an object was created on.

The game may replace its swapchain at any time, while the GPU works and while it
has an image acquired from the old one, which it may present later. Of the game only
this is assumed: its device is idle when it is destroyed, it presents images that it
acquired, one at a time. A frame is looked up by the index alone, as in the code; an
index beyond the end of the frames is undefined and the model stops there
(`InRange`). `since` is history: the submissions made before the frames were replaced.

### Screenshots

`VulkanFrames` with `_TakeScreenshotType` (`wanted`), which `TakeScreenshot` may set at
any time. A frame is cut into `ReadType`, `Capture` or `CaptureFails` (which clears the
request and tells nobody), `SendScreenshot` (which clears it), `CallbackReturns` and
`EndFrame`; the callback may ask again. A capture waits for the GPU. `unread` is
history: the last request that no frame has read.

### X11Input, WindowsInput

The user (`Press`, `Release`, `Other`), the application, the present thread and the
game's event thread share the members without a lock, so each access that another
thread can observe is a step.

* The application shows or hides the overlay (`Show`, or the callback of the
  combination) under its own lock (`request`) by two calls, `HideAppInputs` and
  `HideOverlayInputs`. Each first tests whether the renderer hook is ready and then
  stores the flag.
* The present thread becomes ready, resets, and removes the renderer hook
  (`BecomesReady`, `Reset`, `Removing`); removal, or another window, resets the
  input hook in two steps (`StartReset`, `EndReset`). On Windows a frame without a
  window leaves the input hook uninitialised (`PrepareForOverlay("nullptr")`).
* The event thread reads the two flags one after the other: Linux `PollCall`, then
  per event `AppHidden`, `Peek`, `CheckKeys` (the keyboard is read), `Callback`,
  `TreatOverlay`, `TreatApp`, `Deliver`, and `Take` by the game; Windows `Fetch` or
  `Look`, then `AppHidden`, `OverlayHidden`, `CheckKeys`, `Callback`, `TreatOverlay`,
  `TreatApp`, `Save` or `Restore`, `Deliver`; for raw input `ReadInput`, `GiveInput`; for
  the region `ClipCursor`, `ClipSet`.

`calls` counts callbacks since the combination was completed; `asked` is what the game
was told of the pointer since its inputs are hidden, `own` whether they were its own
during the call, `late` whether calls that set the region overlapped. Keys, positions
and regions are model values; a key event is told from others but not which key it
is of, since the hook looks at the keyboard instead. The queue of raw events is the
FIFO that `MpmcQueue` implements.

### DirectXDevice

References are counted: `game` (the game's and its swap chain's) and `held` (the
render target, what ImGui makes lazily, loaded textures and textures in the
release list). `threshold` is `_HookDeviceRefCount`, recomputed by `Count`.
`Obtain` and `Release` are the game's threads at any time; the presenting thread
walks a frame: `OverlayProc`, `LoadResources` and `KeepView` for each texture of the
batch (queued ones that are in the release list included), `UpdateHookDeviceRefCount`,
`ReleaseResources` and `ReleaseTexture` for each, the count again, `Draw`,
`HandleScreenshot`, `PresentReturns`; or a resize. Every decrease, also of the hook's
own, passes through the intercepted Release (`Noticed`). `broken` records a removal
inside the hook's own frame or by its own release; `uncounted` is history: the
textures let go since the hook last counted.

### MC modules

The `MC...` modules define symmetry sets and the functions the configurations name;
those of modules that need none only extend them. Symmetry is used in runs
without liveness only. The `...Proofs` modules are described in section 5.

## 4. Runs

| run | shows |
|-----|-------|
| `queue` | types, data-race freedom, count in range, ownership, justified refusals, FIFO |
| `bridge_opengl` | start, stop, start again around an OpenGL game: RendererAlive, StopUndoes, DetectorRemoved, NeverStacked, no fault until somebody calls stop (NoFault), and the overlay appears (EventuallyReady) |
| `bridge_vulkan` | a Vulkan game, whose present does not wait for the mutex: NeverStackedUnstopped, and stop returns (StopReturns) |
| `images` | LoadingQueued, Exclusive, ShowsAttached with two resources and the loss of the device |
| `images_vulkan` | with descriptor pools: nothing the GPU uses is destroyed (DrawnSurvives), sets are neither lost nor given twice (SetsCounted), and an image is refused only when all are in use (RefusedWhenFull) |
| `images_progress` | with OpenGL every requested load completes (LoadsComplete) |
| `vulkan_frames` | with screenshots, swapchains of two and three images replaced at any time, images of retired ones presented late, devices that come and go, and initialisations and captures that fail: an image of the game's swapchain is drawn on by its own frame (OnPresentedImage), with all but the render pass of its device (DeviceCurrent); of the frames submitted since the last replacement no more are in flight than there are images (InFlightRecent); a request that no frame has read is what the next one reads (AskedIsRead); the present returns (ShotReturns) |
| `x11_input` | the game is told only of events that were let pass (NoLeak), one callback per hold (OncePerHold), the pointer the game is told stands still (PointerFrozen), and its question is answered (PollReturns) |
| `windows_input` | the region (ClipRight), one callback per hold although messages are handled twice (OncePerHold), keys, movements and raw input only while the game's inputs are its own (NoLeak), the cursor stands still (CursorFrozen) |
| `dx_device` | the device is freed with the game's last reference (DeviceFreed), and only a game that holds no more references than `2 + Slack` can lose the overlay by a Release (NotEarly) |

The type invariants of `VulkanFrames`, `X11Input`, `WindowsInput` and `DirectXDevice`
are conjuncts of inductive invariants and are proved rather than run.

Two runs show disagreements between the code and what its comments
say (`findings` in `PROJECT.json` quotes them):

* `bridge_vulkan_lost`: the Vulkan present that failed `try_to_lock` completes the
  hand-off between the worker's test and its reset of `_DetectionDone`, which
  erases it: the overlay never appears.
* `bridge_draw_after_stop`: a frame that has entered the hook before stop deletes
  it goes on to OverlayProc on the deleted object.

### Known divergences

The following was seen in the same models and has no run of its own; it is why
some properties are stated for one API or until the first stop only:

* DetectorRemoved and NeverStacked fail for a Vulkan game whose pointer is patched
  (`VkInline` is FALSE) once a detector is freed before it handed over: its
  destructor does not restore patched pointers (`RendererDetector.cpp:281`). A later
  detector or hook finds no pointer to patch and detours the driver's function
  beneath.
* NoFault fails for a Vulkan game: the worker frees the detector as soon as it has
  the renderer (`everyone_overlay.cpp:196`) while the present that handed it over
  may still be inside. With OpenGL it fails after stop (a frame in flight), and
  when two threads of the game present: the second waits for the mutex
  (`RendererDetector.cpp:355`) while the first hands over, and then calls the original
  through the trampoline that UnhookAll has freed (line 358).
* A ready callback in flight during stop leaves `g_ready` set; a stop that
  overtakes a half-done start leaves a worker without `g_started`
  (StopUndoes with two controllers).
* DrawnSurvives fails for OpenGL when a texture is drawn and then unloaded in one
  OverlayProc: the hook destroys it before it renders the frame. With Vulkan it counts
  `Frames` frames in flight, which holds only until a swapchain is replaced without
  waiting for the GPU (InFlightRecent).
* Image resources: with Vulkan, a batch of the load queue without live textures is
  never erased, and every later load waits for ever (`VulkanHook.cpp:1026`,
  LoadsComplete with Renderer = "Vulkan"); GetResourceId answers with a previous
  texture that was never loaded (`RendererResourceInternal.cpp:88`, HandleReady);
  a second AttachResource forgets the texture on display (line 114, NoOrphan);
  Unload(false) loses the size of the image it keeps (line 133, OwnSize).
* Textures in the release list survive their device and give their descriptor sets
  to the pools of the next one: the count wraps, or the pool does not exist
  (`VulkanHook.cpp:209`, 392). SetsCounted holds until then.
* Vulkan frames (each stated at the end of `VulkanFrames` and refuted by TLC):
  - a new swapchain destroys the fences and command buffers of the old frames
    without waiting for the GPU (`VulkanHook.cpp:1417`, 349; IdleWhenReplaced);
  - an image of a retired swapchain is drawn on with a frame of the new one, or beyond
    the end of the frames (line 877 looks at the index only; OnAnyImage), and a first
    present of such an image makes the frames for the retired swapchain
    (line 849; RetiredNeverUsed);
  - the render pass is never destroyed: it is used with every later device
    (lines 414, 895; PassCurrent) and keeps the format of the first swapchain
    (DrawnInFormat with two formats);
  - a swapchain that the game fails to create, or frames the hook fails to rebuild
    (line 1424 ignores the result), leave no frames behind, and the next present
    indexes an empty vector (FramesThere with "swapchain" or "rebuild" in Fails);
  - when the pass, the pools, the images or the targets fail after the queue was fetched
    and the device is then destroyed, the early return of line 379 keeps the old objects
    (DeviceCurrent with one of these in Fails);
  - with swapchains of two and of three images, ImGui's ring of vertex buffers keeps
    the first size (BufferFree).
* Screenshots: a capture that fails clears the request and calls nobody
  (`VulkanHook.cpp:1370`); a second request made while one is served is cleared with
  it (`RendererHookInternal.cpp:45`); callback and parameter are set one after the other.
* Input, both systems:
  - an input may reach the game and the overlay, or neither: the flags are read one
    after the other and set by two calls of another thread (OneReader);
  - the game may stay deaf without an overlay (NotDeaf): what the application asks for
    while the renderer hook is resetting or not ready is ignored
    (`VulkanHook.cpp:134`, `DX11Hook.cpp:121`), and a call that tested readiness before a
    removal stores after it; on Windows, an input hook whose window has become
    `nullptr` is not initialised and its reset returns early (`WindowsHook.cpp:206`, 237);
  - if the application shows the overlay by itself no position is saved, and the game is
    told an earlier one or uninitialised members.
* X11: with `XPeekEvent` before the keyboard is read the combination may be released
  before the hook looks at its event, and no callback comes (CalledWhenHeld). An event
  that was let pass before the inputs were hidden may be taken afterwards.
* Windows: raw events queued before the overlay's inputs were hidden reach it
  (RawHidden). The combination that shows the overlay saves the region after it was
  lifted (`WindowsHook.cpp:389`), so that the region given back is not the game's. Calls
  that overlap leave the region of either, and one asked for while the hook is not
  initialised but hides the inputs is not restored (ClipAlways).
* Direct3D: a game that holds no more references than `2 + Slack` (NotEarly) can have
  the hook removed in the middle of its frame or resize, by its own releases or by
  another thread's (NotInFrame). For instance, two textures have just left the release
  list and are not yet discounted (between `DX11Hook.cpp:553` and 554), the game has three
  references left, and the hook goes. `_LoadResources` that finds no resource of its
  batch alive returns without erasing it (line 501), as the Vulkan hook does.
* `DetectRenderer` returns true while the detection must be called again, the
  opposite of what `include/InGameOverlay/RendererDetector.h:32` says.

### Bounds

* Queue: two producers, two consumers, two cells, three enqueues, so that a cell
  is used by a second lap while all four threads are inside a call. Data-race
  freedom, the types, Ownership and the refinement are proved without bounds.
* Bridge: one game thread, two workers (start, stop, start again), one stop, three
  detector objects (the first worker's, the second's, and one that a late present
  constructs after a free). Several presenting threads have no run,
  but every safety property except NoFault is proved for them; nor have controllers
  that call start and stop concurrently (see `hazards`).
* Images: one or two resources, two images, two or three textures (a current, an
  old and a released one), batches of one or two (10 by default): the queue exceeds
  the batch. Two frames in flight in `images_vulkan`; two pools of one set, so that
  both fill up with three textures; a counter of width four wraps as one of 2^32
  does. The release counter stops at `Frames + 1` by itself.
* Vulkan frames: two and three images and five frames, so that each image is used again
  while another is in flight, and an index may be in range of one swapchain and not of
  the other; two devices and three swapchains: two on one device, one on another.
  Window and display may be missing at any present. ShotReturns is about images that
  have a frame.
* X11: one key, two positions, two events, of the combination, of other keys or of the
  focus: one is looked at while the next arrives. Windows: one key, one message (looked
  at, then fetched, while the keys change), one raw event, two regions.
  Everything else an event thread meets comes from the other threads, which are
  not bounded. All safety properties are proved for any keys, kinds and lengths.
* Direct3D: up to nine references of the game and three textures, so that one can be
  loaded, one released and one waiting, and the game above and below the bound of
  NotEarly; `Fixed = Lazy = 2` (the proofs leave all of them arbitrary).

### Fairness

`OverlayBridge!Fairness`: a call that has begun is completed (weak fairness of a
controller inside start or stop); workers and game threads are scheduled again
and again, also when what they wait for is a mutex that others take in between
(strong fairness: holders are short and the worker sleeps between polls); the
game loads its library and keeps presenting; an initialisation that fails for want of
a display, a window or an object succeeds when frames come again and again (strong
fairness of `FrameReady`: for a game in which it always fails nothing is promised).
Nobody is obliged to call start or stop. `ImageResources!FairSpec`: frames end; nothing obliges the application to
ask for anything. `Screenshots!ShotSpec`: the GPU completes what was submitted, and a
thread inside the hook goes on; the game need not present. `X11Input!FairSpec`: a
thread inside `_CheckForOverlay` goes on, as does an application that holds its lock, and
a callback that waits for the lock gets it; that the queue is not empty under the call
is what PollReturns shows, not an assumption. The Windows and Direct3D runs check
safety only.

## 5. Proofs

Checked by TLAPS for all values of the constants, under the named assumptions of
each module (they are also evaluated by every run).

* `MpmcQueueProofs`: `TypeCorrect`, `OwnershipInvariant`, `RaceFreedom`,
  `FifoRefinement`, `CountInvariant`,
  `DeclinesAreJustified`. Data-race freedom is not inductive: that a position can be
  claimed says nothing unless the sequence numbers of the whole window of
  positions are known. `Ownership` says, for every position of the window
  [dequeue_pos, dequeue_pos + Size), what its cell's sequence number is
  (`CellInv`), that a thread between claim and hand-over is alone on its
  position (`WriterInv`, `TakerInv`), and what a pending compare-and-swap knows
  (`LookInv`). Arithmetic of `%` is isolated in `SlotInjective` and `SlotLap`. The count
  is in range because it is exact: it is the number of positions past their
  fetch_add and before their fetch_sub (`Counted`, `CountExact`), and these are among
  the last `Size` claimed.
  Whoever gives up compares a sequence number with a position it read earlier:
  since no sequence number runs ahead of the window (`SequenceBelow`), what it saw
  shows that its position is still the current one (`TakenShows`, `ClaimedShows`).
* `ImageResourcesProofs`: `TypeCorrect`, `ExclusiveInvariant`, `QueueInvariant`,
  `ContentInvariant`, and `FramesSurvive` for the Vulkan hook, for any numbers of
  resources, images, textures, frames and any batch size. `Exclusive` and
  `LoadingQueued` are inductive together with the types. `ShowsAttached` is not:
  what an upload will put into a texture is decided when the load is queued, so
  `Promised` adds that every pending entry for a resource's current texture
  carries the attached image. For `FramesSurvive`, `ReleasedUnreachable` says that
  what was released cannot be drawn again, and `UseCovered` that a texture's
  remaining use and its time in the release list add up to at most `Frames`.
  The lemmas `QuietEffect`, `AllocatedEffect`,
  `EndFrameLoads` and `EraseShifts` summarize the actions once for all theorems.
* `OverlayBridgeProofs`: for any number of worker threads, detectors, stops and
  presenting threads, when start and stop are called by one thread
  (`OneController`). The invariants are built in layers, each inductive given those
  below it.

  For every game, whatever its threads present with (`GInv`): `TypeInvariant`,
  `RendererAliveInvariant`, `StopUndoesInvariant`; when its presents are detoured
  (`DetouredGame`) also `DetectorRemovedInvariant` and `NeverStackedProved`.
  The layers are: types and the call every thread is in (`Types`); `stop` joins the
  worker before the next is spawned and deletes once per stop (`Control`,
  `Generations`); a caller inside a detector is in the current one (`Held`); a
  detector that no worker uses has no detour, no hook object and no renderer
  (`Spare`); a hook object that a detector keeps, and the renderer it has found, live,
  and a found one is not kept (`Finds`), so that the renderer on its way from the
  detector to the worker to `g_renderer` is alive and out of every detector's reach
  (`Obtained`); presents land in the hook only while the bridge has it or a stop is
  about to undo that (`Redirected`), and in a detour only while a detector remembers
  it, or is about to (`Entered`); a worker that comes out with a renderer has a
  detection behind it that undid every detour (`Undone`), so that the hook never
  redirects what is still redirected. This needs no mutex: Vulkan's presents only
  try it.

  For games that present with OpenGL (`OpenGLGame`, `BInv`): whoever is in a section
  under `_RendererMutex` holds it (`Locked`, which excepts detectors that were freed
  under a present); nobody ends a detection during the hand-over or begins
  it anew after (`HandOver`); a recorded detour comes with the hook object that
  is handed over (`Detoured`). `NoFaultInvariant` adds `OneGame`, a single presenting
  thread. Until the first stop a worker leaves the detection only with the renderer
  (`Renewed`, `Succeeded`), so that it destroys the detector when no present can be
  inside or enter any more (`Inside`, `Landing`), and the hook that presents land in
  lives and has its trampoline (`Drawing`).

  For every game before the first stop (`VInv`): `NeverStackedUnstoppedProved`, patched
  pointers included. There is one worker (`Once`), and whoever the game's pointer
  leads to remembers that, or is about to (`Pointer`).

  The hypotheses are needed: `DetectorRemoved` is false for a patched Vulkan pointer,
  `NeverStacked` is for one after a stop, and `NoFault` for any Vulkan game (see the
  known divergences and the run `bridge_vulkan_lost`).
* `VulkanTexturesProofs`: `PoolsAreResources` (a step with pools is a step without),
  hence `SetsSurvive`; `PoolInvariant` and `SetsAreCounted`, for pools of any number
  and size: every texture of this device has its set from one of its pools, and the
  strays are in the release list (`PoolInv`). `OnlyRefusedWhenFull` counts over all
  pools without a sum: when all are full, numbering the textures of each pool is a
  bijection with the pairs of a pool and a place in it (`EvenlySpread`), and there
  are never more pools than a device may have (`PoolsFit`).
* `VulkanFramesProofs`: whatever calls fail and however many images a swapchain has,
  `DrawnOnPresented`, `FramesSubmitted` and `FlightsRecent`; when no initialisation
  fails half-way (`NotHalfway`: the window and the display may be missing, swapchains
  and their frames may fail), `DrawnOnDevice`. `IInv` says for each state of the hook
  what its frames are: none when it is removing (`Absent`), those of one swapchain and of
  the present device otherwise (`Present1`, `OnDevice`, `FramesRight`); `OfDevice` the same
  of the other objects. `Pending` says that every submission in flight since the frames
  were replaced is some frame's fence, so that there are no more than frames
  (`FenceEach`, an injection).
  With screenshots: `ShotsAreFrames` (waiting for an idle GPU is completing all
  submissions, everything else a stutter or a step), which carries the theorems on
  frames over, and `RequestsRead`: while no frame serves a request, the member is the
  last one unread (`ShotRight` adds what it is while one is served).
* `X11InputProofs`: `NothingLeaks`, `CalledOnce`, `PointerStands`. A callback was called
  only while the combination is held and either remembered or about to be (`Fired`); the
  game was told what is saved, and nothing during a callback and the save after it
  (`AskedSaved`), because the callback toggles the overlay and so ends what it was told.
* `WindowsInputProofs`: `ClipInvariant`, `CalledOnce`, `NothingLeaks`, `CursorStands`,
  with the same parts, `Owned` (a call that will let an input pass has seen that it may)
  and `ClipPending`: a call that nothing came in between will set what the flags call
  for.
* `DirectXDeviceProofs`: `DeviceIsFreed`, `LastReleaseNoticed`, `NeverEarly`. The
  threshold lies between what the hook holds when complete (`NotLow`, but inside
  `_LoadResources`) and that plus the textures released before they were loaded and those
  let go since the last count (`NotHigh`).

Assumptions are the named ones of the modules and, where a theorem states them,
`NotHalfway`, the kind of renderer, `OneController`, `DetouredGame`,
`OpenGLGame` and `OneGame`. The inductive invariants were
run through TLC before they were proved.

Every safety property of the passing runs is proved. Model-checked only are the
liveness properties, EventuallyReady, StopReturns, LoadsComplete, ShotReturns and
PollReturns: they need fairness and ENABLED, which the prover does not handle.
Facts that need induction over data are avoided: the
models use sequences and functions whose properties follow from the library's
definitions.

## 6. What is left out

* Bridge: set_text and set_text_scale (single guarded assignments); `g_mutex` sections are atomic. The auto-start is a controller.
* Detector: the filter of renderers, GetRenderer (no detection), the search for
  library paths and the timing of retries. Construction of a singleton in `Inst()`
  is atomic, though the code does not synchronize it. `StartHook` fails only when
  a function is missing or it was started before.
* The scan of the process's memory for pointers is modelled by its outcome (found
  or not: `VkInline`), code relocation of detours not at all.
* Vulkan: the search for the queue family, the submission on a queue without graphics,
  formats and contents of what is drawn and copied. A present shows one swapchain, and
  one thread presents: two presenting threads of one game
  (`RendererDetector.cpp:376`) are not explored.
* Screenshots: the exchange of the callback while a frame calls it; pictures.
* Input: the search for the window, names and codes of keys, the filters of
  PeekMessage (a message that is ignored is removed by a second call,
  `WindowsHook.cpp:593`), presses and releases within raw input (the queue of 512
  drops what does not fit, line 316), Windows.Gaming.Input, ImGui's backends (that one
  is shut down while another thread delivers to it, `X11Hook.cpp:352`, is below the
  model's abstraction).
* Windows: the detector (the Linux protocol with more libraries and every present
  under `lock_guard`), the hooks of Direct3D 9, 10 and 12, OpenGL and Vulkan, which
  count references or keep frames as the modelled ones do.
* macOS: Objective-C, no part of it is modelled.
* Vendored code: ImGui, System, mini_detour, headers of Vulkan and OpenGL.
