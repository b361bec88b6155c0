------------------------- MODULE VulkanFramesProofs -------------------------
(***************************************************************************)
(* The frames of the Vulkan hook, for any devices, swapchains, images and   *)
(* formats, and whatever calls fail: types, what frames are drawn on, how   *)
(* many the GPU has not finished; what they are drawn with, as long as no   *)
(* initialisation fails halfway.  Taking pictures changes nothing about     *)
(* that.  And which requests for one are read.                              *)
(***************************************************************************)
EXTENDS Screenshots, FiniteSetTheorems, TLAPS

HookType == [vkDevice : Devices, state : {"removing", "ready", "reset"},
             sent : BOOLEAN, target : Formats \cup {None},
             passFormat : Formats \cup {None}]

FrameType == [chain : 1 .. chains, device : Devices, fence : Int,
              latest : 1 .. chains]

FramesOK == \E n \in {0} \cup ImageCounts : frames \in [Indices(n) -> FrameType]

AcquiredOK == \/ acquired = NoImage
              \/ /\ acquired.of \in Chains
                 /\ acquired \in [index : Indices(acquired.of.images), of : Chains]

\* TypeOK, part by part.
Typed ==
    /\ device \in [id : Nat, alive : BOOLEAN]
    /\ swapchain = None \/ swapchain \in Chains
    /\ chains \in Nat
    /\ AcquiredOK
    /\ at \in {"idle", "wait", "record"}
    /\ at # "idle" => acquired # NoImage
    /\ hook \in HookType
    /\ made \in [Objects -> Devices]
    /\ FramesOK
    /\ current \in Nat /\ done \in 0 .. current /\ since \in 0 .. current
    /\ ring \in {0} \cup ImageCounts
    /\ x11 \in [display : BOOLEAN, initialized : BOOLEAN]

LEMMA TypedIsTypeOK == TypeOK <=> Typed
  BY DEF TypeOK, Typed, HookType, FrameType, FramesOK, AcquiredOK

LEMMA NoFramesOK ==
  ASSUME NEW S
  PROVE NoFrames \in [Indices(0) -> S]
  BY DEF Indices, NoFrames

\* The frames of a swapchain.
LEMMA RenderTargets ==
  ASSUME NEW s, CreateRenderTargets(s), s.images \in ImageCounts,
         s.id \in 1 .. chains', chains' \in Nat, hook.vkDevice \in Devices'
  PROVE /\ FramesOK'
        /\ DOMAIN frames' = Indices(s.images)
        /\ \A i \in DOMAIN frames' : /\ frames'[i].chain = s.id
                                     /\ frames'[i].device = hook.vkDevice
                                     /\ frames'[i].fence = 0
                                     /\ frames'[i].latest = chains'
<1>1. frames' = [i \in Indices(s.images) |->
                   [chain |-> s.id, device |-> hook.vkDevice, fence |-> 0,
                    latest |-> chains']]
      BY DEF CreateRenderTargets
<1>2. [chain |-> s.id, device |-> hook.vkDevice, fence |-> 0,
       latest |-> chains'] \in FrameType'
      BY DEF FrameType
<1>3. frames' \in [Indices(s.images) -> FrameType']
      BY <1>1, <1>2
<1>4. FramesOK'
      BY <1>3 DEF FramesOK, FrameType
<1> QED
    BY <1>1, <1>4

\* Frames keep their type when the numbers of devices and swapchains grow.
LEMMA FramesGrow ==
  ASSUME FramesOK, frames' = frames, Devices \subseteq Devices',
         1 .. chains \subseteq 1 .. chains'
  PROVE FramesOK'
<1>1. FrameType \subseteq FrameType'
      BY DEF FrameType
<1>2. PICK n \in {0} \cup ImageCounts : frames \in [Indices(n) -> FrameType]
      BY DEF FramesOK
<1>3. frames' \in [Indices(n) -> FrameType']
      BY <1>1, <1>2
<1> QED
    BY <1>3 DEF FramesOK, FrameType

-----------------------------------------------------------------------------
(* Types                                                                   *)

LEMMA InitTyped == Init => Typed
<1> SUFFICES ASSUME Init PROVE Typed
    OBVIOUS
<1>1. FramesOK
      BY NoFramesOK DEF Init, NoFrames, FramesOK
<1>2. hook \in HookType /\ made \in [Objects -> Devices]
      BY DEF Init, HookType, Devices
<1> QED
    BY <1>1, <1>2 DEF Init, Typed, AcquiredOK

LEMMA DevicesTyped == Typed /\ (CreateDevice \/ DestroyDevice) => Typed'
<1>1. ASSUME Typed, CreateDevice PROVE Typed'
  <2>1. /\ device' = [id |-> device.id + 1, alive |-> TRUE]
        /\ UNCHANGED <<swapchain, chains, acquired, at, hook, made, frames,
                       current, done, since, ring, x11>>
        BY <1>1 DEF CreateDevice
  <2>2. /\ device' \in [id : Nat, alive : BOOLEAN]
        /\ Devices \subseteq Devices'
        BY <1>1, <2>1 DEF Typed, Devices
  <2>3. FramesOK'
        BY <1>1, <2>1, <2>2, FramesGrow DEF Typed
  <2>4. hook' \in HookType' /\ made' \in [Objects -> Devices']
        BY <1>1, <2>1, <2>2 DEF Typed, HookType
  <2> QED
      BY <1>1, <2>1, <2>2, <2>3, <2>4 DEF Typed, AcquiredOK, Chains, HookType
<1>2. ASSUME Typed, DestroyDevice PROVE Typed'
  <2>1. /\ device' = [device EXCEPT !.alive = FALSE]
        /\ swapchain' = None /\ acquired' = NoImage /\ at = "idle"
        /\ since' = current
        /\ UNCHANGED <<chains, at, current, done, ring>>
        BY <1>2 DEF DestroyDevice
  <2>2. device' \in [id : Nat, alive : BOOLEAN] /\ Devices' = Devices
        BY <1>2, <2>1 DEF Typed, Devices
  <2>3. CASE Removing
    <3>1. /\ hook' = [hook EXCEPT !.state = "removing", !.vkDevice = 0,
                                  !.sent = FALSE]
          /\ made' = FreeObjects
          /\ frames' = NoFrames
          /\ x11' \in {[display |-> FALSE, initialized |-> FALSE], x11}
          BY <2>3 DEF Removing
    <3>2. 0 \in Devices
          BY <1>2 DEF Typed, Devices
    <3>3. hook' \in HookType'
          BY <1>2, <2>2, <3>1, <3>2 DEF Typed, HookType
    <3>4. made' \in [Objects -> Devices']
          BY <1>2, <2>2, <3>1, <3>2 DEF Typed, FreeObjects
    <3>5. FramesOK'
          BY <3>1, NoFramesOK DEF FramesOK, FrameType
    <3>6. x11' \in [display : BOOLEAN, initialized : BOOLEAN]
      <4>1. x11 \in [display : BOOLEAN, initialized : BOOLEAN]
            BY <1>2 DEF Typed
      <4>2. [display |-> FALSE, initialized |-> FALSE]
              \in [display : BOOLEAN, initialized : BOOLEAN]
            OBVIOUS
      <4> QED
          BY <3>1, <4>1, <4>2
    <3> QED
        BY <1>2, <2>1, <2>2, <3>3, <3>4, <3>5, <3>6 DEF Typed, AcquiredOK
  <2>4. CASE UNCHANGED <<hook, made, frames, x11>>
    <3>1. FramesOK'
          BY <1>2, <2>1, <2>2, <2>4, FramesGrow DEF Typed
    <3> QED
        BY <1>2, <2>1, <2>2, <2>4, <3>1 DEF Typed, AcquiredOK, HookType
  <2> QED
      BY <1>2, <2>3, <2>4 DEF DestroyDevice
<1> QED
    BY <1>1, <1>2

LEMMA SwapchainTyped ==
  ASSUME Typed, NEW n \in ImageCounts, NEW f \in Formats, CreateSwapchain(n, f)
  PROVE Typed'
<1> DEFINE s == [id |-> chains + 1, images |-> n, format |-> f]
<1>1. /\ chains' = chains + 1 /\ acquired' \in {acquired, NoImage}
      /\ at = "idle" /\ since' = current
      /\ UNCHANGED <<device, at, made, current, done, ring, x11>>
      BY DEF CreateSwapchain
<1>2. PICK outcome \in {"ok", "swapchain", "rebuild"} :
         /\ swapchain' = IF outcome = "swapchain" THEN None ELSE s
         /\ hook' = [hook EXCEPT !.sent = TRUE, !.target = f,
                                 !.state = ResetState(outcome)]
         /\ ResetFrames(s, outcome)
      BY DEF CreateSwapchain
<1>3. /\ Devices' = Devices /\ 1 .. chains \subseteq 1 .. chains'
      /\ chains' \in Nat /\ s.id \in 1 .. chains'
      BY <1>1 DEF Typed, Devices
<1>4. swapchain' = None \/ swapchain' \in Chains'
      BY <1>2, <1>3 DEF Chains
<1>5. ResetState(outcome) \in {"removing", "ready", "reset"}
      BY DEF ResetState, Typed, HookType
<1>6. hook' \in HookType'
  <2> DEFINE r == ResetState(outcome)
  <2>1. hook' = [hook EXCEPT !.sent = TRUE, !.target = f, !.state = r]
        BY <1>2
  <2> HIDE DEF r
  <2>2. r \in {"removing", "ready", "reset"}
        BY <1>5 DEF r
  <2> QED
      BY <1>3, <2>1, <2>2 DEF Typed, HookType
<1>7. FramesOK'
  <2>1. CASE frames' = frames
        BY <1>3, <2>1, FramesGrow DEF Typed
  <2>2. CASE frames' = NoFrames
        BY <2>2, NoFramesOK DEF FramesOK, FrameType
  <2>3. CASE CreateRenderTargets(s)
    <3>1. s.images \in ImageCounts /\ hook.vkDevice \in Devices'
          BY <1>3 DEF Typed, HookType
    <3> HIDE DEF s
    <3> QED
        BY <1>3, <2>3, <3>1, RenderTargets
  <2> QED
      BY <1>2, <2>1, <2>2, <2>3 DEF ResetFrames
<1>8. AcquiredOK'
      BY <1>1, <1>3 DEF Typed, AcquiredOK, Chains
<1> QED
    BY <1>1, <1>3, <1>4, <1>6, <1>7, <1>8 DEF Typed

LEMMA OutsideTyped ==
  ASSUME Typed, \/ swapchain # None
                   /\ \E i \in Indices(swapchain.images) : Acquire(i)
                \/ PollEvents \/ GpuComplete \/ PresentPlain \/ PresentReady
  PROVE Typed'
<1>1. /\ UNCHANGED <<device, swapchain, chains, made, frames, current, since,
                      ring>>
      /\ Devices' = Devices
      BY DEF Acquire, PollEvents, GpuComplete, PresentPlain, PresentReady, game,
             Devices
<1>2. FramesOK' /\ made' \in [Objects -> Devices']
      BY <1>1, FramesGrow DEF Typed
<1>3. ASSUME swapchain # None, NEW i \in Indices(swapchain.images), Acquire(i)
      PROVE Typed'
  <2>1. /\ acquired' = [index |-> i, of |-> swapchain] /\ hook' = [hook EXCEPT !.vkDevice = device.id]
        /\ UNCHANGED <<at, done, x11>> /\ at = "idle"
        BY <1>3 DEF Acquire
  <2>2. hook' \in HookType'
        BY <1>1, <2>1 DEF Typed, HookType, Devices
  <2> QED
      BY <1>1, <1>2, <1>3, <2>1, <2>2 DEF Typed, AcquiredOK, Chains
<1>4. CASE PollEvents
  <2>1. /\ x11' = [x11 EXCEPT !.display = TRUE]
        /\ UNCHANGED <<acquired, at, hook, done>>
        BY <1>4 DEF PollEvents, game
  <2> QED
      BY <1>1, <1>2, <2>1 DEF Typed, AcquiredOK, Chains, HookType
<1>5. CASE GpuComplete
  <2>1. done' \in done + 1 .. current /\ UNCHANGED <<acquired, at, hook, x11>>
        BY <1>5 DEF GpuComplete, game
  <2>2. done' \in 0 .. current'
        BY <1>1, <2>1 DEF Typed
  <2> QED
      BY <1>1, <1>2, <2>1, <2>2 DEF Typed, AcquiredOK, Chains, HookType
<1>6. CASE PresentPlain
  <2>1. /\ hook' = [hook EXCEPT !.sent = TRUE] /\ acquired' = NoImage
        /\ at = "idle" /\ UNCHANGED <<at, done, x11>>
        BY <1>6 DEF PresentPlain
  <2> QED
      BY <1>1, <1>2, <2>1 DEF Typed, AcquiredOK, Chains, HookType
<1>7. CASE PresentReady
  <2>1. /\ at' = "wait" /\ acquired # NoImage
        /\ UNCHANGED <<acquired, hook, done, x11>>
        BY <1>7 DEF PresentReady, Enters, game
  <2> QED
      BY <1>1, <1>2, <2>1 DEF Typed, AcquiredOK, Chains, HookType
<1> QED
    BY <1>3, <1>4, <1>5, <1>6, <1>7

\* What the initialisation makes, and with which format.
LEMMA MakeTyped ==
  ASSUME Typed, NEW os, Make(os), Devices' = Devices
  PROVE /\ made' \in [Objects -> Devices']
        /\ PassFormat \in Formats \cup {None}
<1>1. hook.vkDevice \in Devices /\ \A o \in Objects : made[o] \in Devices
      BY DEF Typed, HookType
<1>2. hook.target \in Formats \cup {None} /\ hook.passFormat \in Formats \cup {None}
      BY DEF Typed, HookType
<1> QED
    BY <1>1, <1>2 DEF Make, PassFormat

LEMMA PresentTyped ==
  ASSUME Typed, PresentInit \/ \E s \in Fails \cap DOMAIN Made : PresentFails(s)
  PROVE Typed'
<1>1. CASE PresentInit
  <2>1. /\ UNCHANGED <<device, swapchain, chains, acquired, current, done>>
        /\ acquired # NoImage /\ at' = "wait" /\ ring' = acquired.of.images
        /\ since' = current
        /\ hook' = [hook EXCEPT !.state = "ready", !.passFormat = PassFormat]
        /\ x11' = [x11 EXCEPT !.display = TRUE]
        /\ Make(Objects) /\ CreateRenderTargets(acquired.of)
        BY <1>1 DEF PresentInit, Enters, OpenDisplay, game
  <2>2. Devices' = Devices
        BY <2>1 DEF Devices
  <2>3. acquired.of \in Chains
        BY <2>1 DEF Typed, AcquiredOK
  <2>4. made' \in [Objects -> Devices'] /\ PassFormat \in Formats \cup {None}
        BY <2>1, <2>2, MakeTyped
  <2>5. hook' \in HookType'
    <3> DEFINE p == PassFormat
    <3>1. p \in Formats \cup {None} /\ hook' = [hook EXCEPT !.state = "ready",
                                                         !.passFormat = p]
          BY <2>1, <2>4
    <3> HIDE DEF p
    <3> QED
        BY <2>2, <3>1 DEF Typed, HookType
  <2>6. FramesOK'
    <3>1. /\ acquired.of.images \in ImageCounts /\ chains' \in Nat
          /\ acquired.of.id \in 1 .. chains' /\ hook.vkDevice \in Devices'
          BY <2>1, <2>2, <2>3 DEF Chains, Typed, HookType
    <3> QED
        BY <2>1, <3>1, RenderTargets
  <2>7. ring' \in {0} \cup ImageCounts
        BY <2>1, <2>3 DEF Chains
  <2>8. x11' \in [display : BOOLEAN, initialized : BOOLEAN]
        BY <2>1 DEF Typed
  <2> QED
      BY <2>1, <2>4, <2>5, <2>6, <2>7, <2>8 DEF Typed, AcquiredOK, Chains
<1>2. ASSUME NEW s \in Fails \cap DOMAIN Made, PresentFails(s)
      PROVE Typed'
  <2>1. /\ UNCHANGED <<device, swapchain, chains, at, frames, current, done,
                       since, ring>>
        /\ acquired' = NoImage /\ at = "idle"
        /\ Make(Made[s])
        /\ hook' \in {[hook EXCEPT !.passFormat = PassFormat], hook}
        /\ x11' \in {[x11 EXCEPT !.display = TRUE], x11}
        BY <1>2 DEF PresentFails, Enters
  <2>2. Devices' = Devices
        BY <2>1 DEF Devices
  <2>3. made' \in [Objects -> Devices'] /\ PassFormat \in Formats \cup {None}
        BY <2>1, <2>2, MakeTyped
  <2>4. hook' \in HookType'
    <3> DEFINE p == PassFormat
    <3>1. p \in Formats \cup {None} /\ hook' \in {[hook EXCEPT !.passFormat = p], hook}
          BY <2>1, <2>3
    <3> HIDE DEF p
    <3> QED
        BY <2>2, <3>1 DEF Typed, HookType
  <2>5. FramesOK'
        BY <2>1, <2>2, FramesGrow DEF Typed
  <2>6. x11' \in [display : BOOLEAN, initialized : BOOLEAN]
        BY <2>1 DEF Typed
  <2> QED
      BY <2>1, <2>3, <2>4, <2>5, <2>6 DEF Typed, AcquiredOK, Chains
<1> QED
    BY <1>1, <1>2

\* A fence of one frame changes.
LEMMA FenceTyped ==
  ASSUME FramesOK, NEW i, NEW v \in Int, UNCHANGED <<chains, device>>,
         frames' = [frames EXCEPT ![i].fence = v]
  PROVE FramesOK'
<1>1. PICK n \in {0} \cup ImageCounts : frames \in [Indices(n) -> FrameType]
      BY DEF FramesOK
<1>2. ASSUME NEW x \in FrameType PROVE [x EXCEPT !.fence = v] \in FrameType
      BY DEF FrameType
<1>3. FrameType' = FrameType
      BY DEF FrameType, Devices
<1>4. frames' \in [Indices(n) -> FrameType]
      BY <1>1, <1>2
<1> QED
    BY <1>3, <1>4 DEF FramesOK

LEMMA FrameTyped == ASSUME Typed, Frame PROVE Typed'
<1>1. CASE FrameWait
  <2>1. /\ UNCHANGED <<device, swapchain, chains, acquired, hook, made, current,
                       done, since, ring, x11>>
        /\ at = "wait" /\ at' = "record"
        /\ frames' = [frames EXCEPT ![acquired.index].fence = Unsubmitted]
        BY <1>1 DEF FrameWait, game
  <2>2. FramesOK'
    <3>1. Unsubmitted \in Int
          BY DEF Unsubmitted
    <3> QED
        BY <2>1, <3>1, FenceTyped DEF Typed
  <2> QED
      BY <2>1, <2>2 DEF Typed, AcquiredOK, Chains, HookType, Devices
<1>2. CASE FrameSubmit
  <2>1. /\ UNCHANGED <<device, swapchain, chains, hook, made, done, since, ring>>
        /\ at' = "idle" /\ acquired' = NoImage
        BY <1>2 DEF FrameSubmit
  <2>2. CASE x11.display
    <3>1. /\ current' = current + 1
          /\ frames' = [frames EXCEPT ![acquired.index].fence = current + 1]
          /\ x11' = [x11 EXCEPT !.initialized = TRUE]
          BY <1>2, <2>2 DEF FrameSubmit, Submit
    <3>2. /\ current' \in Nat /\ done' \in 0 .. current' /\ current + 1 \in Int
          /\ since' \in 0 .. current'
          BY <2>1, <3>1 DEF Typed
    <3>3. FramesOK'
          BY <2>1, <3>1, <3>2, FenceTyped DEF Typed
    <3>4. x11' \in [display : BOOLEAN, initialized : BOOLEAN]
          BY <3>1 DEF Typed
    <3> QED
        BY <2>1, <3>2, <3>3, <3>4 DEF Typed, AcquiredOK, Chains, HookType,
                                      Devices
  <2>3. CASE ~ x11.display
    <3>1. UNCHANGED <<current, frames, x11>>
          BY <1>2, <2>3 DEF FrameSubmit
    <3>2. FramesOK'
          BY <2>1, <3>1, FramesGrow DEF Typed, Devices
    <3> QED
        BY <2>1, <3>1, <3>2 DEF Typed, AcquiredOK, Chains, HookType, Devices
  <2> QED
      BY <2>2, <2>3
<1> QED
    BY <1>1, <1>2 DEF Frame

LEMMA NextTyped == TypeOK /\ [Next]_vars => TypeOK'
<1>1. Typed /\ Next => Typed'
      BY DevicesTyped, SwapchainTyped, OutsideTyped, PresentTyped, FrameTyped
      DEF Next, Present
<1>2. Typed /\ UNCHANGED vars => Typed'
      BY DEF vars, Typed, HookType, FrameType, Chains, FramesOK, AcquiredOK,
             Devices
<1>3. (TypeOK <=> Typed)'
      BY DEF TypeOK, Typed, HookType, FrameType, Chains, FramesOK, AcquiredOK
<1> QED
    BY <1>1, <1>2, <1>3, TypedIsTypeOK

\* Devices, swapchains, fences and counts keep their types, whatever fails.
THEOREM TypeCorrect == Spec => []TypeOK
  BY InitTyped, TypedIsTypeOK, NextTyped, PTL DEF Spec

-----------------------------------------------------------------------------
(* What frames are drawn on, whatever fails                                *)

\* The game presents on its last device, which the hook has noted, and its
\* swapchain is the last one it created.
OnDevice == /\ swapchain # None => device.alive /\ swapchain.id = chains
            /\ acquired # NoImage => /\ hook.vkDevice = device.id /\ device.alive
                                     /\ acquired.of.id = chains =>
                                          acquired.of = swapchain
            /\ device.alive => device.id >= 1

\* Before the initialisation there are no frames.
Absent == hook.state = "removing" => frames = NoFrames /\ at = "idle"

\* After it the hook is on the device of the game.
Present1 == hook.state # "removing" =>
              x11.display /\ device.alive /\ hook.vkDevice = device.id

\* Frames were made for the last swapchain, or for one retired before it, on
\* the device of the game.
FramesRight ==
    /\ \A i \in DOMAIN frames : /\ frames[i].latest = chains
                                /\ frames[i].device = device.id
    /\ MadeForLatest => /\ swapchain # None
                        /\ DOMAIN frames = Indices(swapchain.images)

IInv == Typed /\ OnDevice /\ Absent /\ Present1 /\ FramesRight

LEMMA NoneRight == frames = NoFrames => FramesRight
  BY DEF FramesRight, MadeForLatest, NoFrames

LEMMA ChainsReal == ASSUME chains \in Nat, NEW c \in Chains PROVE c # None
<1>1. 1 .. chains \subseteq Nat /\ ImageCounts \subseteq Nat
      BY ImageCountsAssumption
<1>2. c \in [id : Nat, images : Nat, format : Formats]
      BY <1>1 DEF Chains
<1> QED
    BY <1>2, NoneAssumption

LEMMA InitIInv == Init => IInv
<1> SUFFICES ASSUME Init PROVE IInv
    OBVIOUS
<1> QED
    BY InitTyped, NoneRight
    DEF Init, IInv, OnDevice, Absent, Present1, NoFrames

LEMMA DevicesIInv ==
  ASSUME IInv, CreateDevice \/ DestroyDevice
  PROVE OnDevice' /\ Absent' /\ Present1' /\ FramesRight'
<1>1. CASE CreateDevice
  <2>1. /\ device' = [id |-> device.id + 1, alive |-> TRUE]
        /\ ~ device.alive /\ at = "idle"
        /\ UNCHANGED <<swapchain, chains, acquired, at, hook, made, frames, x11>>
        BY <1>1 DEF CreateDevice
  <2>2. /\ swapchain = None /\ acquired = NoImage /\ hook.state = "removing"
        /\ frames' = NoFrames
        BY <2>1 DEF IInv, OnDevice, Absent, Present1
  <2>3. FramesRight'
        BY <2>2 DEF FramesRight, MadeForLatest, NoFrames
  <2> QED
      BY <2>1, <2>2, <2>3 DEF IInv, OnDevice, Absent, Present1, Typed
<1>2. CASE DestroyDevice
  <2>1. /\ device' = [device EXCEPT !.alive = FALSE]
        /\ swapchain' = None /\ acquired' = NoImage /\ at = "idle" /\ at' = "idle"
        BY <1>2 DEF DestroyDevice
  <2>2. device'.alive = FALSE
        BY <2>1 DEF IInv, Typed
  <2>3. OnDevice'
        BY <2>1, <2>2 DEF OnDevice
  <2>4. hook'.state = "removing" /\ frames' = NoFrames
    <3>1. CASE Removing
          BY <3>1 DEF Removing, IInv, Typed, HookType
    <3>2. CASE UNCHANGED <<hook, made, frames, x11>> /\ ~ Removing
          BY <1>2, <3>2 DEF DestroyDevice, IInv, Absent, Present1
    <3> QED
        BY <1>2, <3>1, <3>2 DEF DestroyDevice
  <2> QED
      BY <2>1, <2>3, <2>4
      DEF Absent, Present1, FramesRight, MadeForLatest, NoFrames
<1> QED
    BY <1>1, <1>2

LEMMA SwapchainIInv ==
  ASSUME IInv, NEW n \in ImageCounts, NEW f \in Formats, CreateSwapchain(n, f)
  PROVE OnDevice' /\ Absent' /\ Present1' /\ FramesRight'
<1> DEFINE s == [id |-> chains + 1, images |-> n, format |-> f]
<1>1. /\ chains' = chains + 1 /\ acquired' \in {acquired, NoImage}
      /\ at = "idle" /\ device.alive
      /\ UNCHANGED <<device, at, made, current, done, ring, x11>>
      BY DEF CreateSwapchain
<1>2. PICK outcome \in {"ok", "swapchain", "rebuild"} :
         /\ swapchain' = IF outcome = "swapchain" THEN None ELSE s
         /\ hook' = [hook EXCEPT !.sent = TRUE, !.target = f,
                                 !.state = ResetState(outcome)]
         /\ ResetFrames(s, outcome)
      BY DEF CreateSwapchain
<1>3. s # None /\ s.id = chains' /\ s.images = n
  <2>1. s \in [id : Nat, images : Nat, format : Formats]
        BY ImageCountsAssumption DEF IInv, Typed
  <2> QED
      BY <1>1, <2>1, NoneAssumption
<1>4. hook'.state = ResetState(outcome) /\ hook'.vkDevice = hook.vkDevice
      BY <1>2 DEF IInv, Typed, HookType
<1>5. OnDevice'
  <2>1. acquired # NoImage => acquired.of.id # chains'
        BY <1>1 DEF IInv, Typed, AcquiredOK, Chains
  <2>2. swapchain' # None => swapchain' = s
        BY <1>2
  <2> HIDE DEF s
  <2> QED
      BY <1>1, <1>3, <1>4, <2>1, <2>2 DEF IInv, OnDevice
<1>6. CASE hook.state = "removing"
  <2>1. hook'.state = "removing" /\ frames' = NoFrames
        BY <1>2, <1>4, <1>6 DEF ResetState, ResetFrames, Drawing, IInv, Absent
  <2> QED
      BY <1>1, <1>4, <1>5, <2>1
      DEF Absent, Present1, FramesRight, MadeForLatest, NoFrames
<1>7. CASE hook.state # "removing"
  <2>1. Drawing /\ hook.vkDevice = device.id /\ x11.display
        BY <1>7 DEF Drawing, IInv, Present1
  <2>2. Present1'
        BY <1>1, <1>4, <2>1 DEF Present1
  <2>3. hook'.state # "removing"
        BY <1>4, <2>1 DEF ResetState
  <2>4. CASE frames' = NoFrames
        BY <1>5, <2>2, <2>3, <2>4 DEF Absent, FramesRight, MadeForLatest, NoFrames
  <2>5. CASE Rebuild /\ outcome = "ok"
    <3>1. CreateRenderTargets(s) /\ swapchain' = s
          BY <1>2, <2>1, <2>5 DEF ResetFrames
    <3>2. /\ s.images \in ImageCounts /\ hook.vkDevice \in Devices'
          /\ s.id \in 1 .. chains' /\ chains' \in Nat
          BY <1>1 DEF IInv, Typed, HookType, Devices
    <3> HIDE DEF s
    <3>3. /\ DOMAIN frames' = Indices(s.images)
          /\ \A i \in DOMAIN frames' : /\ frames'[i].latest = chains'
                                       /\ frames'[i].device = hook.vkDevice
          BY <3>1, <3>2, RenderTargets
    <3>4. FramesRight'
          BY <1>1, <1>3, <2>1, <3>1, <3>3 DEF FramesRight
    <3> QED
        BY <1>5, <2>2, <2>3, <3>4 DEF Absent
  <2> QED
      BY <1>2, <2>1, <2>4, <2>5 DEF ResetFrames
<1> QED
    BY <1>6, <1>7

\* The rest of the program makes and destroys no frames.
LEMMA OutsideIInv ==
  ASSUME IInv, \/ swapchain # None
                  /\ \E i \in Indices(swapchain.images) : Acquire(i)
               \/ PollEvents \/ GpuComplete \/ PresentPlain \/ PresentReady
  PROVE OnDevice' /\ Absent' /\ Present1' /\ FramesRight'
<1>1. UNCHANGED <<device, swapchain, chains, made, frames>>
      BY DEF Acquire, PollEvents, GpuComplete, PresentPlain, PresentReady, game
<1>2. FramesRight'
      BY <1>1 DEF IInv, FramesRight, MadeForLatest
<1>3. ASSUME swapchain # None, NEW i \in Indices(swapchain.images), Acquire(i)
      PROVE OnDevice' /\ Absent' /\ Present1'
  <2>1. /\ hook' = [hook EXCEPT !.vkDevice = device.id] /\ UNCHANGED <<at, x11>>
        /\ acquired' = [index |-> i, of |-> swapchain]
        BY <1>3 DEF Acquire
  <2>2. hook'.vkDevice = device.id /\ hook'.state = hook.state
        BY <2>1 DEF IInv, Typed, HookType
  <2> QED
      BY <1>1, <1>3, <2>1, <2>2 DEF IInv, OnDevice, Absent, Present1
<1>4. CASE PollEvents
  <2>1. x11'.display /\ UNCHANGED <<acquired, at, hook>>
        BY <1>4 DEF PollEvents, game, IInv, Typed
  <2> QED
      BY <1>1, <1>2, <2>1 DEF IInv, OnDevice, Absent, Present1
<1>5. CASE GpuComplete
  <2>1. UNCHANGED <<acquired, at, hook, x11>>
        BY <1>5 DEF GpuComplete, game
  <2> QED
      BY <1>1, <1>2, <2>1 DEF IInv, OnDevice, Absent, Present1
<1>6. CASE PresentPlain
  <2>1. /\ hook'.vkDevice = hook.vkDevice /\ hook'.state = hook.state
        /\ acquired' = NoImage /\ UNCHANGED <<at, x11>>
        BY <1>6 DEF PresentPlain, IInv, Typed, HookType
  <2> QED
      BY <1>1, <1>2, <2>1 DEF IInv, OnDevice, Absent, Present1
<1>7. CASE PresentReady
  <2>1. hook.state # "removing" /\ UNCHANGED <<acquired, hook, x11>>
        BY <1>7 DEF PresentReady, game
  <2> QED
      BY <1>1, <1>2, <2>1 DEF IInv, OnDevice, Absent, Present1
<1> QED
    BY <1>2, <1>3, <1>4, <1>5, <1>6, <1>7

LEMMA PresentIInv ==
  ASSUME IInv, PresentInit \/ \E s \in Fails \cap DOMAIN Made : PresentFails(s)
  PROVE OnDevice' /\ Absent' /\ Present1' /\ FramesRight'
<1>1. CASE PresentInit
  <2>1. /\ UNCHANGED <<device, swapchain, chains, acquired>>
        /\ acquired # NoImage /\ hook.state = "removing" /\ x11'.display
        /\ hook'.state = "ready" /\ hook'.vkDevice = hook.vkDevice
        /\ CreateRenderTargets(acquired.of)
        BY <1>1
        DEF PresentInit, Enters, OpenDisplay, game, IInv, Typed, HookType
  <2>2. /\ acquired.of \in Chains /\ device.alive
        /\ hook.vkDevice = device.id
        BY <2>1 DEF IInv, Typed, AcquiredOK, OnDevice
  <2>3. /\ acquired.of.images \in ImageCounts /\ chains' \in Nat
        /\ acquired.of.id \in 1 .. chains' /\ hook.vkDevice \in Devices'
        BY <2>1, <2>2 DEF Chains, IInv, Typed, HookType, Devices
  <2>4. /\ DOMAIN frames' = Indices(acquired.of.images)
        /\ \A i \in DOMAIN frames' : /\ frames'[i].chain = acquired.of.id
                                     /\ frames'[i].latest = chains'
                                     /\ frames'[i].device = hook.vkDevice
        BY <2>1, <2>3, RenderTargets
  <2>5. FramesRight'
    <3>1. ASSUME MadeForLatest'
          PROVE swapchain # None /\ DOMAIN frames' = Indices(swapchain.images)
      <4>1. PICK i \in DOMAIN frames' : TRUE
        <5>1. acquired.of.images \in Nat \ {0}
              BY <2>3, ImageCountsAssumption
        <5>2. 0 \in Indices(acquired.of.images)
              BY <5>1 DEF Indices
        <5> QED
            BY <2>4, <5>2
      <4>2. acquired.of.id = chains
            BY <2>1, <2>4, <3>1, <4>1 DEF MadeForLatest
      <4>3. acquired.of = swapchain
            BY <2>1, <4>2 DEF IInv, OnDevice
      <4>4. swapchain # None
            BY <2>2, <4>3, ChainsReal DEF IInv, Typed
      <4> QED
          BY <2>4, <4>3, <4>4
    <3> QED
        BY <2>1, <2>2, <2>4, <3>1 DEF FramesRight
  <2> QED
      BY <2>1, <2>2, <2>5 DEF IInv, OnDevice, Absent, Present1
<1>2. ASSUME NEW s \in Fails \cap DOMAIN Made, PresentFails(s)
      PROVE OnDevice' /\ Absent' /\ Present1' /\ FramesRight'
  <2>1. /\ UNCHANGED <<device, swapchain, chains, at, frames>>
        /\ acquired' = NoImage /\ hook.state = "removing"
        /\ hook' \in {[hook EXCEPT !.passFormat = PassFormat], hook}
        BY <1>2 DEF PresentFails
  <2>2. hook'.state = "removing"
        BY <2>1 DEF IInv, Typed, HookType
  <2> QED
      BY <2>1, <2>2
      DEF IInv, OnDevice, Absent, Present1, FramesRight, MadeForLatest
<1> QED
    BY <1>1, <1>2

\* A fence changes, and nothing else of the frames.
LEMMA FenceOnly ==
  ASSUME FramesOK, NEW i, NEW v,
         frames' = [frames EXCEPT ![i].fence = v] \/ frames' = frames
  PROVE /\ DOMAIN frames' = DOMAIN frames
        /\ \A j \in DOMAIN frames : /\ frames'[j].chain = frames[j].chain
                                    /\ frames'[j].device = frames[j].device
                                    /\ frames'[j].latest = frames[j].latest
<1>1. PICK n \in {0} \cup ImageCounts : frames \in [Indices(n) -> FrameType]
      BY DEF FramesOK
<1>2. ASSUME NEW x \in FrameType
      PROVE /\ [x EXCEPT !.fence = v].chain = x.chain
            /\ [x EXCEPT !.fence = v].device = x.device
            /\ [x EXCEPT !.fence = v].latest = x.latest
      BY DEF FrameType
<1> QED
    BY <1>1, <1>2

LEMMA FrameIInv ==
  ASSUME IInv, Frame
  PROVE OnDevice' /\ Absent' /\ Present1' /\ FramesRight'
<1>1. /\ UNCHANGED <<device, swapchain, chains, hook, made>>
      /\ acquired' \in {acquired, NoImage}
      /\ at # "idle" /\ (x11.display => x11'.display)
      BY DEF Frame, FrameWait, FrameSubmit, game, IInv, Typed
<1>2. hook.state # "removing"
      BY <1>1 DEF IInv, Absent
<1>3. PICK v : frames' = [frames EXCEPT ![acquired.index].fence = v]
                 \/ frames' = frames
      BY DEF Frame, FrameWait, FrameSubmit, Submit
<1>4. FramesRight'
  <2>1. /\ DOMAIN frames' = DOMAIN frames
        /\ \A j \in DOMAIN frames : /\ frames'[j].chain = frames[j].chain
                                    /\ frames'[j].device = frames[j].device
                                    /\ frames'[j].latest = frames[j].latest
        BY <1>3, FenceOnly DEF IInv, Typed
  <2>2. MadeForLatest' => MadeForLatest
    <3>1. frames' # NoFrames => frames # NoFrames
          BY <1>3 DEF NoFrames
    <3> QED
        BY <2>1, <3>1 DEF MadeForLatest
  <2> QED
      BY <1>1, <2>1, <2>2 DEF IInv, FramesRight
<1> QED
    BY <1>1, <1>2, <1>4 DEF IInv, OnDevice, Absent, Present1

LEMMA NextIInv == IInv /\ [Next]_vars => IInv'
<1>1. IInv /\ Next => OnDevice' /\ Absent' /\ Present1' /\ FramesRight'
      BY DevicesIInv, SwapchainIInv, OutsideIInv, PresentIInv, FrameIInv
      DEF Next, Present
<1>2. IInv /\ UNCHANGED vars => OnDevice' /\ Absent' /\ Present1' /\ FramesRight'
      BY DEF vars, IInv, OnDevice, Absent, Present1, FramesRight, MadeForLatest
<1>3. IInv /\ [Next]_vars => Typed'
  <2>1. (TypeOK <=> Typed)'
        BY DEF TypeOK, Typed, HookType, FrameType, FramesOK, AcquiredOK
  <2> QED
      BY <2>1, NextTyped, TypedIsTypeOK DEF IInv
<1> QED
    BY <1>1, <1>2, <1>3 DEF IInv

LEMMA Invariance == Spec => []IInv
  BY InitIInv, NextIInv, PTL DEF Spec

\* A present of an image of the game's swapchain finds the frame of this image,
\* whatever calls fail and however many swapchains and devices came and went.
THEOREM DrawnOnPresented == Spec => []OnPresentedImage
<1>1. IInv => OnPresentedImage
  <2> SUFFICES ASSUME IInv, at # "idle", acquired.of = swapchain, MadeForLatest
               PROVE InRange /\ frames[acquired.index].chain = swapchain.id
      BY DEF OnPresentedImage
  <2>1. /\ swapchain # None /\ DOMAIN frames = Indices(swapchain.images)
        /\ swapchain.id = chains
        BY DEF IInv, OnDevice, FramesRight
  <2>2. acquired.index \in Indices(acquired.of.images)
        BY DEF IInv, Typed, AcquiredOK
  <2> QED
      BY <2>1, <2>2 DEF InRange, MadeForLatest, IInv, FramesRight
<1> QED
    BY <1>1, Invariance, PTL

\* No frame is abandoned after its fence was reset.
THEOREM FramesSubmitted == Spec => []NeverAbandoned
<1>1. IInv => NeverAbandoned
      BY DEF IInv, Absent, Present1, NeverAbandoned
<1> QED
    BY <1>1, Invariance, PTL

-----------------------------------------------------------------------------
(* What frames are drawn with, while no initialisation fails after it made  *)
(* something: after such a failure the hook does not notice the end of the  *)
(* device                                                                  *)

NotHalfway == Fails \cap {"pass", "pools", "images", "targets"} = {}

Kept == Objects \ {"pass"}

\* All but the render pass is of the device the hook draws on.
OfDevice == /\ hook.state = "removing" => \A o \in Kept : made[o] = 0
            /\ hook.state # "removing" => \A o \in Kept : made[o] = device.id

LEMMA NextOfDevice ==
  ASSUME NotHalfway, IInv, OfDevice, [Next]_vars
  PROVE OfDevice'
<1>1. hook \in HookType /\ made \in [Objects -> Devices]
      BY DEF IInv, Typed
<1>2. CASE CreateDevice
  <2>1. hook.state = "removing" /\ UNCHANGED <<hook, made>>
        BY <1>2 DEF CreateDevice, IInv, Present1
  <2> QED
      BY <2>1 DEF OfDevice
<1>3. CASE DestroyDevice
  <2>1. CASE Removing
    <3>1. hook'.state = "removing" /\ made' = FreeObjects
          BY <1>1, <2>1 DEF Removing, HookType
    <3> QED
        BY <3>1 DEF OfDevice, FreeObjects, Kept
  <2>2. CASE UNCHANGED <<hook, made, frames, x11>> /\ ~ Removing
    <3>1. hook.state = "removing"
          BY <1>3, <2>2 DEF DestroyDevice, IInv, Present1
    <3> QED
        BY <2>2, <3>1 DEF OfDevice
  <2> QED
      BY <1>3, <2>1, <2>2 DEF DestroyDevice
<1>4. ASSUME NEW n \in ImageCounts, NEW f \in Formats, CreateSwapchain(n, f)
      PROVE OfDevice'
  <2>1. PICK outcome : hook' = [hook EXCEPT !.sent = TRUE, !.target = f,
                                           !.state = ResetState(outcome)]
        BY <1>4 DEF CreateSwapchain
  <2>2. UNCHANGED <<device, made>>
        BY <1>4 DEF CreateSwapchain
  <2>3. hook'.state = "removing" <=> hook.state = "removing"
        BY <1>1, <2>1 DEF ResetState, HookType, Drawing, IInv, Present1
  <2> QED
      BY <2>2, <2>3 DEF OfDevice
<1>5. CASE PresentInit
  <2>1. /\ hook.state = "removing" /\ hook'.state # "removing"
        /\ hook.vkDevice = device.id /\ device' = device /\ Make(Objects)
        BY <1>1, <1>5 DEF PresentInit, Enters, game, HookType, IInv, OnDevice
  <2>2. \A o \in Kept : made'[o] = device.id
        BY <2>1 DEF Make, Kept, OfDevice
  <2> QED
      BY <2>1, <2>2 DEF OfDevice
<1>6. ASSUME NEW s \in Fails \cap DOMAIN Made, PresentFails(s)
      PROVE OfDevice'
  <2>1. Made[s] = {}
        BY DEF NotHalfway, Made
  <2>2. /\ hook.state = "removing" /\ made' = [o \in Objects |-> made[o]]
        /\ hook' = hook
        BY <1>6, <2>1 DEF PresentFails, Make
  <2> QED
      BY <2>2 DEF OfDevice, Kept
<1>7. CASE UNCHANGED <<device, made>> /\ hook'.state = hook.state
      BY <1>7 DEF OfDevice
<1>8. CASE \/ \E i \in Indices(swapchain.images) : Acquire(i)
           \/ PollEvents \/ GpuComplete \/ PresentPlain \/ PresentReady \/ Frame
           \/ UNCHANGED vars
  <2>1. UNCHANGED <<device, made>> /\ hook'.state = hook.state
        BY <1>1, <1>8 DEF Acquire, PollEvents, GpuComplete, PresentPlain,
           PresentReady, Frame, FrameWait, FrameSubmit, vars, game, HookType
  <2> QED
      BY <1>7, <2>1
<1> QED
    BY <1>2, <1>3, <1>4, <1>5, <1>6, <1>8 DEF Next, Present

\* What a frame is drawn with, but the render pass, was made on its device.
THEOREM DrawnOnDevice == ASSUME NotHalfway PROVE Spec => []DeviceCurrent
<1>1. Init => OfDevice
      BY DEF Init, OfDevice, Kept
<1>2. OfDevice /\ IInv /\ [Next]_vars => OfDevice'
      BY NextOfDevice
<1>3. IInv /\ OfDevice => DeviceCurrent
      BY DEF IInv, Absent, Present1, FramesRight, OfDevice, Kept, DeviceCurrent
<1> QED
    BY <1>1, <1>2, <1>3, Invariance, PTL DEF Spec

-----------------------------------------------------------------------------
(* Frames the GPU has not finished                                         *)

\* Each of them that was submitted on the present frames has the fence of an
\* image, and never that of the one being recorded.
Pending == /\ \A k \in done + 1 .. current :
                 k > since => \E i \in DOMAIN frames : frames[i].fence = k
           /\ at = "record" => InRange
                               /\ frames[acquired.index].fence = Unsubmitted

LEMMA LaterSubset ==
  ASSUME NEW a \in Nat, NEW b \in Nat, NEW c \in Nat, a < b
  PROVE \A k \in b + 1 .. c : k \in a + 1 .. c
  OBVIOUS

LEMMA PendingKept ==
  ASSUME IInv, Pending, [Next]_vars
  PROVE Pending'
<1>0. /\ current \in Nat /\ done \in Nat /\ done <= current
      /\ since \in Nat /\ since <= current
      /\ IInv'
      BY NextIInv DEF IInv, Typed
<1>1. CASE since' = current /\ at' # "record" /\ UNCHANGED <<done, current>>
      BY <1>0, <1>1 DEF Pending
<1>2. CASE UNCHANGED <<done, current, since, frames>> /\ at' # "record"
      BY <1>2 DEF Pending
<1>3. CASE UNCHANGED <<done, current, since, frames, at, acquired>>
      BY <1>3 DEF Pending, InRange
<1>4. CASE GpuComplete
  <2>1. /\ done' \in done + 1 .. current
        /\ UNCHANGED <<current, since, frames, at, acquired>>
        BY <1>4 DEF GpuComplete, game
  <2>2. \A k \in done' + 1 .. current : k \in done + 1 .. current
    <3>1. done' \in Nat /\ done' > done
          BY <1>0, <2>1
    <3> QED
        BY <1>0, <3>1, LaterSubset
  <2> QED
      BY <2>1, <2>2 DEF Pending, InRange
<1>5. CASE FrameWait
  <2>1. /\ UNCHANGED <<done, current, since, acquired>> /\ at' = "record"
        /\ frames' = [frames EXCEPT ![acquired.index].fence = Unsubmitted]
        /\ acquired.index \in DOMAIN frames
        /\ frames[acquired.index].fence <= done
        BY <1>5 DEF FrameWait, FenceSignaled, InRange, Signaled, game
  <2>2. PICK n \in {0} \cup ImageCounts : frames \in [Indices(n) -> FrameType]
        BY DEF IInv, Typed, FramesOK
  <2>3. /\ frames'[acquired.index].fence = Unsubmitted
        /\ \A i \in DOMAIN frames \ {acquired.index} : frames'[i] = frames[i]
        /\ DOMAIN frames' = DOMAIN frames
        BY <2>1, <2>2 DEF FrameType
  <2>4. ASSUME NEW k \in done + 1 .. current, k > since
        PROVE \E i \in DOMAIN frames' : frames'[i].fence = k
    <3>1. PICK i \in DOMAIN frames : frames[i].fence = k
          BY <2>4 DEF Pending
    <3>2. i # acquired.index
          BY <1>0, <2>1, <3>1
    <3> QED
        BY <2>3, <3>1, <3>2
  <2> QED
      BY <2>1, <2>3, <2>4 DEF Pending, InRange
<1>6. CASE FrameSubmit
  <2>1. /\ at = "record" /\ at' = "idle" /\ x11.display
        /\ UNCHANGED <<done, since>> /\ current' = current + 1
        /\ frames' = [frames EXCEPT ![acquired.index].fence = current + 1]
        BY <1>6 DEF FrameSubmit, Submit, IInv, Absent, Present1
  <2>2. PICK n \in {0} \cup ImageCounts : frames \in [Indices(n) -> FrameType]
        BY DEF IInv, Typed, FramesOK
  <2>3. /\ acquired.index \in DOMAIN frames
        /\ frames[acquired.index].fence = Unsubmitted
        BY <2>1 DEF Pending, InRange
  <2>4. /\ frames'[acquired.index].fence = current + 1
        /\ \A i \in DOMAIN frames \ {acquired.index} : frames'[i] = frames[i]
        /\ DOMAIN frames' = DOMAIN frames
        BY <2>1, <2>2, <2>3 DEF FrameType
  <2>5. ASSUME NEW k \in done + 1 .. current + 1, k > since
        PROVE \E i \in DOMAIN frames' : frames'[i].fence = k
    <3>1. CASE k = current + 1
          BY <2>3, <2>4, <3>1
    <3>2. CASE k # current + 1
      <4>1. k \in done + 1 .. current /\ k # Unsubmitted
            BY <1>0, <3>2 DEF Unsubmitted
      <4>2. PICK i \in DOMAIN frames : frames[i].fence = k
            BY <2>5, <4>1 DEF Pending
      <4> QED
          BY <2>3, <2>4, <4>1, <4>2
    <3> QED
        BY <3>1, <3>2
  <2> QED
      BY <2>1, <2>5 DEF Pending
<1>7. CASE PresentInit \/ DestroyDevice
           \/ \E n \in ImageCounts, f \in Formats : CreateSwapchain(n, f)
  <2>1. since' = current /\ at' # "record" /\ UNCHANGED <<done, current>>
        BY <1>7 DEF PresentInit, DestroyDevice, CreateSwapchain
  <2> QED
      BY <1>1, <2>1
<1>8. CASE \/ CreateDevice \/ PresentPlain \/ PresentReady
           \/ \E i \in Indices(swapchain.images) : Acquire(i)
           \/ \E s \in Fails \cap DOMAIN Made : PresentFails(s)
  <2>1. at' # "record" /\ UNCHANGED <<done, current, since, frames>>
        BY <1>8 DEF CreateDevice, PresentPlain, PresentReady, Acquire,
                    PresentFails, Enters
  <2> QED
      BY <1>2, <2>1
<1>9. CASE PollEvents \/ UNCHANGED vars
  <2>1. UNCHANGED <<done, current, since, frames, at, acquired>>
        BY <1>9 DEF PollEvents, vars, game
  <2> QED
      BY <1>3, <2>1
<1> QED
    BY <1>4, <1>5, <1>6, <1>7, <1>8, <1>9 DEF Next, Present, Frame

\* Not more than there are fences: each submission has one of its own.
LEMMA FenceEach ==
  ASSUME NEW S, IsFiniteSet(S), NEW F, NEW a \in Nat, NEW b \in Nat, a <= b,
         \A k \in a + 1 .. b : \E i \in S : F[i] = k
  PROVE b - a <= Cardinality(S)
<1> DEFINE T == a + 1 .. b
           g == [k \in T |-> CHOOSE i \in S : F[i] = k]
<1>1. \A k \in T : g[k] \in S /\ F[g[k]] = k
      OBVIOUS
<1>2. g \in Injection(T, S)
      BY <1>1 DEF Injection, IsInjective
<1>3. Cardinality(T) <= Cardinality(S)
      BY <1>2, FS_Injection
<1>4. Cardinality(T) = b - a
  <2>1. a + 1 \in Int /\ b \in Int
        OBVIOUS
  <2>2. Cardinality(T) = IF a + 1 > b THEN 0 ELSE b - (a + 1) + 1
        BY <2>1, FS_Interval
  <2> HIDE DEF T
  <2> QED
      BY <2>2
<1> HIDE DEF T
<1> QED
    BY <1>3, <1>4

LEMMA ImagesCardinality ==
  ASSUME NEW n \in Nat
  PROVE IsFiniteSet(Indices(n)) /\ Cardinality(Indices(n)) = n
<1>1. /\ IsFiniteSet(0 .. n - 1)
      /\ Cardinality(0 .. n - 1) = IF 0 > n - 1 THEN 0 ELSE n - 1 - 0 + 1
      BY FS_Interval
<1> QED
    BY <1>1 DEF Indices

LEMMA RecentFrames == ASSUME IInv, Pending PROVE InFlightRecent
<1> DEFINE from == IF done > since THEN done ELSE since
<1>1. PICK n \in {0} \cup ImageCounts : frames \in [Indices(n) -> FrameType]
      BY DEF IInv, Typed, FramesOK
<1>2. n \in Nat /\ DOMAIN frames = Indices(n)
      BY <1>1, ImageCountsAssumption
<1>3. IsFiniteSet(DOMAIN frames) /\ Cardinality(DOMAIN frames) = n
      BY <1>2, ImagesCardinality
<1>4. /\ current \in Nat /\ done \in Nat /\ done <= current
      /\ since \in Nat /\ since <= current
      BY DEF IInv, Typed
<1>5. from \in Nat /\ from <= current
      BY <1>4
<1>k. \A k \in from + 1 .. current : k \in done + 1 .. current /\ k > since
      BY <1>4
<1> DEFINE F == [i \in DOMAIN frames |-> frames[i].fence]
<1>6. \A k \in from + 1 .. current : \E i \in DOMAIN frames : F[i] = k
      BY <1>k DEF Pending
<1>e. (IF done > since THEN current - done ELSE current - since) = current - from
      OBVIOUS
<1> HIDE DEF F, from
<1>7. current - from <= Cardinality(DOMAIN frames)
      BY <1>3, <1>4, <1>5, <1>6, FenceEach
<1>8. ASSUME at = "record" PROVE current - from < Cardinality(DOMAIN frames)
  <2>1. acquired.index \in DOMAIN frames /\ F[acquired.index] = Unsubmitted
        BY <1>8 DEF Pending, InRange, F
  <2> DEFINE R == DOMAIN frames \ {acquired.index}
  <2>2. \A k \in from + 1 .. current : \E i \in R : F[i] = k
        BY <1>5, <1>6, <2>1 DEF Unsubmitted
  <2>3. IsFiniteSet(R) /\ Cardinality(R) = n - 1
        BY <1>3, <2>1, FS_RemoveElement
  <2> HIDE DEF R
  <2>4. current - from <= Cardinality(R)
        BY <1>4, <1>5, <2>2, <2>3, FenceEach
  <2> QED
      BY <1>2, <1>3, <1>4, <1>5, <2>3, <2>4
<1> QED
    BY <1>e, <1>7, <1>8 DEF InFlightRecent

\* Of what was submitted since the swapchain was replaced the GPU is never behind
\* by more frames than there are images, whatever calls fail.
THEOREM FlightsRecent == Spec => []InFlightRecent
<1>1. Init => Pending
      BY DEF Init, Pending
<1>2. IInv /\ Pending /\ [Next]_vars => Pending'
      BY PendingKept
<1>3. IInv /\ Pending => InFlightRecent
      BY RecentFrames
<1> QED
    BY <1>1, <1>2, <1>3, Invariance, PTL DEF Spec

-----------------------------------------------------------------------------
(* Each behaviour with screenshots is one of the frames alone, so that what *)
(* is shown of these holds with screenshots as well.                       *)

\* A step is one of the frames: waiting until the GPU is idle completes all.
LEMMA ShotStep == TypeOK /\ [ShotNext]_allVars => [Next]_vars
<1> SUFFICES ASSUME TypeOK, [ShotNext]_allVars
             PROVE [Next]_vars
    OBVIOUS
<1>1. done \in 0 .. current /\ current \in Nat
      BY DEF TypeOK
<1>2. ASSUME done' \in {done, current},
             UNCHANGED <<game, at, hook, made, frames, current, since, ring, x11>>
      PROVE [Next]_vars
  <2>1. CASE done' = done
        BY <1>2, <2>1 DEF vars, game
  <2>2. CASE done' # done
    <3>1. done' \in done + 1 .. current
          BY <1>1, <1>2, <2>2
    <3> QED
        BY <1>2, <3>1 DEF GpuComplete, Next
  <2> QED
      BY <2>1, <2>2
<1>3. CASE Capture \/ CaptureFails
      BY <1>2, <1>3 DEF Capture, CaptureFails
<1>4. CASE UNCHANGED vars
      BY <1>4
<1>5. CASE Elsewhere \/ Wait \/ EndFrame \/ Complete \/ PollEvents
      BY <1>5 DEF Elsewhere, Wait, EndFrame, Complete, Next, Frame
<1> QED
    BY <1>3, <1>4, <1>5
    DEF ShotNext, InHook, TakeScreenshot, ReadType, SendScreenshot,
        CallbackReturns, allVars

\* The frames with screenshots are frames.
THEOREM ShotsAreFrames == ShotSpec => Spec
<1>1. ShotInit => Init /\ TypeOK
      BY InitTyped, TypedIsTypeOK DEF ShotInit
<1>2. TypeOK /\ [ShotNext]_allVars => TypeOK'
      BY ShotStep, NextTyped
<1>3. ShotInit /\ [][ShotNext]_allVars => []TypeOK
      BY <1>1, <1>2, PTL
<1>4. ShotInit /\ [][ShotNext]_allVars => Init /\ [][Next]_vars
      BY <1>1, <1>3, ShotStep, PTL
<1> QED
    BY <1>4, PTL DEF ShotSpec, Spec

\* The frame of the image presented is found, whatever pictures are taken.
THEOREM ShotsOnPresented == ShotSpec => []OnPresentedImage
  BY ShotsAreFrames, DrawnOnPresented, PTL

\* What a frame is drawn with, but the render pass, was made on its device.
THEOREM ShotsOnDevice == ASSUME NotHalfway PROVE ShotSpec => []DeviceCurrent
  BY ShotsAreFrames, DrawnOnDevice, PTL

\* The GPU is never behind by more frames of the swapchain than it has images.
THEOREM ShotsRecent == ShotSpec => []InFlightRecent
  BY ShotsAreFrames, FlightsRecent, PTL

-----------------------------------------------------------------------------
(* Requests                                                                *)

\* How far a frame got goes with what it read: a request is served once, and a
\* frame that does not serve one has none to clear.
ShotRight ==
    /\ shot.at \in {"none", "overlay", "capture", "send", "callback"}
    /\ shot.at \in {"capture", "send"} => shot.type # None
    /\ shot.at \in {"none", "callback"} => shot.type = None
    /\ shot = [at |-> shot.at, type |-> shot.type]
    /\ Serving => unread = None

LEMMA ShotRightNext ==
  ASSUME ShotRight, AskedIsRead, [ShotNext]_allVars
  PROVE ShotRight' /\ AskedIsRead'
<1>1. ASSUME NEW t \in Types, TakeScreenshot(t)
      PROVE ShotRight' /\ AskedIsRead'
      BY <1>1 DEF TakeScreenshot, ShotRight, AskedIsRead, Serving
<1>2. CASE ReadType
  <2>1. /\ shot' = [type |-> wanted,
                    at |-> IF wanted = "before" THEN "capture" ELSE "overlay"]
        /\ unread' = None /\ wanted' = wanted
        BY <1>2 DEF ReadType
  <2>2. None # "before"
        BY TypesAssumption DEF Types
  <2> QED
      BY <2>1, <2>2 DEF ShotRight, AskedIsRead, Serving
<1>3. CASE Capture
      BY <1>3 DEF Capture, ShotRight, AskedIsRead, Serving
<1>4. CASE CaptureFails
      BY <1>4 DEF CaptureFails, GoesOn, ShotRight, AskedIsRead, Serving
<1>5. CASE SendScreenshot
      BY <1>5 DEF SendScreenshot, ShotRight, AskedIsRead, Serving
<1>6. CASE CallbackReturns
      BY <1>6 DEF CallbackReturns, GoesOn, ShotRight, AskedIsRead, Serving
<1>7. CASE EndFrame
      BY <1>7 DEF EndFrame, NoShot, ShotRight, AskedIsRead, Serving
<1>8. CASE UNCHANGED shotVars
      BY <1>8 DEF shotVars, ShotRight, AskedIsRead, Serving
<1> QED
    BY <1>1, <1>2, <1>3, <1>4, <1>5, <1>6, <1>7, <1>8
    DEF ShotNext, InHook, Elsewhere, Wait, Complete, allVars, shotVars

\* Outside of the time in which a frame serves a request, the request a frame
\* will read is the last one made that none has read.
THEOREM RequestsRead == ShotSpec => []AskedIsRead
<1>1. ShotInit => ShotRight /\ AskedIsRead
      BY DEF ShotInit, NoShot, ShotRight, AskedIsRead, Serving
<1>2. ShotRight /\ AskedIsRead /\ [ShotNext]_allVars => (ShotRight /\ AskedIsRead)'
      BY ShotRightNext
<1> QED
    BY <1>1, <1>2, PTL DEF ShotSpec
=============================================================================
