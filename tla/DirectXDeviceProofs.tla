------------------------- MODULE DirectXDeviceProofs -------------------------
(***************************************************************************)
(* The reference count of the Direct3D 11 hook is never too low when it     *)
(* matters and exceeds the truth by what is announced only, for any number  *)
(* of references of the game, of ImGui and of textures.                     *)
(***************************************************************************)
EXTENDS DirectXDevice, TLAPS

\* What the hook holds once it has drawn, and one more.
Full == 3 + Fixed + Lazy + held.loaded + held.gone

\* Where the presenting thread can be in each state.
Places == /\ InFrame => state = "ready"
          /\ at = "resize" => state \in {"reset", "removing"}
          /\ state = "reset" => at = "resize"
          /\ state = "ready" => held.target = 1
          /\ at # "idle" => game >= 1

\* Outside of _LoadResources the count covers all that is or will be held.
NotLow == state # "removing" /\ at \notin {"texture", "loaded"}
            => threshold >= Full

\* It covers no more than the release list and what was let go of it.
NotHigh == state # "removing" => threshold <= Full + unloaded + uncounted

IInv == TypeOK /\ Places /\ NotLow /\ NotHigh /\ DeviceFreed

\* What the hook holds, field by field.
HeldOK == /\ held.target \in {0, 1} /\ held.lazy \in {0, Lazy}
          /\ held.loaded \in Nat /\ held.gone \in Nat

LEMMA HeldFields == TypeOK => HeldOK /\ 0 \in Nat /\ Lazy \in Nat
  BY CountsAssumption DEF TypeOK, HeldOK

\* A record with these fields.
HeldChanged(h, target, lazy, loaded, gone) ==
    /\ h \in [target : {0, 1}, lazy : {0, Lazy}, loaded : Nat, gone : Nat]
    /\ h.target = target /\ h.lazy = lazy /\ h.loaded = loaded /\ h.gone = gone

LEMMA ChangeHeld ==
  ASSUME TypeOK, NEW t \in {0, 1}, NEW z \in {0, Lazy}, NEW l \in Nat, NEW g \in Nat
  PROVE  /\ HeldChanged([held EXCEPT !.target = t],
                        t, held.lazy, held.loaded, held.gone)
         /\ HeldChanged([held EXCEPT !.lazy = z],
                        held.target, z, held.loaded, held.gone)
         /\ HeldChanged([held EXCEPT !.loaded = l],
                        held.target, held.lazy, l, held.gone)
         /\ HeldChanged([held EXCEPT !.gone = g],
                        held.target, held.lazy, held.loaded, g)
         /\ HeldChanged([held EXCEPT !.loaded = l, !.gone = g],
                        held.target, held.lazy, l, g)
  BY DEF TypeOK, HeldChanged

LEMMA InitIInv == Init => IInv
<1> SUFFICES ASSUME Init PROVE IInv
    OBVIOUS
<1>1. TypeOK
      BY CountsAssumption DEF Init, TypeOK, Nothing
<1>2. Places
      BY DEF Init, Places, InFrame
<1>3. NotLow /\ NotHigh /\ DeviceFreed
      BY DEF Init, NotLow, NotHigh, DeviceFreed, Holds
<1> QED
    BY <1>1, <1>2, <1>3 DEF IInv

LEMMA NextIInv == IInv /\ [Next]_vars => IInv'
<1> SUFFICES ASSUME IInv, [Next]_vars
             PROVE IInv'
    OBVIOUS
<1>0. HeldOK /\ Nothing \in [target : {0, 1}, lazy : {0, Lazy}, loaded : Nat, gone : Nat]
      BY HeldFields DEF IInv, Nothing
<1> USE <1>0, CountsAssumption
         DEF IInv, TypeOK, Places, InFrame, NotLow, NotHigh, DeviceFreed, Holds,
             Full, Refs, hook
<1>b. CASE Break
      BY <1>b DEF Break
<1>1. CASE CreateDevice
      BY <1>1 DEF CreateDevice
<1>2. CASE Obtain
      BY <1>2 DEF Obtain
<1>3. CASE Release
  <2>1. CASE Noticed(Refs - 1) /\ ~ InFrame
    <3>1. Remove /\ game' \in Nat /\ UNCHANGED <<at, broken>>
          BY <1>3, <2>1 DEF Release, Noticed
    <3>2. TypeOK'
          BY <3>1 DEF Remove
    <3>3. Places'
          BY <3>1, <1>3, <2>1 DEF Remove, Release
    <3> QED
        BY <3>1, <3>2, <3>3 DEF Remove
  <2>2. CASE Noticed(Refs - 1) /\ InFrame
    <3>1. game >= 2 /\ game' = game - 1
          BY <1>3, <2>2 DEF Release
    <3>2. broken' = TRUE /\ UNCHANGED <<at, hook>>
          BY <1>3, <2>2 DEF Release
    <3> QED
        BY <3>1, <3>2
  <2>3. CASE ~ Noticed(Refs - 1)
    <3>1. game >= 1 /\ (at # "idle" => game >= 2) /\ game' = game - 1
          BY <1>3 DEF Release
    <3>2. UNCHANGED <<hook, at, broken>>
          BY <1>3, <2>3 DEF Release
    <3>3. TypeOK' /\ Places' /\ NotLow' /\ NotHigh'
          BY <3>1, <3>2
    <3>4. ASSUME game' = 0, state # "removing"
          PROVE FALSE
          BY <2>3, <3>1, <3>4 DEF Noticed, HeldOK
    <3>5. DeviceFreed'
          BY <3>2, <3>4
    <3> QED
        BY <3>3, <3>5
  <2> QED
      BY <2>1, <2>2, <2>3
<1>4. CASE AllocImageResource
      BY <1>4 DEF AllocImageResource
<1>5. CASE ReleaseLoaded
  <2>1. /\ UNCHANGED <<game, state, waiting, unloaded, threshold, uncounted, at,
                       broken>>
        /\ held.loaded >= 1
        BY <1>5 DEF ReleaseLoaded, HeldOK
  <2>2. /\ held' = [held EXCEPT !.loaded = held.loaded - 1, !.gone = held.gone + 1]
        /\ held.loaded - 1 \in Nat /\ held.gone + 1 \in Nat
        BY <1>5, <2>1 DEF ReleaseLoaded, HeldOK
  <2>3. HeldChanged(held', held.target, held.lazy, held.loaded - 1, held.gone + 1)
        BY <2>2, ChangeHeld DEF HeldOK
  <2> QED
      BY <2>1, <2>3 DEF HeldChanged, HeldOK
<1>6. CASE ReleaseWaiting
      BY <1>6 DEF ReleaseWaiting
<1>7. CASE PresentInit
      BY <1>7 DEF PresentInit, Count, Nothing
<1>8. CASE PresentReady
      BY <1>8 DEF PresentReady
<1>9. CASE OverlayProc
      BY <1>9 DEF OverlayProc
<1>10. CASE LoadResources
  <2>0. /\ at \in {"load", "loaded"} /\ at' = "texture"
        /\ UNCHANGED <<game, state, threshold, uncounted, broken>>
        BY <1>10 DEF LoadResources
  <2>1. CASE /\ waiting > 0 /\ waiting' = waiting - 1
             /\ held' = [held EXCEPT !.loaded = @ + 1]
             /\ UNCHANGED unloaded
    <3>0. held.loaded + 1 \in Nat
          BY DEF HeldOK
    <3>1. HeldChanged(held', held.target, held.lazy, held.loaded + 1, held.gone)
          BY <2>1, <3>0, ChangeHeld DEF HeldOK
    <3>2. UNCHANGED unloaded /\ waiting' \in Nat
          BY <2>1
    <3> QED
        BY <2>0, <3>1, <3>2 DEF HeldChanged, HeldOK
  <2>2. CASE /\ unloaded > 0 /\ unloaded' = unloaded - 1
             /\ held' = [held EXCEPT !.gone = @ + 1]
             /\ UNCHANGED waiting
    <3>0. held.gone + 1 \in Nat
          BY DEF HeldOK
    <3>1. HeldChanged(held', held.target, held.lazy, held.loaded, held.gone + 1)
          BY <2>2, <3>0, ChangeHeld DEF HeldOK
    <3>2. UNCHANGED waiting /\ unloaded' \in Nat /\ unloaded' = unloaded - 1
          BY <2>2
    <3> QED
        BY <2>0, <3>1, <3>2 DEF HeldChanged, HeldOK
  <2> QED
      BY <1>10, <2>1, <2>2 DEF LoadResources
<1>11. CASE KeepView
       BY <1>11, <1>b DEF KeepView
<1>12. CASE LoadNothing
       BY <1>12 DEF LoadNothing
<1>13. CASE UpdateHookDeviceRefCount
  <2>1. /\ at \in {"loaded", "releasing"} /\ at' \in {"release", "draw"}
        /\ threshold' = 3 + Fixed + Lazy + (held.gone + unloaded) + held.loaded
        /\ uncounted' = 0
        /\ UNCHANGED <<game, state, held, waiting, unloaded, broken>>
        BY <1>13 DEF UpdateHookDeviceRefCount, CountAgain, Counting, Count
  <2> QED
      BY <2>1 DEF HeldOK
<1>14. CASE ReleaseResources
       BY <1>14 DEF ReleaseResources
<1>15. CASE ReleaseTexture
  <2>1. CASE /\ unloaded > 0 /\ unloaded' = unloaded - 1
             /\ uncounted' = uncounted + 1
             /\ UNCHANGED <<game, state, held, waiting, threshold, at, broken>>
        BY <2>1 DEF HeldOK
  <2>2. CASE /\ held.gone > 0
             /\ held' = [held EXCEPT !.gone = @ - 1]
             /\ uncounted' = uncounted + 1
             /\ UNCHANGED <<game, state, waiting, unloaded, threshold, at, broken>>
    <3>1. held.gone - 1 \in Nat
          BY <2>2 DEF HeldOK
    <3>2. HeldChanged(held', held.target, held.lazy, held.loaded, held.gone - 1)
          BY <2>2, <3>1, ChangeHeld DEF HeldOK
    <3>3. /\ uncounted' = uncounted + 1
          /\ UNCHANGED <<game, state, waiting, unloaded, threshold, at, broken>>
          BY <2>2
    <3> QED
        BY <1>15, <3>1, <3>2, <3>3 DEF HeldChanged, HeldOK, ReleaseTexture
  <2> QED
      BY <1>15, <1>b, <2>1, <2>2 DEF ReleaseTexture
<1>16. CASE Draw
  <2>1. CASE /\ at = "draw" /\ at' = "drawn"
             /\ held' = [held EXCEPT !.lazy = Lazy]
             /\ UNCHANGED <<game, state, waiting, unloaded, threshold, uncounted,
                            broken>>
    <3>1. HeldChanged(held', held.target, Lazy, held.loaded, held.gone)
          BY <2>1, ChangeHeld DEF HeldOK
    <3> QED
        BY <2>1, <3>1 DEF HeldChanged, HeldOK
  <2> QED
      BY <1>16, <1>b, <2>1 DEF Draw, Drawn
<1>17. CASE DrawNothing
       BY <1>17 DEF DrawNothing
<1>18. CASE HandleScreenshot
       BY <1>18, <1>b DEF HandleScreenshot
<1>19. CASE PresentReturns
       BY <1>19 DEF PresentReturns
<1>20. CASE ResizeReset
  <2>1. CASE /\ state = "ready" /\ state' = "reset" /\ at = "idle" /\ at' = "resize"
             /\ game > 0
             /\ held' = [held EXCEPT !.target = 0]
             /\ UNCHANGED <<game, waiting, unloaded, threshold, uncounted, broken>>
    <3>1. HeldChanged(held', 0, held.lazy, held.loaded, held.gone)
          BY <2>1, ChangeHeld DEF HeldOK
    <3> QED
        BY <2>1, <3>1 DEF HeldChanged, HeldOK
  <2> QED
      BY <1>20, <1>b, <2>1 DEF ResizeReset
<1>21. CASE ResizeCreate
  <2>1. CASE /\ state = "reset" /\ state' = "ready"
             /\ held' = [held EXCEPT !.target = 1]
             /\ threshold' = Count(held')
             /\ UNCHANGED <<waiting, unloaded, uncounted>>
    <3>1. HeldChanged(held', 1, held.lazy, held.loaded, held.gone)
          BY <2>1, ChangeHeld DEF HeldOK
    <3>2. at = "resize" /\ at' = "idle" /\ UNCHANGED <<game, broken>>
          BY <1>21 DEF ResizeCreate
    <3>3. threshold' = 3 + Fixed + Lazy + (held.gone + unloaded) + held.loaded
          BY <2>1, <3>1 DEF Count, HeldChanged
    <3> QED
        BY <2>1, <3>1, <3>2, <3>3 DEF HeldChanged, HeldOK
  <2>2. CASE Remove
        BY <1>21, <2>2 DEF ResizeCreate, Remove, Nothing
  <2>3. CASE state = "removing" /\ UNCHANGED hook
        BY <1>21, <2>3 DEF ResizeCreate
  <2> QED
      BY <1>21, <2>1, <2>2, <2>3 DEF ResizeCreate
<1>22. CASE UNCHANGED vars
       BY <1>22 DEF vars
<1> QED
    BY <1>1, <1>2, <1>3, <1>4, <1>5, <1>6, <1>7, <1>8, <1>9, <1>10, <1>11,
       <1>12, <1>13, <1>14, <1>15, <1>16, <1>17, <1>18, <1>19, <1>20, <1>21,
       <1>22
    DEF Next, Application, Present

LEMMA Invariance == Spec => []IInv
  BY InitIInv, NextIInv, PTL DEF Spec

\* References, textures and the count keep their types.
THEOREM TypeCorrect == Spec => []TypeOK
  BY Invariance, PTL DEF IInv

\* When the game has given up its device the hook has too.
THEOREM DeviceIsFreed == Spec => []DeviceFreed
  BY Invariance, PTL DEF IInv

\* A Release that leaves the game with its swap chain alone removes the hook,
\* unless it comes while _LoadResources has loaded what it has not counted.
THEOREM LastReleaseNoticed == Spec => ReleaseNoticed
<1>1. ASSUME IInv, [Next]_vars, game' < game, game' <= 1,
             at \notin {"texture", "loaded"}
      PROVE state' = "removing" \/ broken'
  <2>1. Release
        BY <1>1
        DEF IInv, TypeOK, Next, Application, Present, vars, hook, CreateDevice,
            Obtain, AllocImageResource, ReleaseLoaded, ReleaseWaiting, PresentInit,
            PresentReady, OverlayProc, LoadResources, KeepView, LoadNothing,
            UpdateHookDeviceRefCount, CountAgain, ReleaseResources, ReleaseTexture,
            Break, Draw, DrawNothing, HandleScreenshot, PresentReturns, ResizeReset,
            ResizeCreate
  <2>2. state # "removing" => Noticed(Refs - 1)
        BY <1>1, <2>1, CountsAssumption
        DEF IInv, TypeOK, NotLow, Full, Noticed, Refs, Holds, Release
  <2> QED
      BY <1>1, <2>1, <2>2 DEF Release, Remove, Noticed, hook
<1> QED
    BY <1>1, Invariance, PTL DEF Spec, ReleaseNoticed

\* Wherever it comes in a frame or a resize, a Release removes the hook only
\* when the game has two references left, or as many more as the hook counts
\* and does not hold at that place.
THEOREM NeverEarly == Spec => NotEarly
<1>1. ASSUME IInv, Next, state # "removing",
             broken' \/ (state' = "removing" /\ game' < game)
      PROVE game' <= 2 + Slack
  <2>0. ~ broken /\ HeldOK
        BY <1>1, HeldFields DEF Next, IInv
  <2> USE <1>1, <2>0, CountsAssumption
          DEF IInv, TypeOK, Places, InFrame, NotHigh, Full, Holds, Refs, Slack,
              HeldOK
  <2>1. CASE Release
        BY <2>1 DEF Release, Noticed, hook
  <2>2. CASE KeepView
        BY <2>2 DEF KeepView, Noticed, Break
  <2>3. CASE ReleaseTexture
        BY <2>3 DEF ReleaseTexture, Noticed, Break
  <2>4. CASE Draw
        BY <2>4 DEF Draw, Noticed, Break
  <2>5. CASE HandleScreenshot
        BY <2>5 DEF HandleScreenshot, Noticed, Break
  <2>6. CASE ResizeReset
        BY <2>6 DEF ResizeReset, Noticed, Break
  <2> QED
      BY <2>1, <2>2, <2>3, <2>4, <2>5, <2>6
      DEF Next, Application, Present, CreateDevice, Obtain, AllocImageResource,
          ReleaseLoaded, ReleaseWaiting, PresentInit, PresentReady, OverlayProc,
          LoadResources, LoadNothing, UpdateHookDeviceRefCount, CountAgain,
          ReleaseResources, DrawNothing, PresentReturns, ResizeCreate, hook
<1>2. IInv /\ [Next]_vars
      => [(/\ state # "removing"
           /\ broken' \/ (state' = "removing" /\ game' < game))
            => game' <= 2 + Slack]_vars
      BY <1>1
<1> QED
    BY <1>2, Invariance, PTL DEF Spec, NotEarly
=============================================================================
