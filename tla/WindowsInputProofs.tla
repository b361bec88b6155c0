------------------------- MODULE WindowsInputProofs -------------------------
(***************************************************************************)
(* The safety of the Windows input hook for any combination of keys, any    *)
(* positions and regions and queues of any length.                          *)
(***************************************************************************)
EXTENDS WindowsInput, SequenceTheorems, TLAPS

CallType == [at : {"idle", "app", "overlay", "keys", "call", "callback",
                   "treat", "save", "restore", "deliver", "return", "input",
                   "give", "clip"},
             msg : Kinds \cup {"data"}, app : BOOLEAN, overlay : BOOLEAN,
             region : Regions]
WinType == [initialized : BOOLEAN, resetting : BOOLEAN, pushed : BOOLEAN,
            hideApp : BOOLEAN, hideOverlay : BOOLEAN, saved : Positions,
            savedClip : Regions]
RequestType == [by : {"nobody", "application", "callback"},
                at : {"done", "testApp", "storeApp", "clipApp", "testOverlay",
                      "storeOverlay"}]

\* The hook is in the callback, or has not remembered it yet.
Calling == call.at \in {"call", "callback", "treat", "save", "restore"}

\* A callback that was called is remembered as long as the keys are held.
Fired == calls > 0 => Keys \subseteq down /\ (win.pushed \/ Calling)

\* The game was told what is saved, and nothing yet when that changes.
Changing == call.at \in {"callback", "treat", "save"}
AskedSaved == /\ \A p \in asked : Frozen /\ p = win.saved
              /\ Changing => asked = {}

\* The hook has read whose the message is.
Decided == call.at \in {"overlay", "keys", "call", "callback", "treat", "save",
                        "restore", "deliver", "return"}
Owned == Decided /\ ~ call.app => own

\* A call that nothing came in between will set the right region.
ClipPending ==
    ~ late => /\ AppSets => ~ PresentSets /\ ~ GameSets /\ win.hideApp = shown
              /\ PresentSets => ~ GameSets /\ ~ win.hideApp
              /\ call.at = "clip" => call.region = Confine(win.hideApp)
              /\ call.at = "save" => win.hideApp /\ clip = Default
              /\ call.at = "restore" => ~ win.hideApp

Clips == ClipRight /\ ClipPending

IInv == TypeOK /\ OncePerHold /\ Fired /\ AskedSaved /\ Owned /\ Clips

\* The type invariant, for the parts that an action may change.
LEMMA TypeOfRest ==
  ASSUME down' \subseteq Keys, clip' \in Regions, queue' \in Seq(Kinds),
         call' \in CallType, raws' \in 0 .. RawSize, win' \in WinType,
         hook' \in {"ready", "reset", "leaving", "removing"},
         shown' \in BOOLEAN, request' \in RequestType, calls' \in Nat,
         late' \in BOOLEAN, own' \in BOOLEAN, asked' \subseteq Positions
  PROVE TypeOK'
  BY DEF TypeOK, CallType, WinType, RequestType

LEMMA Types ==
  ASSUME IInv
  PROVE /\ down \subseteq Keys /\ clip \in Regions /\ queue \in Seq(Kinds)
        /\ call \in CallType /\ raws \in 0 .. RawSize /\ win \in WinType
        /\ hook \in {"ready", "reset", "leaving", "removing"}
        /\ shown \in BOOLEAN /\ request \in RequestType /\ calls \in Nat
        /\ late \in BOOLEAN /\ own \in BOOLEAN /\ asked \subseteq Positions
  BY DEF IInv, TypeOK, CallType, WinType, RequestType

\* What the game was told is forgotten when its inputs are its own.
LEMMA Forgotten ==
  ASSUME IInv, Forget, win'.saved = win.saved,
         Changing' => Changing \/ ~ shown \/ ~ Frozen'
  PROVE AskedSaved' /\ asked' \subseteq Positions
<1>1. (asked' = asked /\ Frozen') \/ asked' = {}
      BY DEF Forget
<1>2. asked \subseteq Positions
      BY DEF IInv, TypeOK
<1>3. ~ shown => asked = {}
      BY DEF IInv, AskedSaved, Frozen
<1>4. \A p \in asked' : Frozen' /\ p = win'.saved
      BY <1>1 DEF IInv, AskedSaved
<1>5. Changing' => asked' = {}
      BY <1>1, <1>3 DEF IInv, AskedSaved
<1> QED
    BY <1>1, <1>2, <1>4, <1>5 DEF AskedSaved

\* The hook lets an input pass because it has seen that it may.
LEMMA Watched ==
  ASSUME IInv, Watch,
         Decided' /\ ~ call'.app => ~ Hidden' \/ (Decided /\ ~ call.app)
  PROVE Owned' /\ own' \in BOOLEAN
<1>1. own' \in BOOLEAN
      BY DEF Watch
<1>2. ASSUME Decided', ~ call'.app
      PROVE own'
  <2>1. call'.at \notin {"idle", "clip", "input"}
        BY <1>2 DEF Decided
  <2>2. ~ Hidden' \/ own
        BY <1>2 DEF IInv, Owned
  <2> QED
      BY <2>1, <2>2 DEF Watch
<1> QED
    BY <1>1, <1>2 DEF Owned

\* Actions that have nothing to do with the region.
LEMMA ClipsKept ==
  ASSUME IInv, UNCHANGED <<clip, late>>,
         win'.hideApp = win.hideApp, win'.savedClip = win.savedClip,
         PresentSets' <=> PresentSets, AppSets' <=> AppSets,
         AppSets => shown' = shown,
         call' = call \/ (~ GameSets /\ ~ GameSets')
  PROVE Clips'
<1>1. Confine(win.hideApp)' = Confine(win.hideApp)
      BY DEF Confine
<1>2. GameSets' = GameSets
      BY DEF GameSets
<1>3. ClipRight'
      BY <1>1, <1>2 DEF IInv, Clips, ClipRight
<1>4. AppSets /\ ~ late => win'.hideApp = shown'
      BY DEF IInv, Clips, ClipPending
<1>5. ~ late => /\ AppSets => ~ PresentSets /\ ~ GameSets
                /\ PresentSets => ~ GameSets /\ ~ win.hideApp
      BY DEF IInv, Clips, ClipPending
<1>6. ~ late /\ GameSets' =>
        /\ call'.at = "clip" => call'.region = Confine(win.hideApp)
        /\ call'.at = "save" => win.hideApp /\ clip = Default
        /\ call'.at = "restore" => ~ win.hideApp
      BY DEF IInv, Clips, ClipPending
<1>7. ClipPending'
      BY <1>1, <1>2, <1>4, <1>5, <1>6 DEF ClipPending, GameSets
<1> QED
    BY <1>3, <1>7 DEF Clips

-----------------------------------------------------------------------------

LEMMA InitIInv == Init => IInv
<1> SUFFICES ASSUME Init PROVE IInv
    OBVIOUS
<1> USE DEF Init
<1>1. PICK p \in Positions :
         win = [initialized |-> FALSE, resetting |-> FALSE, pushed |-> FALSE,
                hideApp |-> FALSE, hideOverlay |-> TRUE, saved |-> p,
                savedClip |-> Default]
      OBVIOUS
<1>2. win \in WinType /\ win.savedClip = Default /\ ~ win.hideApp
      BY <1>1, DefaultAssumption DEF WinType
<1>3. call \in CallType /\ call.at = "idle"
      BY DefaultAssumption DEF Idle, CallType, Kinds
<1>4. request \in RequestType /\ request.at = "done"
      BY DEF NoRequest, RequestType
<1>5. queue \in Seq(Kinds) /\ 0 \in 0 .. RawSize
      BY EmptySeq, SizesAssumption
<1>6. TypeOK
      BY <1>2, <1>3, <1>4, <1>5, DefaultAssumption
      DEF TypeOK, CallType, WinType, RequestType
<1>7. Clips
      BY <1>1, <1>2, <1>3, <1>4
      DEF Clips, ClipRight, ClipPending, Confine, PresentSets, AppSets, GameSets
<1> QED
    BY <1>3, <1>6, <1>7
    DEF IInv, OncePerHold, Fired, AskedSaved, Changing, Owned, Decided

LEMMA UserIInv == ASSUME IInv, User, Forget, Watch PROVE IInv'
<1>1. /\ \E kind \in Kinds : Posted(kind)
      /\ UNCHANGED <<clip, call, raws, win, hook, shown, request, late>>
      BY OthersAssumption
      DEF User, Press, Release, Other, Kinds, Ignored, overlay
<1>2. queue' \in Seq(Kinds)
      BY <1>1, AppendProperties, Types DEF Posted
<1>3. /\ down' \subseteq Keys
      /\ calls' \in {0, calls} /\ (calls' > 0 => down \subseteq down')
      BY Types DEF User, Press, Release, Other
<1>4. OncePerHold' /\ Fired'
      BY <1>1, <1>3 DEF IInv, OncePerHold, Fired, Calling
<1>5. AskedSaved' /\ asked' \subseteq Positions
      BY <1>1, Forgotten DEF Changing
<1>6. Owned' /\ own' \in BOOLEAN
      BY <1>1, Watched DEF Decided
<1>7. Clips'
      BY <1>1, ClipsKept DEF PresentSets, AppSets
<1>8. TypeOK'
      BY <1>1, <1>2, <1>3, <1>5, <1>6, Types, TypeOfRest
<1> QED
    BY <1>4, <1>5, <1>6, <1>7, <1>8 DEF IInv

-----------------------------------------------------------------------------
(* The application and the present thread                                  *)

\* Actions of other threads than the message thread keep most of the invariant.
LEMMA OthersIInv ==
  ASSUME IInv, Forget, Watch,
         UNCHANGED <<down, queue, call, raws, calls>>,
         clip' \in Regions, late' \in BOOLEAN, win' \in WinType,
         hook' \in {"ready", "reset", "leaving", "removing"},
         shown' \in BOOLEAN, request' \in RequestType,
         win'.pushed = win.pushed, win'.saved = win.saved, Clips'
  PROVE IInv'
<1>1. OncePerHold' /\ Fired'
      BY DEF IInv, OncePerHold, Fired, Calling
<1>2. AskedSaved' /\ asked' \subseteq Positions
      BY Forgotten DEF Changing
<1>3. Owned' /\ own' \in BOOLEAN
      BY Watched DEF Decided
<1>4. TypeOK'
      BY <1>2, <1>3, Types, TypeOfRest
<1> QED
    BY <1>1, <1>2, <1>3, <1>4 DEF IInv

LEMMA ShowIInv ==
  ASSUME IInv, Forget, Watch, NEW yes \in BOOLEAN, Show(yes) PROVE IInv'
<1>1. /\ UNCHANGED <<down, queue, call, raws, clip, win, late, hook, calls>>
      /\ request = NoRequest /\ shown' = yes
      /\ request' = [by |-> "application", at |-> "testApp"]
      BY DEF Show, Asks, members
<1>2. ~ AppSets /\ ~ AppSets' /\ request' \in RequestType
      BY <1>1 DEF NoRequest, AppSets, RequestType
<1>3. Clips'
      BY <1>1, <1>2, ClipsKept DEF PresentSets
<1> QED
    BY <1>1, <1>2, <1>3, Types, OthersIInv

LEMMA HideAppIInv == ASSUME IInv, Forget, Watch, HideAppInputs PROVE IInv'
<1>0. UNCHANGED <<down, queue, call, raws, hook, shown, calls>>
      BY DEF HideAppInputs
<1>1. PICK a \in {"storeApp", "clipApp", "testOverlay"} :
         request' = [request EXCEPT !.at = a]
      BY DEF HideAppInputs
<1>2. request' \in RequestType /\ request'.at = a
      BY <1>1, Types DEF RequestType
<1>3. GameSets' = GameSets
      BY <1>0 DEF GameSets
<1>4. CASE request.at = "testApp"
  <2>1. UNCHANGED <<clip, win, late>> /\ a # "clipApp"
        BY <1>1, <1>2, <1>4, Types DEF HideAppInputs, members, RequestType
  <2>2. ~ AppSets /\ ~ AppSets'
        BY <1>2, <1>4, <2>1 DEF AppSets
  <2>3. Clips'
        BY <1>0, <2>1, <2>2, ClipsKept DEF PresentSets
  <2> QED
      BY <1>0, <1>2, <2>1, <2>3, Types, OthersIInv
<1>5. CASE request.at = "storeApp"
  <2>1. /\ win' = [win EXCEPT !.hideApp = shown] /\ clip' = clip
        /\ late' = (PresentSets \/ GameSets) /\ request'.at = "clipApp"
        BY <1>5, Types DEF HideAppInputs, RequestType
  <2>2. /\ win' \in WinType /\ win'.hideApp = shown
        /\ win'.pushed = win.pushed /\ win'.saved = win.saved
        /\ win'.resetting = win.resetting
        BY <2>1, Types DEF WinType
  <2>3. late' \in BOOLEAN
        BY <2>1, Types DEF PresentSets, GameSets, WinType
  <2>4. AppSets' /\ (PresentSets' = PresentSets)
        BY <2>1, <2>2 DEF AppSets, PresentSets
  <2>5. ClipRight'
        BY <2>4 DEF ClipRight
  <2>6. ASSUME ~ late'
        PROVE ~ PresentSets /\ ~ GameSets
        BY <2>1, <2>6
  <2>7. ClipPending'
        BY <1>0, <1>3, <2>2, <2>4, <2>6 DEF ClipPending, GameSets
  <2> QED
      BY <1>0, <1>2, <2>1, <2>2, <2>3, <2>5, <2>7, Types, OthersIInv DEF Clips
<1>6. CASE request.at = "clipApp"
  <2>1. /\ UNCHANGED <<win, late>> /\ clip' = Confine(shown)
        /\ request'.at = "testOverlay"
        BY <1>6, Types DEF HideAppInputs, RequestType
  <2>2. clip' \in Regions
        BY <2>1, Types, DefaultAssumption DEF Confine, WinType
  <2>3. AppSets /\ ~ AppSets' /\ (PresentSets' = PresentSets)
        BY <1>6, <2>1 DEF AppSets, PresentSets
  <2>4. ASSUME ~ late
        PROVE ~ PresentSets /\ ~ GameSets /\ win.hideApp = shown
        BY <2>3, <2>4 DEF IInv, Clips, ClipPending
  <2>5. ClipRight'
        BY <1>0, <2>1, <2>3, <2>4 DEF ClipRight, Confine
  <2>6. ClipPending'
        BY <1>0, <1>3, <2>1, <2>3, <2>4 DEF ClipPending, GameSets
  <2> QED
      BY <1>0, <1>2, <2>1, <2>2, <2>5, <2>6, Types, OthersIInv DEF Clips
<1> QED
    BY <1>4, <1>5, <1>6 DEF HideAppInputs

LEMMA HideOverlayIInv ==
  ASSUME IInv, Forget, Watch, HideOverlayInputs PROVE IInv'
<1>1. UNCHANGED <<down, clip, queue, call, raws, hook, shown, calls, late>>
      BY DEF HideOverlayInputs
<1>2. PICK b \in BOOLEAN : b = ~ shown
      OBVIOUS
<1>3. win' = win \/ win' = [win EXCEPT !.hideOverlay = b]
      BY <1>2 DEF HideOverlayInputs
<1>4. /\ win' \in WinType /\ win'.pushed = win.pushed /\ win'.saved = win.saved
      /\ win'.hideApp = win.hideApp /\ win'.savedClip = win.savedClip
      /\ win'.resetting = win.resetting
      BY <1>3, Types DEF WinType
<1>5. /\ \/ request' = [request EXCEPT !.at = "storeOverlay"]
         \/ request' = NoRequest
      /\ request.at \in {"testOverlay", "storeOverlay"}
      BY DEF HideOverlayInputs
<1>6. request' \in RequestType /\ ~ AppSets /\ ~ AppSets'
      BY <1>5, Types DEF NoRequest, RequestType, AppSets
<1>7. Clips'
      BY <1>1, <1>4, <1>6, ClipsKept DEF PresentSets
<1> QED
    BY <1>1, <1>4, <1>6, <1>7, Types, OthersIInv

LEMMA HookIInv ==
  ASSUME IInv, Forget, Watch,
         \/ BecomesReady \/ Reset \/ Removing
         \/ \E hWnd \in {"window", "nullptr"} : PrepareForOverlay(hWnd)
  PROVE IInv'
<1> USE DEF BecomesReady, Reset, Removing, PrepareForOverlay, members
<1>1. /\ UNCHANGED <<down, queue, call, raws, clip, late, shown, request, calls>>
      /\ hook' \in {"ready", "reset", "leaving", "removing"}
      BY Types
<1>2. win' = win \/ \E b \in BOOLEAN : win' = [win EXCEPT !.initialized = b]
      OBVIOUS
<1> HIDE DEF BecomesReady, Reset, Removing, PrepareForOverlay
<1>3. /\ win' \in WinType /\ win'.pushed = win.pushed /\ win'.saved = win.saved
      /\ win'.hideApp = win.hideApp /\ win'.savedClip = win.savedClip
      /\ win'.resetting = win.resetting
      BY <1>2, Types DEF WinType
<1>4. Clips'
      BY <1>1, <1>3, ClipsKept DEF PresentSets, AppSets
<1> QED
    BY <1>1, <1>3, <1>4, Types, OthersIInv

LEMMA ResetIInv ==
  ASSUME IInv, Forget, Watch, StartReset \/ EndReset PROVE IInv'
<1>1. /\ UNCHANGED <<down, queue, call, raws, shown, request, calls>>
      /\ hook' \in {"ready", "reset", "leaving", "removing"}
      BY Types DEF StartReset, EndReset
<1>2. GameSets' = GameSets /\ AppSets' = AppSets
      BY <1>1 DEF GameSets, AppSets
<1>3. CASE StartReset
  <2>1. /\ win' = [win EXCEPT !.initialized = FALSE, !.resetting = TRUE,
                              !.hideApp = FALSE]
        /\ late' = (AppSets \/ GameSets) /\ clip' = clip
        BY <1>3 DEF StartReset
  <2>2. /\ win' \in WinType /\ win'.pushed = win.pushed
        /\ win'.saved = win.saved /\ win'.resetting /\ ~ win'.hideApp
        BY <2>1, Types DEF WinType
  <2>3. late' \in BOOLEAN /\ PresentSets'
        BY <2>1, <2>2 DEF AppSets, GameSets, PresentSets
  <2>4. ASSUME ~ late'
        PROVE ~ AppSets' /\ ~ GameSets'
        BY <1>2, <2>1, <2>4
  <2>5. ClipPending'
        BY <2>2, <2>4 DEF ClipPending, GameSets
  <2>6. ClipRight'
        BY <2>3 DEF ClipRight
  <2> QED
      BY <1>1, <2>1, <2>2, <2>3, <2>5, <2>6, Types, OthersIInv DEF Clips
<1>4. CASE EndReset
  <2>1. /\ win' = [win EXCEPT !.resetting = FALSE, !.hideOverlay = TRUE]
        /\ clip' = win.savedClip /\ late' = late /\ win.resetting
        BY <1>4 DEF EndReset, ResetClip
  <2>2. /\ win' \in WinType /\ win'.pushed = win.pushed
        /\ win'.saved = win.saved /\ ~ win'.resetting
        /\ win'.hideApp = win.hideApp /\ win'.savedClip = win.savedClip
        BY <2>1, Types DEF WinType
  <2>3. clip' \in Regions /\ PresentSets /\ ~ PresentSets'
        BY <2>1, <2>2, Types DEF WinType, PresentSets
  <2>4. ASSUME ~ late
        PROVE ~ AppSets /\ ~ GameSets /\ ~ win.hideApp
        BY <2>3, <2>4 DEF IInv, Clips, ClipPending
  <2>5. ClipPending'
        BY <1>2, <2>1, <2>3, <2>4 DEF ClipPending, GameSets
  <2>6. ClipRight'
        BY <2>1, <2>2, <2>4 DEF ClipRight, Confine
  <2> QED
      BY <1>1, <2>1, <2>2, <2>3, <2>5, <2>6, Types, OthersIInv DEF Clips
<1> QED
    BY <1>3, <1>4

-----------------------------------------------------------------------------
(* The message thread                                                      *)

\* Steps of the message thread that are not in a callback, and change no member.
LEMMA ReadIInv ==
  ASSUME IInv, Forget, Watch,
         UNCHANGED <<down, clip, win, hook, shown, request, calls, late>>,
         queue' \in Seq(Kinds), raws' \in 0 .. RawSize, call' \in CallType,
         ~ GameSets, ~ GameSets', Calling = Calling',
         Changing' => Changing,
         Decided' /\ ~ call'.app => ~ Hidden \/ (Decided /\ ~ call.app)
  PROVE IInv'
<1>1. OncePerHold' /\ Fired'
      BY DEF IInv, OncePerHold, Fired
<1>2. AskedSaved' /\ asked' \subseteq Positions
      BY Forgotten
<1>3. Owned' /\ own' \in BOOLEAN
  <2>1. Hidden' = Hidden
        BY DEF Hidden
  <2> QED
      BY <2>1, Watched
<1>4. Clips'
      BY ClipsKept DEF PresentSets, AppSets
<1>5. TypeOK'
      BY <1>2, <1>3, Types, TypeOfRest
<1> QED
    BY <1>1, <1>2, <1>3, <1>4, <1>5 DEF IInv

\* What the steps of the message thread leave alone.
Readers == \/ Fetch \/ Look \/ AppHidden \/ OverlayHidden \/ TreatOverlay
           \/ Deliver \/ Return \/ ReadInput \/ GiveInput

LEMMA ReadersLeave ==
  ASSUME Readers
  PROVE UNCHANGED <<down, clip, win, hook, shown, request, calls, late>>
  BY DEF Readers, Fetch, Look, AppHidden, OverlayHidden, TreatOverlay, Deliver,
         Return, ReadInput, GiveInput, overlay, members

LEMMA FetchIInv == ASSUME IInv, Forget, Watch, Fetch \/ Look PROVE IInv'
<1>1. /\ UNCHANGED <<down, clip, raws, win, hook, shown, request, calls, late>>
      /\ queue # <<>> /\ queue' \in {queue, Tail(queue)} /\ call.at = "idle"
      BY DEF Fetch, Look, overlay
<1>2. queue' \in Seq(Kinds) /\ Head(queue) \in Kinds
      BY <1>1, Types, HeadTailProperties, EmptySeq
<1>3. PICK a \in {"app", "return"} :
         /\ call' = [Idle EXCEPT !.at = a, !.msg = Head(queue)]
         /\ a = "return" => ~ win.initialized
      BY DEF Fetch, Look, Called
<1>4. call' \in CallType /\ call'.at = a
      BY <1>2, <1>3, DefaultAssumption DEF Idle, CallType
<1> QED
    BY <1>1, <1>2, <1>3, <1>4, Types, ReadIInv
    DEF GameSets, Calling, Changing, Decided, Hidden

LEMMA AppHiddenIInv == ASSUME IInv, Forget, Watch, AppHidden PROVE IInv'
<1>1. /\ call.at = "app"
      /\ call' = [call EXCEPT !.at = "overlay", !.app = win.hideApp]
      /\ UNCHANGED <<queue, raws>>
      BY DEF AppHidden
<1>2. call' \in CallType /\ call'.at = "overlay" /\ call'.app = win.hideApp
      BY <1>1, Types DEF CallType, WinType
<1> QED
    BY <1>1, <1>2, Types, ReadersLeave, ReadIInv
    DEF Readers, GameSets, Calling, Changing, Decided, Hidden

LEMMA OverlayHiddenIInv ==
  ASSUME IInv, Forget, Watch, OverlayHidden PROVE IInv'
<1>1. call.at = "overlay" /\ UNCHANGED <<queue, raws>>
      BY DEF OverlayHidden
<1>2. CASE win.initialized
  <2>1. PICK a \in {"keys", "deliver"} :
           call' = [call EXCEPT !.at = a, !.overlay = win.hideOverlay]
        BY <1>2 DEF OverlayHidden
  <2>2. call' \in CallType /\ call'.at = a /\ call'.app = call.app
        BY <2>1, Types DEF CallType, WinType
  <2> QED
      BY <1>1, <2>2, Types, ReadersLeave, ReadIInv
      DEF Readers, GameSets, Calling, Changing, Decided
<1>3. CASE ~ win.initialized
  <2>1. call' = [call EXCEPT !.at = "return", !.app = FALSE]
        BY <1>3 DEF OverlayHidden
  <2>2. call' \in CallType /\ call'.at = "return"
        BY <2>1, Types DEF CallType
  <2> QED
      BY <1>1, <1>3, <2>2, Types, ReadersLeave, ReadIInv
      DEF Readers, GameSets, Calling, Changing, Decided, Hidden
<1> QED
    BY <1>2, <1>3

LEMMA TreatOverlayIInv ==
  ASSUME IInv, Forget, Watch, TreatOverlay PROVE IInv'
<1>1. PICK b \in BOOLEAN : b = (call.overlay \/ win.hideOverlay)
      OBVIOUS
<1>2. /\ call.at = "callback" /\ UNCHANGED <<queue, raws>>
      /\ call' = [call EXCEPT !.at = "treat", !.overlay = b]
      BY <1>1 DEF TreatOverlay, members
<1>3. call' \in CallType /\ call'.at = "treat" /\ call'.app = call.app
      BY <1>2, Types DEF CallType
<1> QED
    BY <1>2, <1>3, Types, ReadersLeave, ReadIInv
    DEF Readers, GameSets, Calling, Changing, Decided

LEMMA ReturnIInv ==
  ASSUME IInv, Forget, Watch, Deliver \/ Return PROVE IInv'
<1>1. /\ call.at \in {"deliver", "return"} /\ call' = Returned
      /\ queue' = queue /\ raws' \in {0, raws}
      BY DEF Deliver, Return
<1>2. call' \in CallType /\ call'.at \in {"input", "idle"}
      BY <1>1, DefaultAssumption DEF Returned, Idle, CallType, Kinds
<1>3. raws' \in 0 .. RawSize
      BY <1>1, Types, SizesAssumption
<1> QED
    BY <1>1, <1>2, <1>3, Types, ReadersLeave, ReadIInv
    DEF Readers, GameSets, Calling, Changing, Decided

LEMMA InputIInv ==
  ASSUME IInv, Forget, Watch, ReadInput \/ GiveInput PROVE IInv'
<1>1. queue' = queue
      BY DEF ReadInput, GiveInput
<1>2. CASE ReadInput
  <2>1. PICK a \in {"give", "return"} :
           /\ call' = [call EXCEPT !.at = a] /\ call.at = "input"
           /\ a = "return" => ~ win.initialized
        BY <1>2 DEF ReadInput
  <2>2. call' \in CallType /\ call'.at = a
        BY <2>1, Types DEF CallType
  <2>3. raws' \in 0 .. RawSize
    <3>1. raws' = raws \/ (raws < RawSize /\ raws' = raws + 1)
          BY <1>2 DEF ReadInput, AppendEvent
    <3> QED
        BY <3>1, Types, SizesAssumption
  <2> QED
      BY <1>1, <1>2, <2>1, <2>2, <2>3, Types, ReadersLeave, ReadIInv
      DEF Readers, GameSets, Calling, Changing, Decided, Hidden
<1>3. CASE GiveInput
  <2>1. /\ call' = [call EXCEPT !.at = "return", !.app = win.hideApp]
        /\ call.at = "give" /\ raws' = raws
        BY <1>3 DEF GiveInput, Whose
  <2>2. call' \in CallType /\ call'.at = "return" /\ call'.app = win.hideApp
        BY <2>1, Types DEF CallType, WinType
  <2> QED
      BY <1>1, <1>3, <2>1, <2>2, Types, ReadersLeave, ReadIInv
      DEF Readers, GameSets, Calling, Changing, Decided, Hidden
<1> QED
    BY <1>2, <1>3

LEMMA KeysIInv == ASSUME IInv, Forget, Watch, CheckKeys PROVE IInv'
<1>1. /\ UNCHANGED <<down, clip, queue, raws, hook, shown, request, late>>
      /\ call.at = "keys"
      BY DEF CheckKeys
<1>2. PICK held \in BOOLEAN : held = (Keys \subseteq down)
      OBVIOUS
<1>3. PICK a \in {"call", "deliver"} :
         /\ call' = [call EXCEPT !.at = a]
         /\ a = (IF held /\ ~ win.pushed THEN "call" ELSE "deliver")
      BY <1>2 DEF CheckKeys
<1>4. call' \in CallType /\ call'.at = a /\ call'.app = call.app
      BY <1>3, Types DEF CallType
<1>5. /\ calls' = (IF a = "call" THEN calls + 1 ELSE calls)
      /\ win' = (IF a = "call" THEN win ELSE [win EXCEPT !.pushed = held])
      BY <1>2, <1>3 DEF CheckKeys, Remember
<1>6. /\ win' \in WinType /\ win'.saved = win.saved
      /\ win'.hideApp = win.hideApp /\ win'.savedClip = win.savedClip
      /\ win'.resetting = win.resetting /\ win'.initialized = win.initialized
      /\ win'.pushed = (IF a = "call" THEN win.pushed ELSE held)
      BY <1>5, Types DEF WinType
<1>7. calls' \in Nat
      BY <1>5, Types
<1>8. calls > 0 => held /\ win.pushed
      BY <1>1, <1>2 DEF IInv, Fired, Calling
<1>9. OncePerHold' /\ Fired'
  <2>1. CASE a = "call"
    <3>1. calls = 0 /\ calls' = 1
          BY <1>3, <1>5, <1>8, <2>1, Types
    <3>2. Keys \subseteq down
          BY <1>2, <1>3, <2>1
    <3> QED
        BY <1>1, <1>4, <2>1, <3>1, <3>2 DEF OncePerHold, Fired, Calling
  <2>2. CASE a # "call"
    <3>1. calls' = calls
          BY <1>5, <2>2
    <3> QED
        BY <1>1, <1>2, <1>6, <1>8, <2>2, <3>1 DEF IInv, OncePerHold, Fired
  <2> QED
      BY <2>1, <2>2
<1>10. AskedSaved' /\ asked' \subseteq Positions
       BY <1>4, <1>6, Forgotten DEF Changing
<1>11. Owned' /\ own' \in BOOLEAN
       BY <1>1, <1>4, Watched DEF Decided
<1>12. Clips'
       BY <1>1, <1>4, <1>6, ClipsKept DEF PresentSets, AppSets, GameSets
<1>13. TypeOK'
       BY <1>1, <1>4, <1>6, <1>7, <1>10, <1>11, Types, TypeOfRest
<1> QED
    BY <1>9, <1>10, <1>11, <1>12, <1>13 DEF IInv

LEMMA CallbackIInv == ASSUME IInv, Forget, Watch, Callback PROVE IInv'
<1>1. /\ UNCHANGED <<down, queue, raws, clip, win, late, hook, calls>>
      /\ call.at = "call" /\ call' = [call EXCEPT !.at = "callback"]
      /\ request = NoRequest /\ shown' = ~ shown
      /\ request' = [by |-> "callback", at |-> "testApp"]
      BY DEF Callback, Asks, members
<1>2. call' \in CallType /\ call'.at = "callback" /\ call'.app = call.app
      BY <1>1, Types DEF CallType
<1>3. request' \in RequestType /\ ~ AppSets /\ ~ AppSets' /\ shown' \in BOOLEAN
      BY <1>1 DEF NoRequest, RequestType, AppSets
<1>4. OncePerHold' /\ Fired'
      BY <1>1, <1>2 DEF IInv, OncePerHold, Fired, Calling
<1>5. AskedSaved' /\ asked' \subseteq Positions
      BY <1>1, Forgotten DEF Frozen
<1>6. Owned' /\ own' \in BOOLEAN
      BY <1>1, <1>2, Watched DEF Decided
<1>7. Clips'
      BY <1>1, <1>2, <1>3, ClipsKept DEF PresentSets, GameSets
<1>8. TypeOK'
      BY <1>1, <1>2, <1>3, <1>5, <1>6, Types, TypeOfRest
<1> QED
    BY <1>4, <1>5, <1>6, <1>7, <1>8 DEF IInv

LEMMA TreatAppIInv == ASSUME IInv, Forget, Watch, TreatApp PROVE IInv'
<1>1. /\ UNCHANGED <<down, clip, queue, raws, win, hook, shown, request, calls>>
      /\ call.at = "treat"
      /\ late' = (AppSets \/ PresentSets \/ (late /\ win.hideApp))
      BY DEF TreatApp, overlay
<1>2. PICK b \in BOOLEAN : b = (call.app \/ win.hideApp)
      OBVIOUS
<1>3. PICK a \in {"save", "restore"} :
         /\ call' = [call EXCEPT !.at = a, !.app = b]
         /\ a = (IF win.hideApp THEN "save" ELSE "restore")
      BY <1>2 DEF TreatApp
<1>4. call' \in CallType /\ call'.at = a /\ call'.app = b
      BY <1>3, Types DEF CallType
<1>5. OncePerHold' /\ Fired'
      BY <1>1, <1>4 DEF IInv, OncePerHold, Fired, Calling
<1>6. AskedSaved' /\ asked' \subseteq Positions
      BY <1>1, Forgotten DEF Changing
<1>7. Owned' /\ own' \in BOOLEAN
      BY <1>1, <1>2, <1>4, Watched DEF Decided
<1>8. late' \in BOOLEAN
      BY <1>1, Types DEF AppSets, PresentSets, WinType
<1>9. Clips'
  <2>1. GameSets' /\ ~ GameSets /\ (AppSets' = AppSets) /\ (PresentSets' = PresentSets)
        BY <1>1, <1>4 DEF GameSets, AppSets, PresentSets
  <2>2. ClipRight'
        BY <2>1 DEF ClipRight
  <2>3. ASSUME ~ late'
        PROVE ~ AppSets /\ ~ PresentSets /\ (win.hideApp => clip = Default)
    <3>1. ~ AppSets /\ ~ PresentSets /\ (win.hideApp => ~ late)
          BY <1>1, <2>3
    <3> QED
        BY <2>1, <3>1 DEF IInv, Clips, ClipRight, Confine
  <2>4. ClipPending'
        BY <1>1, <1>3, <1>4, <2>1, <2>3 DEF ClipPending
  <2> QED
      BY <2>2, <2>4 DEF Clips
<1>10. TypeOK'
       BY <1>1, <1>4, <1>6, <1>7, <1>8, Types, TypeOfRest
<1> QED
    BY <1>5, <1>6, <1>7, <1>9, <1>10 DEF IInv

\* The end of the treatment: one of the two is set, the combination remembered.
LEMMA SetIInv == ASSUME IInv, Forget, Watch, Save \/ Restore PROVE IInv'
<1>1. /\ UNCHANGED <<down, queue, raws, hook, shown, request, calls, late>>
      /\ call.at \in {"save", "restore"} /\ call' = [call EXCEPT !.at = "deliver"]
      BY DEF Save, Restore
<1>2. call' \in CallType /\ call'.at = "deliver" /\ call'.app = call.app
      BY <1>1, Types DEF CallType
<1>3. /\ win' \in WinType /\ win'.pushed /\ win'.hideApp = win.hideApp
      /\ win'.resetting = win.resetting /\ win'.initialized = win.initialized
      /\ call.at = "restore" => /\ win'.saved = win.saved
                                /\ win'.savedClip = win.savedClip
      /\ call.at = "save" => win'.savedClip = clip
  <2>1. ASSUME NEW p \in Positions, call.at = "save",
               win' = [[win EXCEPT !.pushed = TRUE]
                         EXCEPT !.saved = p, !.savedClip = clip]
        PROVE /\ win' \in WinType /\ win'.pushed /\ win'.hideApp = win.hideApp
              /\ win'.resetting = win.resetting
              /\ win'.initialized = win.initialized /\ win'.savedClip = clip
        BY <2>1, Types DEF WinType
  <2>2. CASE Restore
        BY <2>2, Types DEF Restore, Remember, WinType
  <2> QED
      BY <2>1, <2>2 DEF Save, Remember
<1>4. clip' \in Regions
      BY Types DEF Save, Restore, Confine, WinType
<1>5. OncePerHold' /\ Fired'
      BY <1>1, <1>3 DEF IInv, OncePerHold, Fired
<1>6. AskedSaved' /\ asked' \subseteq Positions
  <2>1. CASE call.at = "restore"
        BY <1>2, <1>3, <2>1, Forgotten DEF Changing
  <2>2. CASE call.at = "save"
    <3>1. asked' = {}
          BY <2>2 DEF Forget, IInv, AskedSaved, Changing
    <3> QED
        BY <3>1 DEF AskedSaved
  <2> QED
      BY <1>1, <2>1, <2>2
<1>7. Owned' /\ own' \in BOOLEAN
      BY <1>1, <1>2, Watched DEF Decided
<1>8. Clips'
  <2>1. GameSets /\ ~ GameSets' /\ (AppSets' = AppSets) /\ (PresentSets' = PresentSets)
        BY <1>1, <1>2, <1>3 DEF GameSets, AppSets, PresentSets
  <2>2. ASSUME ~ late
        PROVE ~ AppSets /\ ~ PresentSets
        BY <2>1, <2>2 DEF IInv, Clips, ClipPending
  <2>3. ASSUME ~ late
        PROVE clip' = Confine(win.hideApp)'
    <3>1. CASE Save
      <4>1. call.at = "save" /\ clip' = clip
            BY <3>1 DEF Save
      <4>2. win.hideApp /\ clip = Default
            BY <2>3, <4>1 DEF IInv, Clips, ClipPending
      <4> QED
          BY <1>3, <4>1, <4>2 DEF Confine
    <3>2. CASE Restore
      <4>1. call.at = "restore" /\ clip' = win.savedClip
            BY <3>2 DEF Restore, Confine
      <4>2. ~ win.hideApp
            BY <2>3, <4>1 DEF IInv, Clips, ClipPending
      <4> QED
          BY <1>3, <4>1, <4>2 DEF Confine
    <3> QED
        BY <3>1, <3>2
  <2>4. ClipRight'
        BY <1>1, <2>3 DEF ClipRight
  <2>5. ClipPending'
        BY <1>1, <1>2, <2>1, <2>2 DEF ClipPending
  <2> QED
      BY <2>4, <2>5 DEF Clips
<1>9. TypeOK'
      BY <1>1, <1>2, <1>3, <1>4, <1>6, <1>7, Types, TypeOfRest
<1> QED
    BY <1>5, <1>6, <1>7, <1>8, <1>9 DEF IInv

LEMMA ClipCursorIInv ==
  ASSUME IInv, Forget, Watch, NEW r \in Regions, ClipCursor(r) PROVE IInv'
<1>1. /\ UNCHANGED <<down, clip, queue, raws, hook, shown, request, calls>>
      /\ call.at = "idle" /\ win' = [win EXCEPT !.savedClip = r]
      /\ late' = (AppSets \/ PresentSets \/ (win.hideApp /\ ~ win.initialized))
      BY DEF ClipCursor
<1>2. PICK s \in Regions : /\ call' = [Idle EXCEPT !.at = "clip", !.region = s]
                           /\ s = IF Hidden THEN Default ELSE r
      BY DefaultAssumption DEF ClipCursor
<1>3. call' \in CallType /\ call'.at = "clip" /\ call'.region = s
      BY <1>2, DefaultAssumption DEF Idle, CallType, Kinds
<1>4. /\ win' \in WinType /\ win'.savedClip = r /\ win'.saved = win.saved
      /\ win'.hideApp = win.hideApp /\ win'.pushed = win.pushed
      /\ win'.resetting = win.resetting /\ win'.initialized = win.initialized
      BY <1>1, Types DEF WinType
<1>5. late' \in BOOLEAN
      BY <1>1, Types DEF AppSets, PresentSets, WinType
<1>6. OncePerHold' /\ Fired'
      BY <1>1, <1>4 DEF IInv, OncePerHold, Fired, Calling
<1>7. AskedSaved' /\ asked' \subseteq Positions
      BY <1>3, <1>4, Forgotten DEF Changing
<1>8. Owned' /\ own' \in BOOLEAN
      BY <1>3, Watched DEF Decided
<1>9. Clips'
  <2>1. GameSets' /\ (AppSets' = AppSets) /\ (PresentSets' = PresentSets)
        BY <1>1, <1>3, <1>4 DEF GameSets, AppSets, PresentSets
  <2>2. ClipRight'
        BY <2>1 DEF ClipRight
  <2>3. ASSUME ~ late'
        PROVE ~ AppSets /\ ~ PresentSets /\ s = Confine(win.hideApp)'
    <3>1. ~ AppSets /\ ~ PresentSets /\ (win.hideApp => win.initialized)
          BY <1>1, <2>3
    <3> QED
        BY <1>2, <1>4, <3>1 DEF Hidden, Confine
  <2>4. ClipPending'
        BY <1>3, <2>1, <2>3 DEF ClipPending
  <2> QED
      BY <2>2, <2>4 DEF Clips
<1>10. TypeOK'
       BY <1>1, <1>3, <1>4, <1>5, <1>7, <1>8, Types, TypeOfRest
<1> QED
    BY <1>6, <1>7, <1>8, <1>9, <1>10 DEF IInv

LEMMA ClipSetIInv == ASSUME IInv, Forget, Watch, ClipSet PROVE IInv'
<1>1. /\ UNCHANGED <<down, queue, raws, win, hook, shown, request, calls, late>>
      /\ call.at = "clip" /\ clip' = call.region /\ call' = Idle
      BY DEF ClipSet, overlay
<1>2. call' \in CallType /\ call'.at = "idle" /\ clip' \in Regions
      BY <1>1, Types, DefaultAssumption DEF Idle, CallType, Kinds
<1>3. OncePerHold' /\ Fired'
      BY <1>1 DEF IInv, OncePerHold, Fired, Calling
<1>4. AskedSaved' /\ asked' \subseteq Positions
      BY <1>1, <1>2, Forgotten DEF Changing
<1>5. Owned' /\ own' \in BOOLEAN
      BY <1>2, Watched DEF Decided
<1>6. Clips'
  <2>1. GameSets /\ ~ GameSets' /\ (AppSets' = AppSets) /\ (PresentSets' = PresentSets)
        BY <1>1, <1>2 DEF GameSets, AppSets, PresentSets
  <2>2. ASSUME ~ late
        PROVE ~ AppSets /\ ~ PresentSets /\ clip' = Confine(win.hideApp)
        BY <1>1, <2>1, <2>2 DEF IInv, Clips, ClipPending
  <2>3. ClipRight'
        BY <1>1, <2>2 DEF ClipRight, Confine
  <2>4. ClipPending'
        BY <1>1, <1>2, <2>1, <2>2 DEF ClipPending
  <2> QED
      BY <2>3, <2>4 DEF Clips
<1>7. TypeOK'
      BY <1>1, <1>2, <1>4, <1>5, Types, TypeOfRest
<1> QED
    BY <1>3, <1>4, <1>5, <1>6, <1>7 DEF IInv

\* The game is told what is saved, as before.
LEMMA CursorIInv == ASSUME IInv, Watch, GetCursorPos PROVE IInv'
<1>1. /\ UNCHANGED <<down, clip, queue, call, raws, win, hook, shown, request,
                     calls, late>>
      /\ call.at = "idle" /\ Frozen /\ asked' = asked \cup {win.saved}
      BY DEF GetCursorPos, overlay
<1>2. OncePerHold' /\ Fired'
      BY <1>1 DEF IInv, OncePerHold, Fired, Calling
<1>3. AskedSaved' /\ asked' \subseteq Positions
  <2>1. Frozen' /\ win'.saved \in Positions
        BY <1>1, Types DEF Frozen, Hidden, WinType
  <2>2. \A p \in asked' : p = win'.saved
        BY <1>1 DEF IInv, AskedSaved
  <2>3. ~ Changing'
        BY <1>1 DEF Changing
  <2> QED
      BY <1>1, <2>1, <2>2, <2>3 DEF AskedSaved
<1>4. Owned' /\ own' \in BOOLEAN
      BY <1>1, Watched DEF Decided
<1>5. Clips'
      BY <1>1, ClipsKept DEF PresentSets, AppSets
<1>6. TypeOK'
      BY <1>1, <1>3, <1>4, Types, TypeOfRest
<1> QED
    BY <1>2, <1>3, <1>4, <1>5, <1>6 DEF IInv

LEMMA Invariance == Spec => []IInv
<1>1. IInv /\ [Next]_vars => IInv'
  <2>1. ASSUME IInv, UNCHANGED vars PROVE IInv'
    <3>1. OncePerHold' /\ Fired' /\ AskedSaved' /\ Owned'
          BY <2>1 DEF vars, IInv, OncePerHold, Fired, Calling, AskedSaved,
                      Changing, Frozen, Hidden, Owned, Decided
    <3>2. Clips'
          BY <2>1, ClipsKept DEF vars, PresentSets, AppSets
    <3>3. TypeOK'
          BY <2>1, Types, TypeOfRest DEF vars
    <3> QED
        BY <3>1, <3>2, <3>3 DEF IInv
  <2>2. ASSUME IInv, Forget, Watch, Overlay PROVE IInv'
        BY <2>2, ShowIInv, HideAppIInv, HideOverlayIInv, HookIInv, ResetIInv
        DEF Overlay
  <2>3. ASSUME IInv, Forget, Watch, Game PROVE IInv'
        BY <2>3, FetchIInv, AppHiddenIInv, OverlayHiddenIInv, KeysIInv,
           CallbackIInv, TreatOverlayIInv, TreatAppIInv, SetIInv, ReturnIInv,
           InputIInv, ClipCursorIInv, ClipSetIInv
        DEF Game
  <2> QED
      BY <2>1, <2>2, <2>3, UserIInv, CursorIInv DEF Next
<1> QED
    BY <1>1, InitIInv, PTL DEF Spec

\* Messages, the call and the members keep their types.
THEOREM TypeCorrect == Spec => []TypeOK
  BY Invariance, PTL DEF IInv

\* Unless the calls that set the region overlapped, the cursor is free while the
\* game's inputs are hidden, and confined to the region saved otherwise.
THEOREM ClipInvariant == Spec => []ClipRight
  BY Invariance, PTL DEF IInv, Clips

\* One call of the callback for each time the combination is held.
THEOREM CalledOnce == Spec => []OncePerHold
  BY Invariance, PTL DEF IInv

\* No key, movement or raw input is given to the game by a call during which
\* its inputs were hidden all the time.
THEOREM NothingLeaks == Spec => []NoLeak
<1>1. IInv => NoLeak
      BY DEF IInv, Owned, Decided, NoLeak, Passes
<1> QED
    BY <1>1, Invariance, PTL

\* While the overlay is shown and the game's inputs are hidden, its message
\* thread is told of one position.
THEOREM CursorStands == Spec => []CursorFrozen
<1>1. IInv => CursorFrozen
      BY DEF IInv, AskedSaved, CursorFrozen
<1> QED
    BY <1>1, Invariance, PTL
=============================================================================
