--------------------------- MODULE X11InputProofs ---------------------------
(***************************************************************************)
(* The safety of the Linux input hook for any combination of keys, any      *)
(* positions and events, and a queue of any length.                         *)
(***************************************************************************)
EXTENDS X11Input, SequenceTheorems, TLAPS

Event == [kind : Kinds, passed : BOOLEAN]
PollType == [at : {"idle", "hidden", "peek", "keys", "call", "callback", "save",
                   "deliver"},
             left : Nat, app : BOOLEAN, overlay : BOOLEAN]
X11Type == [initialized : BOOLEAN, window : BOOLEAN, pushed : BOOLEAN,
            hideApp : BOOLEAN, hideOverlay : BOOLEAN, saved : Positions]
RequestType == [by : {"nobody", "application", "callback"},
                at : {"done", "testApp", "storeApp", "testOverlay", "storeOverlay"}]

\* The hook is in the callback, or has not remembered it yet.
Calling == poll.at \in {"call", "callback", "save"}

\* A callback that was called is remembered as long as the keys are held.
Fired == calls > 0 => Keys \subseteq down /\ (x11.pushed \/ Calling)

\* The game was told what is saved, and nothing yet when that changes.
AskedSaved == /\ \A p \in asked : Frozen /\ p = x11.saved
              /\ poll.at \in {"callback", "save"} => asked = {}

IInv == TypeOK /\ NoLeak /\ OncePerHold /\ Fired /\ AskedSaved

\* A queue keeps its type and its events when one arrives, is let pass or is
\* taken.
LEMMA ArrivesType ==
  ASSUME queue \in Seq(Event), NEW kind \in Kinds, Arrives(kind)
  PROVE /\ queue' \in Seq(Event)
        /\ Len(queue') = Len(queue) + 1
        /\ \A i \in 1 .. Len(queue) : queue'[i] = queue[i]
<1>1. [kind |-> kind, passed |-> FALSE] \in Event
      BY DEF Event
<1> QED
    BY <1>1, AppendProperties DEF Arrives

LEMMA TailType ==
  ASSUME queue \in Seq(Event), Len(queue) > 0
  PROVE /\ Tail(queue) \in Seq(Event)
        /\ Len(Tail(queue)) = Len(queue) - 1
        /\ \A i \in 1 .. Len(queue) - 1 : Tail(queue)[i] = queue[i + 1]
<1>1. queue # <<>>
      BY EmptySeq
<1> QED
    BY <1>1, HeadTailProperties

LEMMA PassType ==
  ASSUME queue \in Seq(Event), Len(queue) > 0
  PROVE LET q == [queue EXCEPT ![1].passed = TRUE]
        IN  q \in Seq(Event) /\ Len(q) = Len(queue) /\ q[1].passed
<1> DEFINE e == [queue[1] EXCEPT !.passed = TRUE]
<1>1. 1 \in 1 .. Len(queue) /\ queue[1] \in Event
      BY ElementOfSeq
<1>2. e \in Event /\ e.passed
      BY <1>1 DEF Event
<1>3. [queue EXCEPT ![1].passed = TRUE] = [queue EXCEPT ![1] = e]
      OBVIOUS
<1> HIDE DEF e
<1> DEFINE q == [queue EXCEPT ![1] = e]
<1>4. q \in Seq(Event) /\ Len(q) = Len(queue)
      BY <1>1, <1>2, ExceptSeq
<1>5. q[1] = e
      BY <1>1, LenProperties
<1> QED
    BY <1>2, <1>3, <1>4, <1>5

LEMMA PassAllType ==
  ASSUME queue \in Seq(Event), NEW b \in BOOLEAN
  PROVE LET q == [i \in DOMAIN queue |-> [queue[i] EXCEPT !.passed = b]]
        IN  /\ q \in Seq(Event) /\ Len(q) = Len(queue)
            /\ \A i \in 1 .. Len(queue) : q[i].passed = b
<1>1. DOMAIN queue = 1 .. Len(queue) /\ Len(queue) \in Nat
      BY LenProperties
<1>2. \A i \in 1 .. Len(queue) :
         LET e == [queue[i] EXCEPT !.passed = b] IN e \in Event /\ e.passed = b
  <2>1. \A x \in Event :
           LET e == [x EXCEPT !.passed = b] IN e \in Event /\ e.passed = b
        BY DEF Event
  <2>2. \A i \in 1 .. Len(queue) : queue[i] \in Event
        BY ElementOfSeq
  <2> QED
      BY <2>1, <2>2
<1> DEFINE q == [i \in 1 .. Len(queue) |-> [queue[i] EXCEPT !.passed = b]]
<1>3. q \in Seq(Event)
      BY <1>1, <1>2, IsASeq
<1>4. Len(q) = Len(queue)
      BY <1>1, <1>3, LenProperties
<1> QED
    BY <1>1, <1>2, <1>3, <1>4

-----------------------------------------------------------------------------

LEMMA InitIInv == Init => IInv
<1> SUFFICES ASSUME Init PROVE IInv
    OBVIOUS
<1> USE DEF Init
<1>1. queue \in Seq(Event) /\ Len(queue) = 0
      BY EmptySeq
<1>2. PICK p \in Positions :
         x11 = [initialized |-> FALSE, window |-> FALSE, pushed |-> FALSE,
                hideApp |-> FALSE, hideOverlay |-> TRUE, saved |-> p]
      OBVIOUS
<1>3. x11 \in X11Type /\ ~ x11.initialized /\ ~ x11.window
      BY <1>2 DEF X11Type
<1>4. poll \in PollType /\ poll.at = "idle"
      BY DEF Idle, PollType
<1>5. request \in RequestType
      BY DEF NoRequest, RequestType
<1>6. /\ down \subseteq Keys /\ told = 0 /\ hook = "removing"
      /\ shown = FALSE /\ calls = 0 /\ asked = {}
      OBVIOUS
<1> HIDE DEF Init
<1>7. told \in 0 .. Len(queue) /\ calls \in Nat
      BY <1>1, <1>6
<1>8. poll.at # "idle" => poll.left \in 1 .. Len(queue) /\ told = 0
      BY <1>4
<1>9. TypeOK
      BY <1>1, <1>3, <1>4, <1>5, <1>6, <1>7, <1>8
      DEF TypeOK, Event, PollType, X11Type, RequestType
<1> QED
    BY <1>1, <1>4, <1>6, <1>9
    DEF IInv, NoLeak, OncePerHold, Fired, AskedSaved

\* The parts of the invariant on which the rest of the hook does not bear.
LEMMA QueueKept ==
  ASSUME IInv, UNCHANGED <<queue, told, poll>>
  PROVE /\ NoLeak'
        /\ queue' \in Seq([kind : Kinds, passed : BOOLEAN])
        /\ told' \in 0 .. Len(queue') /\ poll' \in PollType
        /\ poll'.at # "idle" => poll'.left \in 1 .. Len(queue') /\ told' = 0
  BY DEF IInv, TypeOK, NoLeak, PollType

\* What the game was told is forgotten when its inputs are its own.
LEMMA Forgotten ==
  ASSUME IInv, Forget, x11'.saved = x11.saved,
         poll'.at \in {"callback", "save"} =>
           poll.at \in {"callback", "save"} \/ ~ shown \/ ~ Frozen'
  PROVE AskedSaved' /\ asked' \subseteq Positions
<1>1. (asked' = asked /\ Frozen') \/ asked' = {}
      BY DEF Forget
<1>2. asked \subseteq Positions
      BY DEF IInv, TypeOK
<1>3. ~ shown => asked = {}
      BY DEF IInv, AskedSaved, Frozen
<1>4. ~ Frozen' => asked' = {}
      BY <1>1
<1>5. \A p \in asked' : Frozen' /\ p = x11'.saved
      BY <1>1 DEF IInv, AskedSaved
<1>6. poll'.at \in {"callback", "save"} => asked' = {}
      BY <1>1, <1>3, <1>4 DEF IInv, AskedSaved
<1> QED
    BY <1>1, <1>2, <1>5, <1>6 DEF AskedSaved

LEMMA UserIInv == ASSUME IInv, User PROVE IInv'
<1> USE DEF IInv, TypeOK, Event
<1>0. queue \in Seq(Event) /\ told \in Nat /\ told <= Len(queue) /\ Len(queue) \in Nat
      BY LenProperties
<1>1. /\ \E kind \in Kinds : Arrives(kind)
      /\ UNCHANGED <<told, poll, x11, hook, shown, request, asked>>
      BY OthersAssumption
      DEF User, Press, Release, Other, Kinds, Inputs, overlay
<1>2. /\ queue' \in Seq(Event) /\ Len(queue') = Len(queue) + 1
      /\ \A i \in 1 .. Len(queue) : queue'[i] = queue[i]
      BY <1>0, <1>1, ArrivesType
<1>3. /\ down' \subseteq Keys
      /\ calls' \in {0, calls} /\ (calls' > 0 => down \subseteq down')
      BY DEF User, Press, Release, Other
<1>4. TypeOK'
      BY <1>0, <1>1, <1>2, <1>3
<1>5. NoLeak'
  <2>1. \A i \in 1 .. told : i \in 1 .. Len(queue)
        BY <1>0
  <2>2. \A i \in 1 .. told : queue'[i].passed
        BY <1>2, <2>1 DEF NoLeak
  <2> QED
      BY <1>1, <2>2 DEF NoLeak
<1>6. OncePerHold' /\ Fired'
      BY <1>1, <1>3 DEF OncePerHold, Fired, Calling
<1>7. AskedSaved'
      BY <1>1 DEF AskedSaved, Frozen
<1> QED
    BY <1>4, <1>5, <1>6, <1>7

\* The steps of the application: the flags follow, and are forgotten with.
LEMMA ApplicationIInv ==
  ASSUME IInv, Requested \/ \E yes \in BOOLEAN : Show(yes) PROVE IInv'
<1>1. /\ UNCHANGED <<down, queue, told, poll, hook, calls>>
      /\ shown \in BOOLEAN /\ x11 \in X11Type /\ request \in RequestType
      BY DEF Requested, HideAppInputs, HideOverlayInputs, Show, IInv, TypeOK,
             X11Type, RequestType
<1>2. /\ x11' \in X11Type /\ request' \in RequestType /\ shown' \in BOOLEAN
      /\ x11'.initialized = x11.initialized /\ x11'.window = x11.window
      /\ x11'.pushed = x11.pushed /\ x11'.saved = x11.saved
  <2>1. ASSUME NEW yes \in BOOLEAN, Show(yes)
        PROVE /\ x11' = x11 /\ request' \in RequestType /\ shown' \in BOOLEAN
        BY <2>1 DEF Show, Asks, RequestType
  <2>2. CASE HideAppInputs
    <3>1. /\ x11' = x11 \/ x11' = [x11 EXCEPT !.hideApp = shown]
          /\ shown' = shown
          BY <2>2 DEF HideAppInputs
    <3>2. PICK a \in {"storeApp", "testOverlay"} : request' = [request EXCEPT !.at = a]
          BY <2>2 DEF HideAppInputs
    <3> QED
        BY <1>1, <3>1, <3>2 DEF X11Type, RequestType
  <2>3. CASE HideOverlayInputs
    <3>1. PICK b \in BOOLEAN : b = ~ shown
          BY <1>1
    <3>2. /\ x11' = x11 \/ x11' = [x11 EXCEPT !.hideOverlay = b]
          /\ shown' = shown
          BY <2>3, <3>1 DEF HideOverlayInputs
    <3>3. \/ request' = [request EXCEPT !.at = "storeOverlay"]
          \/ request' = NoRequest
          BY <2>3 DEF HideOverlayInputs
    <3>4. request' \in RequestType
          BY <1>1, <3>3 DEF NoRequest, RequestType
    <3> QED
        BY <1>1, <3>2, <3>4 DEF X11Type
  <2> QED
      BY <1>1, <2>1, <2>2, <2>3 DEF Requested
<1>3. AskedSaved' /\ asked' \subseteq Positions
  <2>1. CASE Forget
        BY <1>1, <1>2, <2>1, Forgotten DEF IInv, AskedSaved
  <2>2. CASE HideOverlayInputs
    <3>1. asked' = asked /\ shown' = shown /\ x11'.hideApp = x11.hideApp
          BY <1>1, <2>2 DEF HideOverlayInputs, X11Type
    <3> QED
        BY <1>1, <1>2, <3>1 DEF IInv, TypeOK, AskedSaved, Frozen
  <2> QED
      BY <2>1, <2>2 DEF Requested, HideAppInputs, Show
<1>4. TypeOK' /\ NoLeak'
      BY <1>1, <1>2, <1>3, QueueKept
      DEF IInv, TypeOK, X11Type, RequestType, PollType
<1>5. OncePerHold' /\ Fired'
      BY <1>1, <1>2 DEF IInv, OncePerHold, Fired, Calling
<1> QED
    BY <1>3, <1>4, <1>5 DEF IInv

\* The present thread's, which reset the flags and initialize the hook.
PresentSteps == \/ BecomesReady \/ Reset \/ Removing
                \/ StartReset \/ EndReset \/ PrepareForOverlay

LEMMA PresentIInv == ASSUME IInv, PresentSteps PROVE IInv'
<1> USE DEF PresentSteps, BecomesReady, Reset, Removing, StartReset, EndReset,
            PrepareForOverlay
<1>1. /\ UNCHANGED <<down, queue, told, poll, shown, request, calls>>
      /\ x11 \in X11Type
      BY DEF IInv, TypeOK, X11Type
<1>2. /\ x11' \in X11Type /\ x11'.pushed = x11.pushed /\ x11'.saved = x11.saved
      /\ x11'.window => x11'.initialized
  <2>1. CASE UNCHANGED x11
        BY <1>1, <2>1 DEF IInv, TypeOK
  <2>2. CASE StartReset
        BY <1>1, <2>2 DEF X11Type
  <2>3. CASE EndReset
        BY <1>1, <2>3 DEF X11Type, Resetting
  <2>4. CASE PrepareForOverlay
        BY <1>1, <2>4 DEF X11Type
  <2> QED
      BY <2>1, <2>2, <2>3, <2>4
<1>3. AskedSaved' /\ asked' \subseteq Positions
  <2>1. CASE Forget
        BY <1>1, <1>2, <2>1, Forgotten DEF IInv, AskedSaved
  <2>2. CASE UNCHANGED <<x11, asked>>
        BY <1>1, <2>2 DEF IInv, TypeOK, AskedSaved, Frozen
  <2> QED
      BY <2>1, <2>2
<1>4. hook' \in {"ready", "reset", "leaving", "removing"}
      BY DEF IInv, TypeOK
<1> HIDE DEF PresentSteps, BecomesReady, Reset, Removing, StartReset, EndReset,
            PrepareForOverlay
<1>5. TypeOK' /\ NoLeak'
      BY <1>1, <1>2, <1>3, <1>4, QueueKept
      DEF IInv, TypeOK, X11Type, PollType
<1>6. OncePerHold' /\ Fired'
      BY <1>1, <1>2 DEF IInv, OncePerHold, Fired, Calling
<1> QED
    BY <1>3, <1>5, <1>6 DEF IInv

\* The events the game is told of, or has taken one of.
LEMMA GameQueue ==
  ASSUME IInv, PollCall \/ Deliver \/ Take
  PROVE TypeOK' /\ NoLeak'
<1> USE DEF IInv, Event
<1>0. /\ queue \in Seq(Event) /\ Len(queue) \in Nat
      /\ told \in Nat /\ told <= Len(queue)
      BY LenProperties DEF TypeOK
<1>1. UNCHANGED <<down, x11, hook, shown, request, calls, asked>>
      BY DEF PollCall, Deliver, Take, overlay
<1>2. SUFFICES /\ queue' \in Seq(Event) /\ told' \in 0 .. Len(queue')
               /\ poll' \in PollType
               /\ poll'.at # "idle" => poll'.left \in 1 .. Len(queue')
                                       /\ told' = 0
               /\ \A i \in 1 .. told' : queue'[i].passed
      BY <1>1 DEF TypeOK, NoLeak, PollType
<1>3. ASSUME PollCall
      PROVE /\ queue' \in Seq(Event) /\ Len(queue') = Len(queue)
            /\ \A i \in 1 .. Len(queue) : queue'[i].passed = ~ x11.initialized
  <2>1. PICK b \in BOOLEAN : b = ~ x11.initialized
        OBVIOUS
  <2>2. queue' = [i \in DOMAIN queue |-> [queue[i] EXCEPT !.passed = b]]
        BY <1>3, <2>1 DEF PollCall
  <2> QED
      BY <1>0, <2>1, <2>2, PassAllType
<1>4. CASE PollCall
  <2>1. CASE x11.initialized
    <3>1. /\ poll' = [Idle EXCEPT !.at = "hidden", !.left = Len(queue)]
          /\ told' = 0 /\ queue # <<>>
          BY <1>4, <2>1 DEF PollCall
    <3>2. Len(queue) \in Nat \ {0}
          BY <1>0, <3>1, EmptySeq
    <3>3. poll' \in PollType /\ poll'.left = Len(queue)
          BY <1>0, <3>1 DEF Idle, PollType
    <3> QED
        BY <1>0, <1>3, <1>4, <3>1, <3>2, <3>3
  <2>2. CASE ~ x11.initialized
    <3>1. told' = Len(queue) /\ poll' = poll /\ poll.at = "idle"
          BY <1>4, <2>2 DEF PollCall
    <3> QED
      <4>1. \A i \in 1 .. told' : queue'[i].passed
            BY <1>3, <1>4, <2>2, <3>1
      <4>2. poll' \in PollType /\ poll'.at = "idle"
            BY <3>1 DEF TypeOK, PollType
      <4> QED
          BY <1>0, <1>3, <1>4, <3>1, <4>1, <4>2
  <2> QED
      BY <2>1, <2>2
<1>5. CASE Deliver /\ Passes
  <2>1. /\ queue' = [queue EXCEPT ![1].passed = TRUE]
        /\ told' = 1 /\ poll' = Idle /\ poll.at = "deliver"
        BY <1>5 DEF Deliver, AnswerOne
  <2>2. Len(queue) > 0
        BY <1>0, <2>1 DEF TypeOK
  <2>3. queue' \in Seq(Event) /\ Len(queue') = Len(queue) /\ queue'[1].passed
        BY <1>0, <2>1, <2>2, PassType
  <2> QED
      BY <1>0, <2>1, <2>2, <2>3 DEF Idle, PollType
<1>6. CASE Deliver /\ ~ Passes
  <2>1. /\ queue' = Tail(queue) /\ told' = told /\ poll.at = "deliver"
        /\ poll' = IF poll.left - 1 = 0 THEN Idle
                   ELSE [Idle EXCEPT !.at = "hidden", !.left = poll.left - 1]
        BY <1>6 DEF Deliver, LeftNext
  <2>2. poll.left \in 1 .. Len(queue) /\ told = 0
        BY <2>1 DEF TypeOK
  <2>3. queue' \in Seq(Event) /\ Len(queue') = Len(queue) - 1
        BY <1>0, <2>1, <2>2, TailType
  <2>4. CASE poll.left = 1
        BY <1>0, <2>1, <2>2, <2>3, <2>4 DEF Idle, PollType
  <2>5. CASE poll.left # 1
    <3>1. PICK l \in Nat : l = poll.left - 1
          BY <1>0, <2>2
    <3>2. poll' = [Idle EXCEPT !.at = "hidden", !.left = l]
          BY <1>0, <2>1, <2>2, <2>5, <3>1
    <3>3. poll'.left = l /\ l \in 1 .. Len(queue')
          BY <1>0, <2>2, <2>3, <2>5, <3>1, <3>2 DEF Idle
    <3>4. poll' \in PollType
          BY <3>1, <3>2 DEF Idle, PollType
    <3>5. told' \in 0 .. Len(queue') /\ told' = 0
          BY <1>0, <2>1, <2>2, <2>3
    <3> QED
        BY <2>3, <3>3, <3>4, <3>5
  <2> QED
      BY <2>4, <2>5
<1>7. CASE Take
  <2>1. /\ poll.at = "idle" /\ poll' = poll /\ told > 0
        /\ queue' = Tail(queue) /\ told' = told - 1
        BY <1>7 DEF Take
  <2>2. /\ queue' \in Seq(Event) /\ Len(queue') = Len(queue) - 1
        /\ \A i \in 1 .. Len(queue) - 1 : queue'[i] = queue[i + 1]
        BY <1>0, <2>1, TailType
  <2>3. \A i \in 1 .. told - 1 : queue'[i].passed
        BY <1>0, <2>1, <2>2 DEF NoLeak
  <2> QED
      BY <1>0, <2>1, <2>2, <2>3 DEF TypeOK, PollType
<1> QED
    BY <1>4, <1>5, <1>6, <1>7

LEMMA TypeOfRest ==
  ASSUME TypeOK, UNCHANGED <<down, queue, told, hook>>,
         poll' \in PollType, poll.at # "idle", poll'.left = poll.left,
         x11' \in X11Type, x11'.window => x11'.initialized,
         shown' \in BOOLEAN, request' \in RequestType, calls' \in Nat,
         asked' \subseteq Positions
  PROVE TypeOK'
  BY DEF TypeOK, PollType, X11Type, RequestType

\* The steps of _CheckForOverlay between the question and the answer.
LEMMA LookIInv ==
  ASSUME IInv, AppHidden \/ Peek PROVE IInv'
<1> USE DEF AppHidden, Peek, overlay
<1>1. /\ UNCHANGED <<down, queue, told, x11, hook, shown, request, calls, asked>>
      /\ poll.at \in {"hidden", "peek"}
      OBVIOUS
<1>2. /\ poll' \in PollType /\ poll'.left = poll.left
      /\ poll'.at \in {"peek", "keys", "deliver"}
  <2>1. CASE AppHidden
        BY <2>1 DEF IInv, TypeOK, PollType
  <2>2. CASE Peek
    <3>1. PICK a \in {"keys", "deliver"} :
             poll' = [poll EXCEPT !.at = a, !.overlay = x11.hideOverlay]
          BY <2>2
    <3> QED
        BY <3>1 DEF IInv, TypeOK, PollType
  <2> QED
      BY <2>1, <2>2
<1> HIDE DEF AppHidden, Peek
<1>3. TypeOK'
      BY <1>1, <1>2, TypeOfRest
      DEF IInv, TypeOK, X11Type, RequestType
<1>4. NoLeak' /\ OncePerHold' /\ Fired' /\ AskedSaved'
      BY <1>1, <1>2
      DEF IInv, NoLeak, OncePerHold, Fired, Calling, AskedSaved, Frozen
<1> QED
    BY <1>3, <1>4 DEF IInv

LEMMA RememberMembers ==
  ASSUME NEW x \in X11Type, NEW held \in BOOLEAN, NEW y \in Remember({x}, held)
  PROVE y = [x EXCEPT !.pushed = held]
  BY DEF Remember

LEMMA KeysIInv == ASSUME IInv, CheckKeys PROVE IInv'
<1>1. /\ UNCHANGED <<down, queue, told, hook, shown, request, asked>>
      /\ poll.at = "keys" /\ x11 \in X11Type /\ calls \in Nat
      BY DEF CheckKeys, IInv, TypeOK, X11Type
<1>2. PICK held \in BOOLEAN : held = (Keys \subseteq down)
      OBVIOUS
<1>3. CASE held /\ ~ x11.pushed
  <2>1. /\ poll' = [poll EXCEPT !.at = "call"]
        /\ calls' = calls + 1 /\ x11' = x11
        BY <1>2, <1>3 DEF CheckKeys
  <2>2. poll' \in PollType /\ poll'.left = poll.left /\ poll'.at = "call"
        BY <2>1 DEF IInv, TypeOK, PollType
  <2>3. calls = 0
        BY <1>1, <1>3 DEF IInv, Fired, Calling
  <2>4. TypeOK'
        BY <1>1, <2>1, <2>2, TypeOfRest
        DEF IInv, TypeOK, X11Type, RequestType
  <2>5. NoLeak' /\ AskedSaved'
        BY <1>1, <2>1, <2>2 DEF IInv, NoLeak, AskedSaved, Frozen
  <2>6. OncePerHold'
        BY <2>1, <2>3 DEF OncePerHold
  <2>7. Fired'
        BY <1>1, <1>2, <1>3, <2>2 DEF Fired, Calling
  <2> QED
      BY <2>4, <2>5, <2>6, <2>7 DEF IInv
<1>4. CASE ~ (held /\ ~ x11.pushed)
  <2>1. /\ poll' = [poll EXCEPT !.at = "deliver"] /\ calls' = calls
        /\ x11' \in Remember({x11}, held)
        BY <1>2, <1>4 DEF CheckKeys
  <2>2. poll' \in PollType /\ poll'.left = poll.left /\ poll'.at = "deliver"
        BY <2>1 DEF IInv, TypeOK, PollType
  <2>3. x11' = [x11 EXCEPT !.pushed = held]
        BY <1>1, <2>1, RememberMembers
  <2>4. /\ x11' \in X11Type /\ x11'.pushed = held
        /\ x11'.initialized = x11.initialized /\ x11'.window = x11.window
        /\ x11'.hideApp = x11.hideApp /\ x11'.saved = x11.saved
        BY <1>1, <2>3 DEF X11Type
  <2>5. TypeOK'
        BY <1>1, <2>1, <2>2, <2>4, TypeOfRest
        DEF IInv, TypeOK, RequestType
  <2>6. NoLeak' /\ AskedSaved'
        BY <1>1, <2>2, <2>4 DEF IInv, NoLeak, AskedSaved, Frozen
  <2>7. OncePerHold' /\ Fired'
        BY <1>1, <1>2, <1>4, <2>1, <2>4 DEF IInv, OncePerHold, Fired, Calling
  <2> QED
      BY <2>5, <2>6, <2>7 DEF IInv
<1> QED
    BY <1>3, <1>4

LEMMA CallbackIInv == ASSUME IInv, Callback PROVE IInv'
<1>1. /\ UNCHANGED <<down, queue, told, x11, hook, calls>> /\ Forget
      /\ poll.at = "call" /\ poll' = [poll EXCEPT !.at = "callback"]
      /\ request' = [by |-> "callback", at |-> "testApp"] /\ shown' = ~ shown
      BY DEF Callback, Asks
<1>2. poll' \in PollType /\ poll'.left = poll.left /\ poll'.at = "callback"
      BY <1>1 DEF IInv, TypeOK, PollType
<1>3. AskedSaved' /\ asked' \subseteq Positions
  <2>1. ~ shown \/ ~ Frozen'
        BY <1>1 DEF Frozen
  <2> QED
      BY <1>1, <2>1, Forgotten
<1>4. request' \in RequestType /\ shown' \in BOOLEAN
      BY <1>1 DEF RequestType, IInv, TypeOK
<1>5. TypeOK'
      BY <1>1, <1>2, <1>3, <1>4, TypeOfRest DEF IInv, TypeOK, X11Type
<1>6. NoLeak' /\ OncePerHold' /\ Fired'
      BY <1>1, <1>2 DEF IInv, NoLeak, OncePerHold, Fired, Calling
<1> QED
    BY <1>3, <1>5, <1>6 DEF IInv

LEMMA TreatIInv == ASSUME IInv, TreatOverlay \/ TreatApp PROVE IInv'
<1>1. CASE TreatOverlay
  <2>1. /\ UNCHANGED <<down, queue, told, x11, hook, shown, request, calls, asked>>
        /\ poll.at = "callback"
        /\ poll' = [poll EXCEPT !.at = "save",
                                !.overlay = poll.overlay \/ x11.hideOverlay]
        BY <1>1 DEF TreatOverlay, overlay
  <2>2. poll' \in PollType /\ poll'.left = poll.left /\ poll'.at = "save"
        BY <2>1 DEF IInv, TypeOK, PollType
  <2>3. TypeOK'
        BY <2>1, <2>2, TypeOfRest DEF IInv, TypeOK, X11Type, RequestType
  <2> QED
      BY <2>1, <2>2, <2>3
      DEF IInv, NoLeak, OncePerHold, Fired, Calling, AskedSaved, Frozen
<1>2. CASE TreatApp
  <2>1. /\ UNCHANGED <<down, queue, told, hook, shown, request, calls, asked>>
        /\ poll.at = "save" /\ x11 \in X11Type
        /\ x11' \in Remember(Save(x11), TRUE)
        /\ poll' = [poll EXCEPT !.at = "deliver",
                                !.app = poll.app \/ x11.hideApp]
        BY <1>2 DEF TreatApp, IInv, TypeOK, X11Type
  <2>2. poll' \in PollType /\ poll'.left = poll.left /\ poll'.at = "deliver"
        BY <2>1 DEF IInv, TypeOK, PollType
  <2>3. PICK p \in Positions : x11' = [[x11 EXCEPT !.saved = p] EXCEPT !.pushed = TRUE]
    <3>1. PICK x \in Save(x11) : x11' = [x EXCEPT !.pushed = TRUE]
          BY <2>1 DEF Remember
    <3>2. CASE x11.hideApp
      <4>1. PICK p \in Positions : x = [x11 EXCEPT !.saved = p]
            BY <3>1, <3>2 DEF Save
      <4> QED
          BY <3>1, <4>1
    <3>3. CASE ~ x11.hideApp
      <4>1. x = [x11 EXCEPT !.saved = x11.saved]
            BY <2>1, <3>1, <3>3 DEF Save, X11Type
      <4> QED
          BY <2>1, <3>1, <4>1 DEF X11Type
    <3> QED
        BY <3>2, <3>3
  <2>4. /\ x11' \in X11Type /\ x11'.pushed
        /\ x11'.initialized = x11.initialized /\ x11'.window = x11.window
        BY <2>1, <2>3 DEF X11Type
  <2>5. TypeOK'
        BY <2>1, <2>2, <2>4, TypeOfRest DEF IInv, TypeOK, RequestType
  <2>6. asked = {}
        BY <2>1 DEF IInv, AskedSaved
  <2> QED
      BY <2>1, <2>2, <2>4, <2>5, <2>6
      DEF IInv, NoLeak, OncePerHold, Fired, Calling, AskedSaved
<1> QED
    BY <1>1, <1>2

LEMMA GameIInv == ASSUME IInv, Game PROVE IInv'
<1>1. CASE PollCall \/ Deliver \/ Take
  <2>1. TypeOK' /\ NoLeak'
        BY <1>1, GameQueue
  <2>2. UNCHANGED <<down, x11, hook, shown, request, calls, asked>>
        BY <1>1 DEF PollCall, Deliver, Take, overlay
  <2>3. poll.at \in {"idle", "deliver"} /\ poll'.at \in {"idle", "hidden"}
    <3>1. CASE Take
          BY <3>1 DEF Take
    <3>2. CASE PollCall
      <4>1. poll' = poll \/ poll' = [Idle EXCEPT !.at = "hidden", !.left = Len(queue)]
            BY <3>2 DEF PollCall
      <4> QED
          BY <3>2, <4>1 DEF PollCall, Idle
    <3>3. CASE Deliver
      <4>1. /\ poll' = Idle \/ poll' = [Idle EXCEPT !.at = "hidden",
                                                   !.left = LeftNext]
            /\ poll.at = "deliver"
            BY <3>3 DEF Deliver
      <4>2. Idle.at = "idle"
            /\ [Idle EXCEPT !.at = "hidden", !.left = LeftNext].at = "hidden"
            BY DEF Idle
      <4> QED
          BY <4>1, <4>2
    <3> QED
        BY <1>1, <3>1, <3>2, <3>3
  <2>4. OncePerHold' /\ Fired' /\ AskedSaved'
        BY <2>2, <2>3
        DEF IInv, OncePerHold, Fired, Calling, AskedSaved, Frozen
  <2> QED
      BY <2>1, <2>4 DEF IInv
<1>2. CASE QueryPointer
  <2>1. /\ UNCHANGED <<down, queue, told, poll, x11, hook, shown, request, calls>>
        /\ asked' = asked \cup {x11.saved} /\ Frozen /\ poll.at = "idle"
        BY <1>2 DEF QueryPointer
  <2>2. x11.saved \in Positions
        BY DEF IInv, TypeOK
  <2>3. TypeOK'
        BY <2>1, <2>2 DEF IInv, TypeOK
  <2> QED
      BY <2>1, <2>3
      DEF IInv, NoLeak, OncePerHold, Fired, Calling, AskedSaved, Frozen
<1> QED
    BY <1>1, <1>2, LookIInv, KeysIInv, CallbackIInv, TreatIInv
    DEF Game, CheckForOverlay

LEMMA Invariance == Spec => []IInv
<1>1. IInv /\ [Next]_vars => IInv'
  <2>1. IInv /\ UNCHANGED vars => IInv'
        BY DEF vars, IInv, TypeOK, NoLeak, OncePerHold, Fired, Calling,
               AskedSaved, Frozen
  <2>2. Overlay => \/ Requested \/ \E yes \in BOOLEAN : Show(yes)
                   \/ PresentSteps
        BY DEF Overlay, PresentSteps
  <2> QED
      BY <2>1, <2>2, UserIInv, ApplicationIInv, PresentIInv, GameIInv DEF Next
<1> QED
    BY <1>1, InitIInv, PTL DEF Spec

\* The queue, the call and the members keep their types.
THEOREM TypeCorrect == Spec => []TypeOK
  BY Invariance, PTL DEF IInv

\* The events the game is told of are those that were looked at and let pass.
THEOREM NothingLeaks == Spec => []NoLeak
  BY Invariance, PTL DEF IInv

\* One call of the callback for each time the combination is held.
THEOREM CalledOnce == Spec => []OncePerHold
  BY Invariance, PTL DEF IInv

\* While the overlay is shown and the game's inputs hidden, its event thread is
\* told one position.
THEOREM PointerStands == Spec => []PointerFrozen
<1>1. IInv => PointerFrozen
      BY DEF IInv, AskedSaved, PointerFrozen
<1> QED
    BY <1>1, Invariance, PTL
=============================================================================
