--------------------------- MODULE ImageResources ---------------------------
(***************************************************************************)
(* Image resources (src/RendererResourceInternal.cpp) and the textures,    *)
(* load queue and release list of the renderer hook they belong to         *)
(* (src/Linux/OpenGLXHook.cpp, src/Linux/VulkanHook.cpp).                  *)
(*                                                                         *)
(* Everything happens on the thread that presents.  While OverlayProc runs *)
(* the application attaches images, asks for texture handles and draws     *)
(* with them, unloads.  When it returns, the hook uploads a batch of       *)
(* textures, destroys what was released, and renders the frame.            *)
(*                                                                         *)
(* A texture is alive while _ImageResources or _ImageResourcesToRelease    *)
(* holds its shared_ptr; everybody else has a weak_ptr, which may dangle.  *)
(* The width and height of an image are represented by the image itself.   *)
(***************************************************************************)
EXTENDS Integers, Sequences

CONSTANTS Resources,   \* RendererResource_t objects of the application
          Images,      \* image buffers it attaches
          Textures,    \* bound: textures that can exist at once
          None,        \* null pointer, empty weak_ptr, size 0 x 0
          Renderer,    \* the kind of hook
          Frames,      \* _OverlayFrames.size(): Vulkan's frames in flight
          BatchSize    \* _BatchSize

ASSUME RendererAssumption == Renderer \in {"OpenGL", "Vulkan"}
ASSUME FramesAssumption == Frames \in Nat \ {0} /\ BatchSize \in Nat \ {0}
ASSUME NoneAssumption == None \notin Images \cup Textures

VARIABLES res,        \* members of each resource
          owned,      \* _ImageResources
          releasing,  \* _ImageResourcesToRelease: _CurrentFrame - ReleaseFrame
          toLoad,     \* _ImageResourcesToLoad
          status,     \* LoadStatus of each texture
          picture,    \* data and size last uploaded into each texture
          inUse       \* frames that end before the GPU is done with a
                      \* texture whose handle was given out

vars == <<res, owned, releasing, toLoad, status, picture, inUse>>

Empty == [tex |-> None, size |-> None]

Init == /\ res = [r \in Resources |->
                    [data |-> None, cur |-> Empty, old |-> Empty]]
        /\ owned = {}
        /\ releasing = <<>>
        /\ toLoad = <<>>
        /\ status = [t \in Textures |-> "notLoaded"]
        /\ picture = [t \in Textures |-> [image |-> None, size |-> None]]
        /\ inUse = [t \in Textures |-> 0]

\* A weak_ptr to t can be locked.
Alive(t) == t \in owned \cup DOMAIN releasing

\* No pointer to t is left, so that t can stand for a new texture.
Unreferenced(t) ==
    /\ ~ Alive(t)
    /\ inUse[t] = 0
    /\ \A r \in Resources : t \notin {res[r].cur.tex, res[r].old.tex}
    /\ \A i \in DOMAIN toLoad : toLoad[i].tex # t

-----------------------------------------------------------------------------
(* The application, during OverlayProc                                     *)

\* Mutant: a released texture stays in _ImageResources.
ReleaseKeep(ts) ==
    releasing' = [t \in DOMAIN releasing \cup (ts \cap owned) |->
                    IF t \in owned THEN 0 ELSE releasing[t]]
    /\ UNCHANGED owned

\* ReleaseImageResource, for each texture of ts that the hook still owns.
ReleaseImageResource(ts) ==
    /\ owned' = owned \ ts
    /\ releasing' = [t \in DOMAIN releasing \cup (ts \cap owned) |->
                       IF t \in owned THEN 0 ELSE releasing[t]]

\* Mutant: the weak_ptr to the current texture is not reset.
AttachKeep(r, i) ==
    /\ res' = [res EXCEPT ![r].old = IF Alive(res[r].cur.tex) THEN res[r].cur
                                                              ELSE @,
                          ![r].cur.size = i,
                          ![r].data = i]
    /\ UNCHANGED <<owned, releasing, toLoad, status, picture, inUse>>

AttachResource(r, i) ==
    /\ res' = [res EXCEPT ![r].old = IF Alive(res[r].cur.tex) THEN res[r].cur
                                                              ELSE @,
                          ![r].cur = [tex |-> None, size |-> i],
                          ![r].data = i]
    /\ UNCHANGED <<owned, releasing, toLoad, status, picture, inUse>>

ClearAttachedResource(r) ==
    /\ res[r].data # None
    /\ res' = [res EXCEPT ![r].data = None]
    /\ UNCHANGED <<owned, releasing, toLoad, status, picture, inUse>>

\* Unload(clear).  Delete is Unload(true): what remains is a new resource.
Unload(r, clear) ==
    /\ ReleaseImageResource({res[r].old.tex, res[r].cur.tex})
    /\ res' = [res EXCEPT ![r] = [data |-> IF clear THEN None ELSE @.data,
                                  cur |-> Empty, old |-> Empty]]
    /\ UNCHANGED <<toLoad, status, picture, inUse>>

\* The texture GetResourceId answers with is drawn in this frame.
Draw(t) ==
    inUse' = [u \in Textures |->
                IF u # t THEN inUse[u]
                ELSE IF Renderer = "Vulkan" THEN Frames ELSE 1]

OldOrNone(r) == IF Alive(res[r].old.tex) THEN res[r].old.tex ELSE None

\* GetResourceId, image attached, texture loaded: the old one is released.
GetLoaded(r) ==
    LET c == res[r].cur.tex
        o == res[r].old.tex
    IN  /\ res[r].data # None /\ Alive(c) /\ status[c] = "loaded"
        /\ Draw(c)
        /\ IF Alive(o)
           THEN /\ ReleaseImageResource({o})
                /\ res' = [res EXCEPT ![r].old = Empty]
           ELSE UNCHANGED <<owned, releasing, res>>
        /\ UNCHANGED <<toLoad, status, picture>>

\* GetResourceId, image attached, no texture: one is allocated and queued.
GetAllocated(r) ==
    /\ res[r].data # None /\ ~ Alive(res[r].cur.tex)
    /\ \E t \in Textures :
          /\ Unreferenced(t)
          /\ owned' = owned \cup {t}
          /\ res' = [res EXCEPT ![r].cur.tex = t]
          /\ status' = [status EXCEPT ![t] = "loading"]
          /\ picture' = [picture EXCEPT ![t] = [image |-> None, size |-> None]]
          /\ toLoad' = Append(toLoad, [tex |-> t, image |-> res[r].data,
                                       size |-> res[r].cur.size])
    /\ Draw(OldOrNone(r))
    /\ UNCHANGED releasing

\* GetResourceId otherwise: nothing attached, still loading, or no texture could
\* be allocated (for OpenGL also when the game has left an error behind).
GetOld(r) ==
    LET c == res[r].cur.tex
    IN  /\ \/ res[r].data = None
           \/ Alive(c) /\ status[c] # "loaded"
           \/ ~ Alive(c)
        /\ Draw(OldOrNone(r))
        /\ res' = IF res[r].data # None /\ ~ Alive(c)
                  THEN [res EXCEPT ![r].cur.tex = None] ELSE res
        /\ UNCHANGED <<owned, releasing, toLoad, status, picture>>

-----------------------------------------------------------------------------
(* The rest of the frame                                                   *)

\* The first entries of the queue and those whose texture is alive.
BatchLength == IF Len(toLoad) > BatchSize THEN BatchSize ELSE Len(toLoad)
Batch == 1 .. BatchLength
Valid == {i \in Batch : Alive(toLoad[i].tex)}

Uploads == {toLoad[i] : i \in Valid}

\* Mutant: the whole queue is dropped with the batch.
EraseAll == toLoad' = <<>>

\* The batch is erased; the Vulkan hook returns before that when it holds no
\* texture that is alive.
EraseBatch ==
    toLoad' = IF Renderer = "Vulkan" /\ Valid = {} THEN toLoad
              ELSE SubSeq(toLoad, BatchLength + 1, Len(toLoad))

LoadResources ==
    /\ status' = [t \in Textures |-> IF \E u \in Uploads : u.tex = t
                                     THEN "loaded" ELSE status[t]]
    /\ picture' = [t \in Textures |->
                     IF \E u \in Uploads : u.tex = t
                     THEN LET u == CHOOSE x \in Uploads : x.tex = t
                          IN  [image |-> u.image, size |-> u.size]
                     ELSE picture[t]]
    /\ EraseBatch

\* Mutant: the number of frames in flight is left out.
ReleasableNext(t) == Renderer = "OpenGL" \/ releasing[t] > 0

\* OpenGL clears the list; Vulkan waits: ReleaseFrame + frames < CurrentFrame.
Releasable(t) == Renderer = "OpenGL" \/ releasing[t] > Frames

ReleaseResources ==
    releasing' = [t \in {u \in DOMAIN releasing : ~ Releasable(u)} |->
                    releasing[t] + 1]

\* OverlayProc returns.  The frame is rendered with the handles that were
\* given, and _CurrentFrame is incremented at the start of the next one.
EndFrame ==
    /\ LoadResources
    /\ ReleaseResources
    /\ inUse' = [t \in Textures |-> IF inUse[t] > 0 THEN inUse[t] - 1 ELSE 0]
    /\ UNCHANGED <<res, owned>>

\* The game destroys its Vulkan device, which is idle then: the hook drops its
\* textures, and is ready again with the next device.  The load queue and the
\* release list stay.
Removing ==
    /\ Renderer = "Vulkan"
    /\ owned' = {}
    /\ inUse' = [t \in Textures |-> 0]
    /\ UNCHANGED <<res, releasing, toLoad, status, picture>>

GetResourceId(r) == GetLoaded(r) \/ GetAllocated(r) \/ GetOld(r)

Application(r) == \/ \E i \in Images : AttachResource(r, i)
                  \/ ClearAttachedResource(r)
                  \/ \E clear \in BOOLEAN : Unload(r, clear)
                  \/ GetResourceId(r)

Next == (\E r \in Resources : Application(r)) \/ EndFrame \/ Removing

Spec == Init /\ [][Next]_vars

\* The game goes on presenting.
FairSpec == Spec /\ WF_vars(EndFrame)

-----------------------------------------------------------------------------
(* Properties                                                              *)

TypeOK ==
    /\ res \in [Resources -> [data : Images \cup {None},
                  cur : [tex : Textures \cup {None}, size : Images \cup {None}],
                  old : [tex : Textures \cup {None}, size : Images \cup {None}]]]
    /\ owned \subseteq Textures
    /\ DOMAIN releasing \subseteq Textures \ owned
    /\ \A t \in DOMAIN releasing : releasing[t] \in 0 .. Frames + 1
    /\ toLoad \in Seq([tex : Textures, image : Images,
                       size : Images \cup {None}])
    /\ status \in [Textures -> {"notLoaded", "loading", "loaded"}]
    /\ picture \in [Textures -> [image : Images \cup {None},
                                 size : Images \cup {None}]]
    /\ inUse \in [Textures -> 0 .. Frames]

\* Whatever waits to be loaded is in the queue, once, and nothing that has been
\* loaded is: no texture is forgotten in status Loading, and none is uploaded
\* twice.
LoadingQueued ==
    \A t \in owned :
        /\ status[t] = "loading" <=> \E i \in DOMAIN toLoad : toLoad[i].tex = t
        /\ \A i, j \in DOMAIN toLoad :
              toLoad[i].tex = t /\ toLoad[j].tex = t => i = j

\* No two weak_ptrs of the resources share a texture that is alive, so that
\* unloading one never takes the texture of another.
Exclusive ==
    \A r, s \in Resources : \A a, b \in {"cur", "old"} :
        /\ res[r][a].tex = res[s][b].tex
        /\ Alive(res[r][a].tex)
        => r = s /\ a = b

\* A loaded texture shows the image that is attached, however many attaches,
\* clears and unloads came between the request and the upload.
ShowsAttached ==
    \A r \in Resources :
        LET c == res[r].cur.tex
        IN  res[r].data # None /\ Alive(c) /\ status[c] = "loaded"
            => picture[c].image = res[r].data

\* A texture drawn in a frame is not destroyed before that frame is rendered
\* (OpenGL) or may still be on the GPU (Vulkan).
DrawnSurvives ==
    [][\A t \in Textures : inUse[t] > 0 => Alive(t)' \/ Removing]_vars

\* A requested load is done eventually, unless the texture is dropped.
LoadsComplete ==
    \A t \in Textures : (t \in owned /\ status[t] = "loading")
                        ~> (t \notin owned \/ status[t] = "loaded")

-----------------------------------------------------------------------------
(* The inductive invariants behind the properties above                    *)

\* A picture or a pending upload of a resource's texture is of its image.
Promised ==
    \A r \in Resources :
        LET c == res[r].cur.tex
        IN  res[r].data # None /\ Alive(c)
            => /\ status[c] = "loaded" => picture[c].image = res[r].data
               /\ \A i \in DOMAIN toLoad :
                     toLoad[i].tex = c => toLoad[i].image = res[r].data

\* A released texture is out of the application's reach.
ReleasedUnreachable ==
    \A r \in Resources : \A a \in {"cur", "old"} :
        res[r][a].tex \notin DOMAIN releasing

\* The GPU uses only textures that are alive, and a released one for less
\* time than it waits in the release list.
UseCovered ==
    \A t \in Textures :
        inUse[t] > 0 => /\ Alive(t)
                        /\ t \in DOMAIN releasing
                           => releasing[t] + inUse[t] <= Frames

-----------------------------------------------------------------------------
(* What the documentation says and the code does not do                    *)

\* No handle is given out for a texture that nothing was uploaded into.
HandleReady == \A t \in Textures : inUse[t] > 0 => status[t] = "loaded"

\* Every texture the hook keeps belongs to a resource that can unload it.
NoOrphan ==
    \A t \in owned : \E r \in Resources : t \in {res[r].cur.tex, res[r].old.tex}

\* An image is uploaded with its own size.
OwnSize == \A t \in owned : picture[t].size = picture[t].image
=============================================================================
