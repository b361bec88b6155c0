------------------------ MODULE ImageResourcesProofs ------------------------
(***************************************************************************)
(* Proofs about ImageResources: types, exclusive textures, the content of  *)
(* loaded textures, the load queue, and the life of textures on the GPU.   *)
(***************************************************************************)
EXTENDS ImageResources, SequenceTheorems, TLAPS

\* An entry of the load queue.
Entry == [tex : Textures, image : Images, size : Images \cup {None}]

\* The members of a resource.
Member == [data : Images \cup {None},
           cur : [tex : Textures \cup {None}, size : Images \cup {None}],
           old : [tex : Textures \cup {None}, size : Images \cup {None}]]

-----------------------------------------------------------------------------
(* What the operations do to the state                                     *)

\* The null pointer is never alive.
LEMMA NoneDead == TypeOK => ~ Alive(None)
BY NoneAssumption DEF TypeOK, Alive

\* Releasing textures moves them between the hook's containers: nothing dies.
LEMMA ReleaseMoves ==
    ASSUME NEW ts, ReleaseImageResource(ts)
    PROVE  /\ owned' = owned \ ts
           /\ DOMAIN releasing' = DOMAIN releasing \cup (ts \cap owned)
           /\ \A t : Alive(t)' <=> Alive(t)
           /\ \A t \in DOMAIN releasing' :
                releasing'[t] = IF t \in owned THEN 0 ELSE releasing[t]
BY DEF ReleaseImageResource, Alive

\* Releasing textures keeps the types of the containers.
LEMMA ReleaseType ==
    ASSUME TypeOK, NEW ts, ReleaseImageResource(ts)
    PROVE  /\ owned' \subseteq Textures
           /\ DOMAIN releasing' \subseteq Textures \ owned'
           /\ \A t \in DOMAIN releasing' : releasing'[t] \in 0 .. Frames + 1
<1>1. /\ owned' = owned \ ts
      /\ DOMAIN releasing' = DOMAIN releasing \cup (ts \cap owned)
  BY ReleaseMoves
<1>2. owned' \subseteq Textures /\ DOMAIN releasing' \subseteq Textures \ owned'
  BY <1>1 DEF TypeOK
<1>3. ASSUME NEW t \in DOMAIN releasing'
      PROVE  releasing'[t] \in 0 .. Frames + 1
  <2>1. releasing'[t] = IF t \in owned THEN 0 ELSE releasing[t]
    BY ReleaseMoves
  <2>2. t \notin owned => t \in DOMAIN releasing
    BY <1>1
  <2> QED BY <2>1, <2>2, FramesAssumption DEF TypeOK
<1> QED BY <1>2, <1>3

\* The batch is a prefix of the queue.
LEMMA BatchType ==
    ASSUME TypeOK
    PROVE  /\ BatchLength \in 0 .. Len(toLoad)
           /\ Batch \subseteq DOMAIN toLoad
           /\ Valid \subseteq Batch
<1>1. toLoad \in Seq(Entry)
  BY DEF TypeOK, Entry
<1>2. Len(toLoad) \in Nat /\ DOMAIN toLoad = 1 .. Len(toLoad)
  BY <1>1
<1>3. BatchLength \in 0 .. Len(toLoad)
  BY <1>2, FramesAssumption DEF BatchLength
<1> QED BY <1>2, <1>3 DEF Batch, Valid

\* What is left in the queue has been there before: the batch is gone from it,
\* or nothing of it was alive.
LEMMA EraseShifts ==
    ASSUME TypeOK, EraseBatch
    PROVE  /\ toLoad' \in Seq(Entry)
           /\ \/ toLoad' = toLoad /\ Valid = {}
              \/ /\ DOMAIN toLoad' = 1 .. Len(toLoad) - BatchLength
                 /\ \A i \in DOMAIN toLoad' :
                      /\ i + BatchLength \in DOMAIN toLoad
                      /\ toLoad'[i] = toLoad[i + BatchLength]
<1>1. toLoad \in Seq(Entry) /\ Len(toLoad) \in Nat
      /\ DOMAIN toLoad = 1 .. Len(toLoad)
  BY DEF TypeOK, Entry
<1>2. BatchLength \in 0 .. Len(toLoad)
  BY BatchType
<1>3. CASE Renderer = "Vulkan" /\ Valid = {}
  BY <1>1, <1>3 DEF EraseBatch
<1>4. CASE ~ (Renderer = "Vulkan" /\ Valid = {})
  <2>1. toLoad' = SubSeq(toLoad, BatchLength + 1, Len(toLoad))
    BY <1>4 DEF EraseBatch
  <2> DEFINE first == BatchLength + 1
             rest == SubSeq(toLoad, first, Len(toLoad))
  <2>2. /\ first \in Int /\ Len(toLoad) \in Int
        /\ \A i \in first .. Len(toLoad) : toLoad[i] \in Entry
    BY <1>1, <1>2
  <2>3. /\ rest \in Seq(Entry)
        /\ Len(rest) = IF first <= Len(toLoad) THEN Len(toLoad) - first + 1 ELSE 0
        /\ \A i \in 1 .. Len(toLoad) - first + 1 : rest[i] = toLoad[first + i - 1]
    BY <2>2, SubSeqProperties
  <2>4. toLoad' = rest
    BY <2>1
  <2> HIDE DEF rest
  <2>5. Len(toLoad') = Len(toLoad) - BatchLength
    <3>1. Len(toLoad') = IF first <= Len(toLoad) THEN Len(toLoad) - first + 1 ELSE 0
      BY <2>3, <2>4
    <3>2. ASSUME NEW n \in Nat, NEW b \in 0 .. n
          PROVE  (IF b + 1 <= n THEN n - (b + 1) + 1 ELSE 0) = n - b
      OBVIOUS
    <3>3. Len(toLoad) \in Nat
      BY <1>1
    <3> QED BY <1>2, <3>1, <3>2, <3>3, Zenon
  <2>6. DOMAIN toLoad' = 1 .. Len(toLoad) - BatchLength
    BY <2>3, <2>4, <2>5
  <2>7. ASSUME NEW i \in 1 .. Len(toLoad) - BatchLength
        PROVE  /\ i + BatchLength \in DOMAIN toLoad
               /\ toLoad'[i] = toLoad[i + BatchLength]
    <3>1. Len(toLoad) \in Int /\ BatchLength \in Nat
      BY <1>1, <1>2
    <3>2. /\ first + i - 1 = i + BatchLength
          /\ i \in 1 .. Len(toLoad) - first + 1
          /\ i + BatchLength \in 1 .. Len(toLoad)
      BY <3>1
    <3>3. toLoad'[i] = toLoad[first + i - 1]
      BY <2>3, <2>4, <3>2, Zenon
    <3>4. toLoad'[i] = toLoad[i + BatchLength]
      BY <3>2, <3>3, Zenon
    <3>5. i + BatchLength \in DOMAIN toLoad
      BY <1>1, <3>2, Zenon
    <3> QED BY <3>4, <3>5
  <2> QED BY <2>3, <2>4, <2>6, <2>7
<1> QED BY <1>3, <1>4

\* The entries uploaded are entries of the queue whose textures are alive.
LEMMA UploadsQueued ==
    ASSUME TypeOK
    PROVE  \A u \in Uploads : u \in Entry /\ Alive(u.tex)
                              /\ \E i \in Valid : u = toLoad[i]
<1>0. toLoad \in Seq(Entry)
  BY DEF TypeOK, Entry
<1>1. \A i \in DOMAIN toLoad : toLoad[i] \in Entry
  BY <1>0
<1>2. \A i \in Valid : i \in DOMAIN toLoad /\ Alive(toLoad[i].tex)
  BY BatchType DEF Valid
<1> SUFFICES ASSUME NEW u \in Uploads
             PROVE  u \in Entry /\ Alive(u.tex) /\ \E i \in Valid : u = toLoad[i]
  OBVIOUS
<1>3. PICK i \in Valid : u = toLoad[i]
  BY DEF Uploads
<1> QED BY <1>1, <1>2, <1>3

-----------------------------------------------------------------------------
(* Type correctness                                                        *)

\* The end of a frame keeps the types.
LEMMA EndFrameType ==
    ASSUME TypeOK, EndFrame
    PROVE  TypeOK'
<1> USE FramesAssumption, RendererAssumption
<1>1. res' \in [Resources -> Member] /\ owned' \subseteq Textures
  BY DEF TypeOK, EndFrame, Member
<1>2. /\ DOMAIN releasing' \subseteq DOMAIN releasing
      /\ \A t \in DOMAIN releasing' : releasing'[t] \in 0 .. Frames + 1
  BY DEF TypeOK, EndFrame, ReleaseResources, Releasable
<1>3. toLoad' \in Seq(Entry)
  BY EraseShifts DEF EndFrame, LoadResources
<1>4. status' \in [Textures -> {"notLoaded", "loading", "loaded"}]
  BY DEF TypeOK, EndFrame, LoadResources
<1>5. picture' \in [Textures -> [image : Images \cup {None},
                                 size : Images \cup {None}]]
  BY UploadsQueued DEF TypeOK, EndFrame, LoadResources, Entry
<1>6. inUse' \in [Textures -> 0 .. Frames]
  BY DEF TypeOK, EndFrame
<1> QED BY <1>1, <1>2, <1>3, <1>4, <1>5, <1>6
        DEF TypeOK, EndFrame, Member, Entry

\* Giving out a handle keeps the counter of its uses in range.
LEMMA DrawType ==
    ASSUME TypeOK, NEW t, Draw(t)
    PROVE  inUse' \in [Textures -> 0 .. Frames]
BY FramesAssumption DEF TypeOK, Draw

\* The members of a resource have their types.
LEMMA MemberType ==
    ASSUME TypeOK, NEW r \in Resources
    PROVE  /\ res[r] \in Member
           /\ res[r].data # None => res[r].data \in Images
           /\ OldOrNone(r) \in Textures \cup {None}
BY DEF TypeOK, Member, OldOrNone

\* Every operation of the application keeps the types.
LEMMA ApplicationType ==
    ASSUME TypeOK, NEW r \in Resources, Application(r)
    PROVE  TypeOK'
<1>0. /\ res \in [Resources -> Member] /\ res[r] \in Member
      /\ Empty \in [tex : Textures \cup {None}, size : Images \cup {None}]
  BY DEF TypeOK, Member, Empty
<1>1. ASSUME NEW i \in Images, AttachResource(r, i) PROVE TypeOK'
  <2>1. res' \in [Resources -> Member]
    BY <1>0, <1>1 DEF AttachResource, Member
  <2> QED BY <1>1, <2>1 DEF AttachResource, TypeOK, Member
<1>2. CASE ClearAttachedResource(r)
  <2>1. res' \in [Resources -> Member]
    BY <1>0, <1>2 DEF ClearAttachedResource, Member
  <2> QED BY <1>2, <2>1 DEF ClearAttachedResource, TypeOK, Member
<1>3. ASSUME NEW clear \in BOOLEAN, Unload(r, clear) PROVE TypeOK'
  <2>1. res' \in [Resources -> Member]
    BY <1>0, <1>3 DEF Unload, Member
  <2>2. /\ owned' \subseteq Textures
        /\ DOMAIN releasing' \subseteq Textures \ owned'
        /\ \A t \in DOMAIN releasing' : releasing'[t] \in 0 .. Frames + 1
    BY <1>3, ReleaseType DEF Unload
  <2> QED BY <1>3, <2>1, <2>2 DEF Unload, TypeOK, Member
<1>4. CASE GetLoaded(r)
  <2>1. /\ res' \in [Resources -> Member]
        /\ owned' \subseteq Textures
        /\ DOMAIN releasing' \subseteq Textures \ owned'
        /\ \A t \in DOMAIN releasing' : releasing'[t] \in 0 .. Frames + 1
    <3>1. CASE Alive(res[r].old.tex)
      <4>1. res' \in [Resources -> Member]
        BY <1>0, <1>4, <3>1 DEF GetLoaded, Member
      <4> QED BY <1>4, <3>1, <4>1, ReleaseType DEF GetLoaded
    <3>2. CASE ~ Alive(res[r].old.tex)
      BY <1>0, <1>4, <3>2 DEF GetLoaded, TypeOK
    <3> QED BY <3>1, <3>2
  <2>2. inUse' \in [Textures -> 0 .. Frames]
    BY <1>4, DrawType DEF GetLoaded
  <2> QED BY <1>4, <2>1, <2>2 DEF GetLoaded, TypeOK, Member
<1>5. CASE GetAllocated(r)
  <2>1. inUse' \in [Textures -> 0 .. Frames]
    BY <1>5, DrawType DEF GetAllocated
  <2>2. PICK t \in Textures :
          /\ Unreferenced(t)
          /\ owned' = owned \cup {t}
          /\ res' = [res EXCEPT ![r].cur.tex = t]
          /\ status' = [status EXCEPT ![t] = "loading"]
          /\ picture' = [picture EXCEPT ![t] = [image |-> None, size |-> None]]
          /\ toLoad' = Append(toLoad, [tex |-> t, image |-> res[r].data,
                                       size |-> res[r].cur.size])
    BY <1>5 DEF GetAllocated
  <2>3. res' \in [Resources -> Member]
    BY <1>0, <2>2 DEF Member
  <2>4. toLoad' \in Seq(Entry)
    <3>1. [tex |-> t, image |-> res[r].data, size |-> res[r].cur.size] \in Entry
      BY <1>0, <1>5 DEF GetAllocated, Entry, Member
    <3> QED BY <2>2, <3>1 DEF TypeOK, Entry
  <2>5. releasing' = releasing
    BY <1>5 DEF GetAllocated
  <2>6. /\ owned' \subseteq Textures
        /\ DOMAIN releasing' \subseteq Textures \ owned'
        /\ \A u \in DOMAIN releasing' : releasing'[u] \in 0 .. Frames + 1
    BY <2>2, <2>5 DEF Unreferenced, Alive, TypeOK
  <2> QED BY <2>1, <2>2, <2>3, <2>4, <2>6 DEF TypeOK, Member, Entry
<1>6. CASE GetOld(r)
  <2>1. inUse' \in [Textures -> 0 .. Frames]
    BY <1>6, DrawType DEF GetOld
  <2>2. res' \in [Resources -> Member]
    BY <1>0, <1>6 DEF GetOld, Member
  <2> QED BY <1>6, <2>1, <2>2 DEF GetOld, TypeOK, Member
<1> QED BY <1>1, <1>2, <1>3, <1>4, <1>5, <1>6 DEF Application, GetResourceId

\* The loss of the device keeps the types.
LEMMA RemovingType ==
    ASSUME TypeOK, Removing
    PROVE  TypeOK'
BY FramesAssumption DEF TypeOK, Removing

\* A hook without resources has the types of its members.
LEMMA TypeInit == Init => TypeOK
BY FramesAssumption DEF Init, TypeOK, Empty

\* Every step keeps the types.
LEMMA TypeStep == TypeOK /\ [Next]_vars => TypeOK'
<1> SUFFICES ASSUME TypeOK, [Next]_vars PROVE TypeOK'
  OBVIOUS
<1>1. CASE UNCHANGED vars
  BY <1>1 DEF vars, TypeOK
<1> QED BY <1>1, ApplicationType, EndFrameType, RemovingType DEF Next

\* Every variable keeps its type: in particular a texture is never owned and
\* released at once, and waits at most one frame longer than the frames in
\* flight.
THEOREM TypeCorrect == Spec => []TypeOK
<1> QED BY TypeInit, TypeStep, PTL DEF Spec

-----------------------------------------------------------------------------
(* What a step of the application leaves alone                             *)

\* Unless it allocates a texture, an operation of the application keeps the
\* queue, the textures and their life, and changes the current texture or the
\* image of no resource but by dropping one of them or the texture.
LEMMA QuietEffect ==
    ASSUME TypeOK, NEW r \in Resources, Application(r), ~ GetAllocated(r)
    PROVE  /\ owned' \subseteq owned
           /\ \A t : Alive(t)' <=> Alive(t)
           /\ UNCHANGED <<toLoad, status, picture>>
           /\ \A s \in Resources :
                res'[s].data # None /\ Alive(res'[s].cur.tex)
                => res'[s].cur.tex = res[s].cur.tex /\ res'[s].data = res[s].data
<1>0. /\ res \in [Resources -> Member] /\ ~ Alive(None)
      /\ Empty.tex = None
  BY NoneDead DEF TypeOK, Member, Empty
<1>1. ASSUME NEW i \in Images, AttachResource(r, i)
      PROVE  /\ UNCHANGED <<owned, releasing, toLoad, status, picture>>
             /\ \A s \in Resources : s # r => res'[s] = res[s]
             /\ res'[r].cur.tex = None
  BY <1>0, <1>1 DEF AttachResource, Member
<1>2. CASE ClearAttachedResource(r)
  <2>1. /\ UNCHANGED <<owned, releasing, toLoad, status, picture>>
        /\ \A s \in Resources : s # r => res'[s] = res[s]
        /\ res'[r].data = None
    BY <1>0, <1>2 DEF ClearAttachedResource, Member
  <2> QED BY <2>1 DEF Alive
<1>3. ASSUME NEW clear \in BOOLEAN, Unload(r, clear)
      PROVE  /\ owned' \subseteq owned
             /\ \A t : Alive(t)' <=> Alive(t)
             /\ UNCHANGED <<toLoad, status, picture>>
             /\ \A s \in Resources : s # r => res'[s] = res[s]
             /\ res'[r].cur.tex = None
  <2>1. /\ \A s \in Resources : s # r => res'[s] = res[s]
        /\ res'[r].cur.tex = None
    BY <1>0, <1>3 DEF Unload, Member
  <2> QED BY <1>3, <2>1, ReleaseMoves DEF Unload
<1>4. CASE GetLoaded(r)
  <2>1. CASE Alive(res[r].old.tex)
    <3>1. /\ ReleaseImageResource({res[r].old.tex})
          /\ UNCHANGED <<toLoad, status, picture>>
          /\ res' = [res EXCEPT ![r].old = Empty]
      BY <1>4, <2>1 DEF GetLoaded
    <3>2. \A s \in Resources : res'[s].cur = res[s].cur /\ res'[s].data = res[s].data
      BY <1>0, <3>1 DEF Member
    <3>3. owned' \subseteq owned /\ \A t : Alive(t)' <=> Alive(t)
      BY <3>1, ReleaseMoves
    <3> QED BY <3>1, <3>2, <3>3
  <2>2. CASE ~ Alive(res[r].old.tex)
    BY <1>4, <2>2 DEF GetLoaded, Alive
  <2> QED BY <2>1, <2>2
<1>5. CASE GetOld(r)
  <2>1. UNCHANGED <<owned, releasing, toLoad, status, picture>>
    BY <1>5 DEF GetOld
  <2>2. \A s \in Resources : /\ res'[s].data = res[s].data
                             /\ res'[s].cur.tex \in {res[s].cur.tex, None}
    BY <1>0, <1>5 DEF GetOld, Member
  <2> QED BY <1>0, <2>1, <2>2 DEF Alive
<1>6. ASSUME NEW i \in Images, AttachResource(r, i) PROVE ~ Alive(res'[r].cur.tex)
  BY <1>0, <1>1, <1>6
<1>7. ASSUME NEW i \in Images, AttachResource(r, i) PROVE \A t : Alive(t)' <=> Alive(t)
  BY <1>1, <1>7 DEF Alive
<1> QED BY <1>0, <1>1, <1>2, <1>3, <1>4, <1>5, <1>6, <1>7
        DEF Application, GetResourceId

\* A texture that is allocated is referred to by nobody before.
LEMMA AllocatedEffect ==
    ASSUME TypeOK, NEW r \in Resources, GetAllocated(r)
    PROVE  \E t \in Textures :
             /\ Unreferenced(t)
             /\ owned' = owned \cup {t} /\ releasing' = releasing
             /\ \A u : Alive(u)' <=> Alive(u) \/ u = t
             /\ res[r].data # None /\ ~ Alive(res[r].cur.tex)
             /\ \A s \in Resources : s # r => res'[s] = res[s]
             /\ res'[r].cur.tex = t /\ res'[r].data = res[r].data
             /\ res'[r].old = res[r].old
             /\ status'[t] = "loading"
             /\ \A u \in Textures : u # t => /\ status'[u] = status[u]
                                             /\ picture'[u] = picture[u]
             /\ DOMAIN toLoad' = 1 .. Len(toLoad) + 1
             /\ \A i \in DOMAIN toLoad : toLoad'[i] = toLoad[i]
             /\ toLoad'[Len(toLoad) + 1].tex = t
             /\ toLoad'[Len(toLoad) + 1].image = res[r].data
<1>0. /\ res \in [Resources -> Member] /\ toLoad \in Seq(Entry)
      /\ status \in [Textures -> {"notLoaded", "loading", "loaded"}]
      /\ DOMAIN picture = Textures
  BY DEF TypeOK, Member, Entry
<1>1. PICK t \in Textures :
        /\ Unreferenced(t)
        /\ owned' = owned \cup {t}
        /\ res' = [res EXCEPT ![r].cur.tex = t]
        /\ status' = [status EXCEPT ![t] = "loading"]
        /\ picture' = [picture EXCEPT ![t] = [image |-> None, size |-> None]]
        /\ toLoad' = Append(toLoad, [tex |-> t, image |-> res[r].data,
                                     size |-> res[r].cur.size])
  BY DEF GetAllocated
<1>2. /\ releasing' = releasing
      /\ res[r].data # None /\ ~ Alive(res[r].cur.tex)
  BY DEF GetAllocated
<1>3. /\ \A s \in Resources : s # r => res'[s] = res[s]
      /\ res'[r].cur.tex = t /\ res'[r].data = res[r].data
      /\ res'[r].old = res[r].old
  BY <1>0, <1>1 DEF Member
<1>4. /\ status'[t] = "loading"
      /\ \A u \in Textures : u # t => /\ status'[u] = status[u]
                                      /\ picture'[u] = picture[u]
  BY <1>0, <1>1 DEF TypeOK
<1>5. \A u : Alive(u)' <=> Alive(u) \/ u = t
  BY <1>1, <1>2 DEF Alive
<1> DEFINE e == [tex |-> t, image |-> res[r].data, size |-> res[r].cur.size]
<1>6. e \in Entry /\ e.tex = t /\ e.image = res[r].data
  BY <1>0, <1>2 DEF Entry, Member
<1> HIDE DEF e
<1>7. /\ DOMAIN toLoad' = 1 .. Len(toLoad) + 1
      /\ \A i \in DOMAIN toLoad : toLoad'[i] = toLoad[i]
      /\ toLoad'[Len(toLoad) + 1] = e
  <2>1. toLoad' = Append(toLoad, e)
    BY <1>1 DEF e
  <2> QED BY <1>0, <1>6, <2>1
<1> QED BY <1>1, <1>2, <1>3, <1>4, <1>5, <1>6, <1>7

\* The end of a frame adds nothing to the hook's containers.
LEMMA EndFrameAlive ==
    ASSUME EndFrame
    PROVE  /\ owned' = owned /\ res' = res
           /\ DOMAIN releasing' = {t \in DOMAIN releasing : ~ Releasable(t)}
           /\ \A t \in DOMAIN releasing' : releasing'[t] = releasing[t] + 1
           /\ \A t : Alive(t)' => Alive(t)
BY DEF EndFrame, ReleaseResources, Alive

\* The end of a frame loads the live textures of the batch.
LEMMA EndFrameLoads ==
    ASSUME TypeOK, EndFrame
    PROVE  \A t \in Textures :
             \/ /\ status'[t] = "loaded"
                /\ \E i \in Valid : /\ toLoad[i].tex = t
                                    /\ picture'[t].image = toLoad[i].image
             \/ /\ ~ \E i \in Valid : toLoad[i].tex = t
                /\ status'[t] = status[t] /\ picture'[t] = picture[t]
<1> SUFFICES ASSUME NEW t \in Textures
             PROVE  \/ /\ status'[t] = "loaded"
                       /\ \E i \in Valid : /\ toLoad[i].tex = t
                                           /\ picture'[t].image = toLoad[i].image
                    \/ /\ ~ \E i \in Valid : toLoad[i].tex = t
                       /\ status'[t] = status[t] /\ picture'[t] = picture[t]
  OBVIOUS
<1>1. CASE \E u \in Uploads : u.tex = t
  <2> DEFINE u == CHOOSE x \in Uploads : x.tex = t
  <2>1. u \in Uploads /\ u.tex = t
    BY <1>1
  <2>2. status'[t] = "loaded" /\ picture'[t] = [image |-> u.image, size |-> u.size]
    BY <1>1 DEF EndFrame, LoadResources
  <2> HIDE DEF u
  <2>3. PICK i \in Valid : u = toLoad[i]
    BY <2>1 DEF Uploads
  <2> QED BY <2>1, <2>2, <2>3
<1>2. CASE ~ \E u \in Uploads : u.tex = t
  BY <1>2 DEF EndFrame, LoadResources, Uploads
<1> QED BY <1>1, <1>2

-----------------------------------------------------------------------------
(* Textures are exclusive, and released ones unreachable                   *)

\* A new hook has no texture.
LEMMA ExclusiveInit == Init => Exclusive /\ ReleasedUnreachable
BY NoneAssumption DEF Init, Exclusive, ReleasedUnreachable, Alive

\* Dropping pointers and textures keeps the remaining pointers exclusive.
LEMMA ExclusiveWeaken ==
    ASSUME TypeOK, Exclusive, \A t : Alive(t)' => Alive(t),
           \A s \in Resources : \A a \in {"cur", "old"} :
              res'[s][a].tex = res[s][a].tex \/ ~ Alive(res'[s][a].tex)
    PROVE  Exclusive'
<1> SUFFICES ASSUME NEW s \in Resources, NEW u \in Resources,
                    NEW a \in {"cur", "old"}, NEW b \in {"cur", "old"},
                    res'[s][a].tex = res'[u][b].tex,
                    res'[s][a].tex \in owned' \cup DOMAIN releasing'
             PROVE  s = u /\ a = b
  BY DEF Exclusive, Alive
<1>0. Alive(res'[s][a].tex)
  BY DEF Alive
<1>1. res'[s][a].tex = res[s][a].tex /\ res'[u][b].tex = res[u][b].tex
  BY <1>0
<1>2. Alive(res[s][a].tex) /\ res[s][a].tex = res[u][b].tex
  BY <1>0, <1>1, Zenon
<1> QED BY <1>2, Zenon DEF Exclusive

\* Every step keeps the pointers exclusive.
LEMMA ExclusiveStep == TypeOK /\ Exclusive /\ [Next]_vars => Exclusive'
<1> SUFFICES ASSUME TypeOK, Exclusive, [Next]_vars PROVE Exclusive'
  OBVIOUS
<1>0. ~ Alive(None) /\ Empty.tex = None /\ res \in [Resources -> Member]
  BY NoneDead DEF Empty, TypeOK, Member
<1>1. ASSUME NEW r \in Resources, Application(r) PROVE Exclusive'
  <2>1. ASSUME NEW i \in Images, AttachResource(r, i) PROVE Exclusive'
    <3>1. /\ \A t : Alive(t)' <=> Alive(t)
          /\ \A s \in Resources : s # r => res'[s] = res[s]
          /\ res'[r].cur.tex = None
          /\ \/ res'[r].old.tex = res[r].old.tex /\ ~ Alive(res[r].cur.tex)
             \/ res'[r].old.tex = res[r].cur.tex
      BY <1>0, <2>1 DEF AttachResource, Alive, Member
    <3> SUFFICES ASSUME NEW s \in Resources, NEW u \in Resources,
                        NEW a \in {"cur", "old"}, NEW b \in {"cur", "old"},
                        res'[s][a].tex = res'[u][b].tex,
                        res'[s][a].tex \in owned' \cup DOMAIN releasing'
                 PROVE  s = u /\ a = b
      BY DEF Exclusive, Alive
    <3>2. Alive(res'[s][a].tex) /\ Alive(res'[u][b].tex)
      BY <3>1 DEF Alive
    <3>3. (s = r => a = "old") /\ (u = r => b = "old")
      BY <1>0, <3>1, <3>2
    <3>4. \E c \in {"cur", "old"} : res'[s][a].tex = res[s][c].tex
                                    /\ (s # r => c = a)
      BY <3>1, <3>3
    <3>5. \E c \in {"cur", "old"} : res'[u][b].tex = res[u][c].tex
                                    /\ (u # r => c = b)
      BY <3>1, <3>3
    <3>6. PICK c \in {"cur", "old"} : /\ res'[s][a].tex = res[s][c].tex
                                      /\ s # r => c = a
      BY <3>4
    <3>7. PICK d \in {"cur", "old"} : /\ res'[u][b].tex = res[u][d].tex
                                      /\ u # r => d = b
      BY <3>5
    <3>8. Alive(res[s][c].tex) /\ res[s][c].tex = res[u][d].tex
      <4>1. res[s][c].tex = res'[s][a].tex /\ res[u][d].tex = res'[s][a].tex
        BY <3>6, <3>7
      <4> QED BY <3>2, <4>1, Zenon
    <3>9. s = u /\ c = d
      BY <3>8, Zenon DEF Exclusive
    <3>10. CASE s = r
      BY <3>3, <3>9, <3>10, Zenon
    <3>11. CASE s # r
      <4>1. c = a /\ d = b
        BY <3>6, <3>7, <3>9, <3>11, Zenon
      <4> QED BY <3>9, <4>1, Zenon
    <3> QED BY <3>10, <3>11
  <2>2. CASE GetAllocated(r)
    <3>1. PICK t \in Textures :
            /\ Unreferenced(t)
            /\ \A u : Alive(u)' <=> Alive(u) \/ u = t
            /\ \A s \in Resources : s # r => res'[s] = res[s]
            /\ res'[r].cur.tex = t /\ res'[r].old = res[r].old
      BY <2>2, AllocatedEffect
    <3>2. \A s \in Resources : res[s].cur.tex # t /\ res[s].old.tex # t
      BY <3>1 DEF Unreferenced
    <3>3. \A s \in Resources : \A a \in {"cur", "old"} :
             \/ s = r /\ a = "cur" /\ res'[s][a].tex = t
             \/ ~ (s = r /\ a = "cur") /\ res'[s][a].tex = res[s][a].tex
                                       /\ res'[s][a].tex # t
      BY <3>1, <3>2
    <3> QED BY <3>1, <3>3 DEF Exclusive
  <2>3. CASE ClearAttachedResource(r)
    <3>1. /\ \A t : Alive(t)' <=> Alive(t)
          /\ \A s \in Resources : res'[s].cur = res[s].cur /\ res'[s].old = res[s].old
      BY <1>0, <2>3 DEF ClearAttachedResource, Alive, Member
    <3> QED BY <3>1, ExclusiveWeaken
  <2>4. ASSUME NEW clear \in BOOLEAN, Unload(r, clear) PROVE Exclusive'
    <3>1. /\ \A s \in Resources : s # r => res'[s] = res[s]
          /\ res'[r].cur.tex = None /\ res'[r].old.tex = None
      BY <1>0, <2>4 DEF Unload, Member
    <3>2. \A t : Alive(t)' <=> Alive(t)
      BY <2>4, ReleaseMoves DEF Unload
    <3> QED BY <1>0, <3>1, <3>2, ExclusiveWeaken
  <2>5. CASE GetLoaded(r)
    <3>1. \A s \in Resources : res'[s].cur = res[s].cur
                               /\ res'[s].old.tex \in {res[s].old.tex, None}
      BY <1>0, <2>5 DEF GetLoaded, Member
    <3>2. \A t : Alive(t)' <=> Alive(t)
      BY <2>5, ReleaseMoves DEF GetLoaded, Alive
    <3> QED BY <1>0, <3>1, <3>2, ExclusiveWeaken
  <2>6. CASE GetOld(r)
    <3>1. \A s \in Resources : res'[s].old = res[s].old
                               /\ res'[s].cur.tex \in {res[s].cur.tex, None}
      BY <1>0, <2>6 DEF GetOld, Member
    <3>2. \A t : Alive(t)' <=> Alive(t)
      BY <2>6 DEF GetOld, Alive
    <3> QED BY <1>0, <3>1, <3>2, ExclusiveWeaken
  <2> QED BY <1>1, <2>1, <2>2, <2>3, <2>4, <2>5, <2>6
          DEF Application, GetResourceId
<1>2. CASE EndFrame
  BY <1>2, EndFrameAlive, ExclusiveWeaken
<1>3. CASE Removing
  <2>1. res' = res /\ \A t : Alive(t)' => Alive(t)
    BY <1>3 DEF Removing, Alive
  <2> QED BY <2>1, ExclusiveWeaken
<1>4. CASE UNCHANGED vars
  BY <1>4 DEF vars, Exclusive, Alive
<1> QED BY <1>1, <1>2, <1>3, <1>4 DEF Next

\* No two pointers of the resources share a live texture, whatever the order of
\* attaches, unloads, loads and losses of the device.
THEOREM ExclusiveInvariant == Spec => []Exclusive
<1>1. Init => Exclusive
  BY ExclusiveInit
<1> QED BY <1>1, ExclusiveStep, TypeCorrect, PTL DEF Spec

-----------------------------------------------------------------------------
(* The load queue                                                          *)

\* A new hook has nothing to load.
LEMMA QueueInit == Init => LoadingQueued
BY DEF Init, LoadingQueued

\* Every step keeps the textures that wait in the queue, once each.
LEMMA QueueStep == TypeOK /\ LoadingQueued /\ [Next]_vars => LoadingQueued'
<1> SUFFICES ASSUME TypeOK, LoadingQueued, [Next]_vars PROVE LoadingQueued'
  OBVIOUS
<1>0. /\ Len(toLoad) \in Nat /\ DOMAIN toLoad = 1 .. Len(toLoad)
      /\ owned \subseteq Textures
  BY DEF TypeOK
<1>1. ASSUME NEW r \in Resources, Application(r) PROVE LoadingQueued'
  <2>1. CASE ~ GetAllocated(r)
    BY <1>1, <2>1, QuietEffect DEF LoadingQueued
  <2>2. CASE GetAllocated(r)
    <3>1. PICK t \in Textures :
            /\ Unreferenced(t)
            /\ owned' = owned \cup {t}
            /\ status'[t] = "loading"
            /\ \A u \in Textures : u # t => status'[u] = status[u]
            /\ DOMAIN toLoad' = 1 .. Len(toLoad) + 1
            /\ \A i \in DOMAIN toLoad : toLoad'[i] = toLoad[i]
            /\ toLoad'[Len(toLoad) + 1].tex = t
      BY <2>2, AllocatedEffect
    <3>2. \A i \in DOMAIN toLoad : toLoad'[i].tex = toLoad[i].tex
                                   /\ toLoad'[i].tex # t
      BY <3>1 DEF Unreferenced
    <3>3. \A i \in DOMAIN toLoad' : i \in DOMAIN toLoad \/ i = Len(toLoad) + 1
      BY <1>0, <3>1
    <3>4. DOMAIN toLoad \subseteq DOMAIN toLoad' /\ Len(toLoad) + 1 \in DOMAIN toLoad'
      BY <1>0, <3>1
    <3>5. ASSUME NEW u \in owned', u # t
          PROVE  /\ status'[u] = "loading"
                    <=> \E i \in DOMAIN toLoad' : toLoad'[i].tex = u
                 /\ \A i, j \in DOMAIN toLoad' :
                      toLoad'[i].tex = u /\ toLoad'[j].tex = u => i = j
      <4>1. u \in owned /\ status'[u] = status[u]
        BY <1>0, <3>1, <3>5
      <4>2. \A i \in DOMAIN toLoad' :
               toLoad'[i].tex = u => i \in DOMAIN toLoad /\ toLoad[i].tex = u
        BY <3>1, <3>2, <3>3, <3>5
      <4> QED BY <3>2, <3>4, <4>1, <4>2 DEF LoadingQueued
    <3>6. \A i \in DOMAIN toLoad' : toLoad'[i].tex = t => i = Len(toLoad) + 1
      BY <3>2, <3>3
    <3> QED BY <3>1, <3>4, <3>5, <3>6 DEF LoadingQueued
  <2> QED BY <2>1, <2>2
<1>2. CASE EndFrame
  <2>0. owned' = owned
    BY <1>2, EndFrameAlive
  <2> SUFFICES ASSUME NEW t \in owned
               PROVE  /\ status'[t] = "loading"
                         <=> \E i \in DOMAIN toLoad' : toLoad'[i].tex = t
                      /\ \A i, j \in DOMAIN toLoad' :
                           toLoad'[i].tex = t /\ toLoad'[j].tex = t => i = j
    BY <2>0 DEF LoadingQueued
  <2>1. /\ status[t] = "loading" <=> \E i \in DOMAIN toLoad : toLoad[i].tex = t
        /\ \A i, j \in DOMAIN toLoad :
             toLoad[i].tex = t /\ toLoad[j].tex = t => i = j
        /\ Alive(t) /\ t \in Textures
    BY <1>0 DEF LoadingQueued, Alive
  <2>2. \A i \in Batch : toLoad[i].tex = t => i \in Valid
    BY <2>1 DEF Valid
  <2>3. EraseBatch
    BY <1>2 DEF EndFrame, LoadResources
  <2>4. /\ BatchLength \in 0 .. Len(toLoad) /\ Batch = 1 .. BatchLength
        /\ Valid \subseteq Batch /\ Batch \subseteq DOMAIN toLoad
    BY BatchType DEF Batch
  <2>5. CASE toLoad' = toLoad /\ Valid = {}
    <3>1. status'[t] = status[t]
      BY <1>2, <2>1, <2>5, EndFrameLoads
    <3> QED BY <2>1, <2>5, <3>1
  <2>6. CASE /\ DOMAIN toLoad' = 1 .. Len(toLoad) - BatchLength
             /\ \A i \in DOMAIN toLoad' :
                  /\ i + BatchLength \in DOMAIN toLoad
                  /\ toLoad'[i] = toLoad[i + BatchLength]
    <3>1. \A i, j \in DOMAIN toLoad' :
             toLoad'[i].tex = t /\ toLoad'[j].tex = t => i = j
      <4> SUFFICES ASSUME NEW i \in DOMAIN toLoad', NEW j \in DOMAIN toLoad',
                          toLoad'[i].tex = t, toLoad'[j].tex = t
                   PROVE  i = j
        OBVIOUS
      <4>1. i + BatchLength = j + BatchLength
        BY <2>1, <2>6
      <4>2. i \in Int /\ j \in Int /\ BatchLength \in Int
        BY <1>0, <2>4, <2>6
      <4>3. \A x, y, z \in Int : x + z = y + z => x = y
        OBVIOUS
      <4> QED BY <4>1, <4>2, <4>3, Zenon
    <3>2. \A i \in DOMAIN toLoad : \/ i \in Batch
                                   \/ /\ i - BatchLength \in DOMAIN toLoad'
                                      /\ toLoad'[i - BatchLength] = toLoad[i]
      <4> SUFFICES ASSUME NEW i \in DOMAIN toLoad, i \notin Batch
                   PROVE  /\ i - BatchLength \in DOMAIN toLoad'
                          /\ toLoad'[i - BatchLength] = toLoad[i]
        OBVIOUS
      <4>1. /\ i - BatchLength \in 1 .. Len(toLoad) - BatchLength
            /\ (i - BatchLength) + BatchLength = i
        BY <1>0, <2>4
      <4> QED BY <2>6, <4>1
    <3>3. CASE \E i \in Valid : toLoad[i].tex = t
      <4>1. PICK i \in Valid : toLoad[i].tex = t
        BY <3>3
      <4>2. status'[t] = "loaded"
        BY <1>2, <2>1, <3>3, EndFrameLoads
      <4>3. ASSUME NEW j \in DOMAIN toLoad', toLoad'[j].tex = t PROVE FALSE
        <5>1. j + BatchLength = i
          BY <2>1, <2>4, <2>6, <4>1, <4>3
        <5>2. j \in Nat /\ j > 0 /\ i <= BatchLength /\ BatchLength \in Nat
          BY <1>0, <2>4, <2>6, <4>1
        <5> QED BY <5>1, <5>2
      <4> QED BY <3>1, <4>2, <4>3
    <3>4. CASE ~ \E i \in Valid : toLoad[i].tex = t
      <4>1. status'[t] = status[t]
        BY <1>2, <2>1, <3>4, EndFrameLoads
      <4>2. (\E i \in DOMAIN toLoad' : toLoad'[i].tex = t)
            <=> \E i \in DOMAIN toLoad : toLoad[i].tex = t
        BY <2>2, <2>6, <3>2, <3>4
      <4> QED BY <2>1, <3>1, <4>1, <4>2
    <3> QED BY <3>3, <3>4
  <2> QED BY <2>3, <2>5, <2>6, EraseShifts
<1>3. CASE Removing
  BY <1>3 DEF Removing, LoadingQueued
<1>4. CASE UNCHANGED vars
  BY <1>4 DEF vars, LoadingQueued
<1> QED BY <1>1, <1>2, <1>3, <1>4 DEF Next

\* No texture of the hook is left in status Loading without an entry of the
\* queue, none has two entries, and none is uploaded again once it is loaded.
THEOREM QueueInvariant == Spec => []LoadingQueued
<1> QED BY QueueInit, QueueStep, TypeCorrect, PTL DEF Spec

-----------------------------------------------------------------------------
(* What a loaded texture shows                                             *)

\* A new hook has promised nothing.
LEMMA PromisedInit == Init => Promised
BY DEF Init, Promised

\* Every step keeps the pictures and the pending uploads of the resources'
\* textures those of their images.
LEMMA PromisedStep == TypeOK /\ Promised /\ [Next]_vars => Promised'
<1> SUFFICES ASSUME TypeOK, Promised, [Next]_vars,
                    NEW s \in Resources,
                    res'[s].data # None,
                    res'[s].cur.tex \in owned' \cup DOMAIN releasing'
             PROVE  /\ status'[res'[s].cur.tex] = "loaded"
                       => picture'[res'[s].cur.tex].image = res'[s].data
                    /\ \A i \in DOMAIN toLoad' :
                          toLoad'[i].tex = res'[s].cur.tex
                          => toLoad'[i].image = res'[s].data
  BY DEF Promised, Alive
<1> DEFINE c == res'[s].cur.tex
<1>0. /\ Len(toLoad) \in Nat /\ DOMAIN toLoad = 1 .. Len(toLoad)
      /\ \A t : Alive(t) => t \in Textures
  BY DEF TypeOK, Alive
<1>1. ASSUME res[s].data = res'[s].data, res[s].cur.tex = c, Alive(c)
      PROVE  /\ status[c] = "loaded" => picture[c].image = res'[s].data
             /\ \A i \in DOMAIN toLoad :
                   toLoad[i].tex = c => toLoad[i].image = res'[s].data
  BY <1>1 DEF Promised
<1>2. ASSUME NEW r \in Resources, Application(r), ~ GetAllocated(r)
      PROVE  res[s].data = res'[s].data /\ res[s].cur.tex = c /\ Alive(c)
             /\ UNCHANGED <<toLoad, status, picture>>
  <2>1. Alive(c)
    <3>1. \A t : Alive(t)' => Alive(t)
      BY <1>2, QuietEffect
    <3> QED BY <3>1 DEF Alive
  <2> QED BY <1>2, <2>1, QuietEffect
<1>3. ASSUME NEW r \in Resources, GetAllocated(r)
      PROVE  /\ status'[c] = "loaded" => picture'[c].image = res'[s].data
             /\ \A i \in DOMAIN toLoad' :
                   toLoad'[i].tex = c => toLoad'[i].image = res'[s].data
  <2>1. PICK t \in Textures :
          /\ Unreferenced(t)
          /\ owned' = owned \cup {t} /\ releasing' = releasing
          /\ \A u \in Resources : u # r => res'[u] = res[u]
          /\ res'[r].cur.tex = t /\ res'[r].data = res[r].data
          /\ status'[t] = "loading"
          /\ \A u \in Textures : u # t => /\ status'[u] = status[u]
                                          /\ picture'[u] = picture[u]
          /\ DOMAIN toLoad' = 1 .. Len(toLoad) + 1
          /\ \A i \in DOMAIN toLoad : toLoad'[i] = toLoad[i]
          /\ toLoad'[Len(toLoad) + 1].tex = t
          /\ toLoad'[Len(toLoad) + 1].image = res[r].data
    BY <1>3, AllocatedEffect
  <2>2. \A i \in DOMAIN toLoad : toLoad'[i] = toLoad[i] /\ toLoad[i].tex # t
    BY <2>1 DEF Unreferenced
  <2>3. \A i \in DOMAIN toLoad' : i \in DOMAIN toLoad \/ i = Len(toLoad) + 1
    BY <1>0, <2>1
  <2>4. CASE s = r
    <3>1. c = t /\ res'[s].data = res[r].data
      BY <2>1, <2>4
    <3> QED BY <2>1, <2>2, <2>3, <3>1
  <2>5. CASE s # r
    <3>1. res[s].data = res'[s].data /\ res[s].cur.tex = c /\ c # t
      BY <2>1, <2>5 DEF Unreferenced
    <3>2. Alive(c) /\ c \in Textures
      BY <1>0, <2>1, <3>1 DEF Alive
    <3> QED BY <1>1, <2>1, <2>2, <2>3, <3>1, <3>2
  <2> QED BY <2>4, <2>5
<1>4. CASE EndFrame
  <2>1. res[s].data = res'[s].data /\ res[s].cur.tex = c /\ Alive(c)
    <3>1. res' = res /\ \A t : Alive(t)' => Alive(t)
      BY <1>4, EndFrameAlive
    <3> QED BY <3>1 DEF Alive
  <2>2. \A i \in Valid : i \in DOMAIN toLoad
    BY BatchType
  <2>3. status'[c] = "loaded" => picture'[c].image = res'[s].data
    BY <1>0, <1>1, <1>4, <2>1, <2>2, EndFrameLoads
  <2>4. \A i \in DOMAIN toLoad' : \E j \in DOMAIN toLoad : toLoad'[i] = toLoad[j]
    BY <1>4, EraseShifts DEF EndFrame, LoadResources
  <2> QED BY <1>1, <2>1, <2>3, <2>4
<1>5. CASE Removing \/ UNCHANGED vars
  <2>1. UNCHANGED <<res, toLoad, status, picture>> /\ Alive(c)
    BY <1>5 DEF Removing, vars, Alive
  <2> QED BY <1>1, <2>1
<1>6. ASSUME NEW r \in Resources, Application(r), ~ GetAllocated(r)
      PROVE  /\ status'[c] = "loaded" => picture'[c].image = res'[s].data
             /\ \A i \in DOMAIN toLoad' :
                   toLoad'[i].tex = c => toLoad'[i].image = res'[s].data
  BY <1>1, <1>2, <1>6
<1>7. CASE \E r \in Resources : Application(r)
  BY <1>3, <1>6, <1>7
<1> QED BY <1>4, <1>5, <1>7 DEF Next

\* A loaded texture shows the image that its resource has attached, although the
\* upload happens frames after the request, from a copy of the request.
THEOREM ContentInvariant == Spec => []ShowsAttached
<1>1. Promised => ShowsAttached
  BY DEF Promised, ShowsAttached
<1> QED BY <1>1, PromisedInit, PromisedStep, TypeCorrect, PTL DEF Spec

-----------------------------------------------------------------------------
(* The life of a texture on the GPU                                        *)

\* A new hook draws nothing.
LEMMA UseInit == Init => UseCovered
BY DEF Init, UseCovered

\* A release keeps the pointers of every other resource out of the list.
LEMMA ReleasedStep ==
    TypeOK /\ Exclusive /\ ReleasedUnreachable /\ [Next]_vars
    => ReleasedUnreachable'
<1> SUFFICES ASSUME TypeOK, Exclusive, ReleasedUnreachable, [Next]_vars
             PROVE  ReleasedUnreachable'
  OBVIOUS
<1>0. /\ ~ Alive(None) /\ Empty.tex = None /\ res \in [Resources -> Member]
      /\ None \notin DOMAIN releasing
  BY NoneDead DEF Empty, TypeOK, Member, Alive
<1>r. \A s \in Resources : /\ res[s].cur.tex \notin DOMAIN releasing
                           /\ res[s].old.tex \notin DOMAIN releasing
  BY DEF ReleasedUnreachable
<1>s. SUFFICES ASSUME NEW s \in Resources
               PROVE  /\ res'[s].cur.tex \notin DOMAIN releasing'
                      /\ res'[s].old.tex \notin DOMAIN releasing'
  BY <1>s DEF ReleasedUnreachable
<1>1. ASSUME NEW r \in Resources, NEW i \in Images, AttachResource(r, i)
      PROVE  /\ res'[s].cur.tex \notin DOMAIN releasing'
             /\ res'[s].old.tex \notin DOMAIN releasing'
  <2>1. /\ releasing' = releasing
        /\ s # r => res'[s] = res[s]
        /\ res'[r].cur.tex = None
        /\ res'[r].old.tex \in {res[r].old.tex, res[r].cur.tex}
    BY <1>0, <1>1 DEF AttachResource, Member
  <2> QED BY <1>0, <1>r, <2>1
<1>2. ASSUME NEW r \in Resources, ClearAttachedResource(r)
      PROVE  /\ res'[s].cur.tex \notin DOMAIN releasing'
             /\ res'[s].old.tex \notin DOMAIN releasing'
  <2>1. releasing' = releasing /\ res'[s].cur = res[s].cur /\ res'[s].old = res[s].old
    BY <1>0, <1>2 DEF ClearAttachedResource, Member
  <2> QED BY <1>r, <2>1
<1>3. ASSUME NEW r \in Resources, NEW clear \in BOOLEAN, Unload(r, clear)
      PROVE  /\ res'[s].cur.tex \notin DOMAIN releasing'
             /\ res'[s].old.tex \notin DOMAIN releasing'
  <2>1. /\ s # r => res'[s] = res[s]
        /\ res'[r].cur.tex = None /\ res'[r].old.tex = None
    BY <1>0, <1>3 DEF Unload, Member
  <2>2. DOMAIN releasing'
          = DOMAIN releasing \cup ({res[r].old.tex, res[r].cur.tex} \cap owned)
    BY <1>3, ReleaseMoves DEF Unload
  <2>3. None \notin owned
    BY <1>0 DEF Alive
  <2>4. ASSUME s # r, NEW a \in {"cur", "old"}, res[s][a].tex \in owned
        PROVE  res[s][a].tex \notin {res[r].old.tex, res[r].cur.tex}
    <3>1. Alive(res[s][a].tex)
      BY <2>4 DEF Alive
    <3> QED BY <2>4, <3>1 DEF Exclusive
  <2>5. s # r => /\ res[s].cur.tex \notin DOMAIN releasing'
                 /\ res[s].old.tex \notin DOMAIN releasing'
    BY <1>r, <2>2, <2>4
  <2> QED BY <1>0, <2>1, <2>2, <2>3, <2>5
<1>4. ASSUME NEW r \in Resources, GetLoaded(r)
      PROVE  /\ res'[s].cur.tex \notin DOMAIN releasing'
             /\ res'[s].old.tex \notin DOMAIN releasing'
  <2>1. CASE Alive(res[r].old.tex)
    <3>1. /\ ReleaseImageResource({res[r].old.tex})
          /\ res' = [res EXCEPT ![r].old = Empty]
      BY <1>4, <2>1 DEF GetLoaded
    <3>2. DOMAIN releasing' = DOMAIN releasing \cup ({res[r].old.tex} \cap owned)
      BY <3>1, ReleaseMoves
    <3>3. /\ res'[s].cur.tex = res[s].cur.tex
          /\ res'[s].old.tex = IF s = r THEN None ELSE res[s].old.tex
      BY <1>0, <3>1 DEF Member
    <3>4. /\ res[s].cur.tex # res[r].old.tex
          /\ s # r => res[s].old.tex # res[r].old.tex
      BY <2>1 DEF Exclusive
    <3>5. None # res[r].old.tex
      BY <1>0, <2>1
    <3> QED BY <1>0, <1>r, <3>2, <3>3, <3>4, <3>5
  <2>2. CASE ~ Alive(res[r].old.tex)
    BY <1>4, <1>r, <2>2 DEF GetLoaded
  <2> QED BY <2>1, <2>2
<1>5. ASSUME NEW r \in Resources, GetAllocated(r)
      PROVE  /\ res'[s].cur.tex \notin DOMAIN releasing'
             /\ res'[s].old.tex \notin DOMAIN releasing'
  BY <1>5, <1>r, AllocatedEffect DEF Unreferenced, Alive
<1>6. ASSUME NEW r \in Resources, GetOld(r)
      PROVE  /\ res'[s].cur.tex \notin DOMAIN releasing'
             /\ res'[s].old.tex \notin DOMAIN releasing'
  <2>1. /\ releasing' = releasing /\ res'[s].old.tex = res[s].old.tex
        /\ res'[s].cur.tex \in {res[s].cur.tex, None}
    BY <1>0, <1>6 DEF GetOld, Member
  <2> QED BY <1>0, <1>r, <2>1
<1>7. CASE EndFrame
  BY <1>7, <1>r, EndFrameAlive
<1>8. CASE Removing \/ UNCHANGED vars
  BY <1>8, <1>r DEF Removing, vars
<1> QED BY <1>1, <1>2, <1>3, <1>4, <1>5, <1>6, <1>7, <1>8
        DEF Next, Application, GetResourceId

\* What a resource can draw is alive and not released.
LEMMA DrawnOwned ==
    ASSUME TypeOK, ReleasedUnreachable, NEW r \in Resources
    PROVE  /\ OldOrNone(r) # None => OldOrNone(r) \in owned
           /\ Alive(res[r].cur.tex) => res[r].cur.tex \in owned
BY DEF OldOrNone, ReleasedUnreachable, Alive

\* With Vulkan every step keeps the textures that the GPU may use alive for as
\* long as it uses them.
LEMMA UseStep ==
    ASSUME Renderer = "Vulkan"
    PROVE  TypeOK /\ Exclusive /\ ReleasedUnreachable /\ UseCovered /\ [Next]_vars
           => UseCovered'
<1> SUFFICES ASSUME TypeOK, Exclusive, ReleasedUnreachable, UseCovered, [Next]_vars,
                    NEW t \in Textures, inUse'[t] > 0
             PROVE  /\ t \in owned' \cup DOMAIN releasing'
                    /\ t \in DOMAIN releasing'
                       => releasing'[t] + inUse'[t] <= Frames
  BY DEF UseCovered, Alive
<1> USE FramesAssumption
<1>0. /\ inUse \in [Textures -> 0 .. Frames]
      /\ inUse[t] > 0 => /\ t \in owned \cup DOMAIN releasing
                         /\ t \in DOMAIN releasing
                            => releasing[t] + inUse[t] <= Frames
      /\ t \in DOMAIN releasing => releasing[t] \in 0 .. Frames + 1
  BY DEF TypeOK, UseCovered, Alive
<1>1. ASSUME NEW u, Draw(u)
      PROVE  IF t = u THEN inUse'[t] = Frames ELSE inUse'[t] = inUse[t]
  BY <1>0, <1>1 DEF Draw
<1>2. ASSUME NEW ts, ReleaseImageResource(ts)
      PROVE  /\ t \in owned' \cup DOMAIN releasing'
                <=> t \in owned \cup DOMAIN releasing
             /\ t \in DOMAIN releasing' /\ t \notin ts => t \in DOMAIN releasing
             /\ t \in DOMAIN releasing'
                => \/ releasing'[t] = 0
                   \/ t \in DOMAIN releasing /\ releasing'[t] = releasing[t]
  BY <1>2, ReleaseMoves
<1>3. ASSUME NEW r \in Resources, NEW i \in Images, AttachResource(r, i)
      PROVE  UNCHANGED <<owned, releasing, inUse>>
  BY <1>3 DEF AttachResource
<1>4. ASSUME NEW r \in Resources, ClearAttachedResource(r)
      PROVE  UNCHANGED <<owned, releasing, inUse>>
  BY <1>4 DEF ClearAttachedResource
<1>5. ASSUME NEW r \in Resources, NEW clear \in BOOLEAN, Unload(r, clear)
      PROVE  /\ t \in owned' \cup DOMAIN releasing'
             /\ t \in DOMAIN releasing' => releasing'[t] + inUse'[t] <= Frames
  <2>1. ReleaseImageResource({res[r].old.tex, res[r].cur.tex}) /\ inUse' = inUse
    BY <1>5 DEF Unload
  <2> QED BY <1>0, <1>2, <2>1
<1>6. ASSUME NEW r \in Resources, GetLoaded(r)
      PROVE  /\ t \in owned' \cup DOMAIN releasing'
             /\ t \in DOMAIN releasing' => releasing'[t] + inUse'[t] <= Frames
  <2>1. Draw(res[r].cur.tex) /\ Alive(res[r].cur.tex)
    BY <1>6 DEF GetLoaded
  <2>2. res[r].cur.tex \in owned /\ res[r].cur.tex \notin DOMAIN releasing
    BY <2>1, DrawnOwned DEF ReleasedUnreachable
  <2>3. CASE Alive(res[r].old.tex)
    <3>1. ReleaseImageResource({res[r].old.tex})
      BY <1>6, <2>3 DEF GetLoaded
    <3>2. res[r].cur.tex # res[r].old.tex
      BY <2>3 DEF Exclusive
    <3>3. CASE t = res[r].cur.tex
      BY <1>2, <2>2, <3>1, <3>2, <3>3
    <3>4. CASE t # res[r].cur.tex
      <4>1. inUse'[t] = inUse[t]
        BY <1>1, <2>1, <3>4
      <4> QED BY <1>0, <1>2, <3>1, <4>1
    <3> QED BY <3>3, <3>4
  <2>4. CASE ~ Alive(res[r].old.tex)
    <3>1. owned' = owned /\ releasing' = releasing
      BY <1>6, <2>4 DEF GetLoaded
    <3> QED BY <1>0, <1>1, <2>1, <2>2, <3>1
  <2> QED BY <2>3, <2>4
<1>7. ASSUME NEW r \in Resources, GetAllocated(r) \/ GetOld(r)
      PROVE  /\ t \in owned' \cup DOMAIN releasing'
             /\ t \in DOMAIN releasing' => releasing'[t] + inUse'[t] <= Frames
  <2>1. Draw(OldOrNone(r)) /\ releasing' = releasing /\ owned \subseteq owned'
    BY <1>7 DEF GetAllocated, GetOld
  <2>2. t = OldOrNone(r) => t \in owned /\ t \notin DOMAIN releasing
    BY DrawnOwned, NoneAssumption DEF TypeOK
  <2> QED BY <1>0, <1>1, <2>1, <2>2
<1>8. CASE EndFrame
  <2>1. inUse[t] = inUse'[t] + 1 /\ inUse'[t] \in Nat
    BY <1>0, <1>8 DEF EndFrame
  <2>2. /\ owned' = owned
        /\ DOMAIN releasing' = {u \in DOMAIN releasing : ~ Releasable(u)}
        /\ \A u \in DOMAIN releasing' : releasing'[u] = releasing[u] + 1
    BY <1>8, EndFrameAlive
  <2>3. t \in DOMAIN releasing => ~ Releasable(t)
    BY <1>0, <2>1 DEF Releasable
  <2> QED BY <1>0, <2>1, <2>2, <2>3
<1>9. CASE Removing
  BY <1>9 DEF Removing
<1>10. CASE UNCHANGED vars
  BY <1>0, <1>10 DEF vars
<1> QED BY <1>0, <1>3, <1>4, <1>5, <1>6, <1>7, <1>8, <1>9, <1>10
        DEF Next, Application, GetResourceId

\* With Vulkan a texture that a frame in flight may sample stays alive until
\* the GPU is done with it, unless the device itself goes.
THEOREM FramesSurvive ==
    ASSUME Renderer = "Vulkan"
    PROVE  Spec => DrawnSurvives
<1> DEFINE Inv == TypeOK /\ Exclusive /\ ReleasedUnreachable /\ UseCovered
<1>1. Init => Inv
  BY TypeInit, ExclusiveInit, UseInit
<1>2. Inv /\ [Next]_vars => Inv'
  BY TypeStep, ExclusiveStep, ReleasedStep, UseStep
<1>3. Inv /\ Inv' /\ [Next]_vars
      => [\A t \in Textures : inUse[t] > 0 => Alive(t)' \/ Removing]_vars
  <2> SUFFICES ASSUME Inv, Next, NEW t \in Textures, inUse[t] > 0, ~ Removing
               PROVE  t \in owned' \cup DOMAIN releasing'
    BY DEF Alive
  <2>1. /\ Alive(t) /\ inUse \in [Textures -> 0 .. Frames]
        /\ t \in DOMAIN releasing => releasing[t] + inUse[t] <= Frames
                                     /\ releasing[t] \in 0 .. Frames + 1
    BY DEF UseCovered, TypeOK
  <2>2. ASSUME NEW r \in Resources, Application(r) PROVE Alive(t)'
    BY <2>1, <2>2, QuietEffect, AllocatedEffect
  <2>3. CASE EndFrame
    <3>1. t \in DOMAIN releasing => ~ Releasable(t)
      BY <2>1, FramesAssumption DEF Releasable
    <3> QED BY <2>1, <2>3, <3>1, EndFrameAlive DEF Alive
  <2> QED BY <2>2, <2>3 DEF Next, Alive
<1> QED BY <1>1, <1>2, <1>3, PTL DEF Spec, DrawnSurvives
=============================================================================
