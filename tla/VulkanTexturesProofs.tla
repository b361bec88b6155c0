------------------------ MODULE VulkanTexturesProofs ------------------------
(***************************************************************************)
(* Descriptor sets change nothing about the textures they belong to: each  *)
(* behaviour with pools is one of the image resources alone.  And every    *)
(* pool counts the sets that are taken from it, and a texture is refused a *)
(* set only when they are all taken.                                       *)
(***************************************************************************)
EXTENDS VulkanTextures, ImageResourcesProofs, FiniteSetTheorems,
        FunctionTheorems

\* The textures that hold a set, those whose pool is gone included.
Held == owned \cup DOMAIN releasing

\* Every texture of this device has its set from one of its pools.
PoolInv ==
    /\ pools \in Seq(0 .. Width - 1)
    /\ DOMAIN pool = Textures
    /\ strays \subseteq DOMAIN releasing
    /\ IsFiniteSet(Held)
    /\ \A t \in Held \ strays : pool[t] \in DOMAIN pools

\* A step is one of the image resources.
LEMMA PoolStep == [PoolNext]_allVars => [Next]_vars
BY DEF PoolNext, Quiet, GetAllocatedSet, GetRefused, FirstPool, PresentFrame,
       DeviceRemoved, Next, Application, GetResourceId, allVars, vars

\* The image resources with descriptor sets are image resources.
THEOREM PoolsAreResources == PoolSpec => Spec
BY PoolStep, PTL DEF PoolSpec, PoolInit, Spec

\* With descriptor pools too, no texture that a frame in flight may sample is
\* destroyed.
THEOREM SetsSurvive ==
    ASSUME Renderer = "Vulkan"
    PROVE  PoolSpec => DrawnSurvives
BY PoolsAreResources, FramesSurvive, PTL

-----------------------------------------------------------------------------
(* The sets are counted                                                    *)

\* Nothing changes for the pools while the same textures are held.
LEMMA SameHeld ==
    ASSUME PoolInv, SetsCounted, UNCHANGED poolVars,
           \A t : Alive(t)' <=> Alive(t), DOMAIN releasing \subseteq DOMAIN releasing'
    PROVE  PoolInv' /\ SetsCounted'
<1>1. Held' = Held
  BY DEF Held, Alive
<1>2. \A p : LiveIn(p)' = LiveIn(p)
  BY <1>1 DEF LiveIn, Held, poolVars
<1> QED BY <1>1, <1>2 DEF PoolInv, SetsCounted, poolVars

\* What the application does but for allocating a texture holds the same ones.
LEMMA QuietHeld ==
    ASSUME TypeOK, NEW r \in Resources, Quiet(r) \/ GetRefused(r)
    PROVE  /\ \A t : Alive(t)' <=> Alive(t)
           /\ DOMAIN releasing \subseteq DOMAIN releasing'
           /\ UNCHANGED poolVars
<1>1. ASSUME NEW ts, ReleaseImageResource(ts)
      PROVE  /\ \A t : Alive(t)' <=> Alive(t)
             /\ DOMAIN releasing \subseteq DOMAIN releasing'
  BY <1>1, ReleaseMoves
<1>2. ASSUME UNCHANGED <<owned, releasing>>
      PROVE  /\ \A t : Alive(t)' <=> Alive(t)
             /\ DOMAIN releasing \subseteq DOMAIN releasing'
  BY <1>2 DEF Alive
<1> QED BY <1>1, <1>2 DEF Quiet, GetRefused, AttachResource,
          ClearAttachedResource, Unload, GetLoaded, GetOld

\* A new texture has its set from a pool that had room, or from a new one.
LEMMA AllocatedHeld ==
    ASSUME TypeOK, PoolInv, SetsCounted, NEW r \in Resources, GetAllocatedSet(r)
    PROVE  PoolInv' /\ SetsCounted'
<1>1. PICK first \in 1 .. MaxPools :
      /\ IsFirst(first) /\ GetAllocated(r) /\ TakeSet(first)
      /\ pool' = [t \in Textures |-> IF t \in owned' \ owned THEN first
                                     ELSE pool[t]]
      /\ UNCHANGED <<strays, mixed>>
  BY DEF GetAllocatedSet
<1>2. PICK t \in Textures : /\ Unreferenced(t)
                            /\ owned' = owned \cup {t} /\ releasing' = releasing
  BY <1>1, AllocatedEffect
<1>3. t \notin Held /\ Held' = Held \cup {t} /\ owned' \ owned = {t}
  BY <1>2 DEF Held, Unreferenced, Alive
<1>4. t \notin strays /\ strays' = strays /\ strays' \subseteq DOMAIN releasing'
  BY <1>1, <1>2, <1>3 DEF PoolInv, Held
<1>5. /\ DOMAIN pool' = Textures /\ pool'[t] = first
      /\ \A u \in Held : pool'[u] = pool[u]
  <2>1. Held \subseteq Textures
    BY DEF Held, TypeOK
  <2> QED BY <1>1, <1>3, <2>1
<1>6. IsFiniteSet(Held')
  BY <1>3, FS_AddElement DEF PoolInv
<1>7. /\ \A p : p # first => LiveIn(p)' = LiveIn(p)
      /\ LiveIn(first)' = LiveIn(first) \cup {t} /\ t \notin LiveIn(first)
  BY <1>3, <1>4, <1>5 DEF LiveIn, Held
<1>8. \A p : IsFiniteSet(LiveIn(p))
  <2>1. \A p : LiveIn(p) \in SUBSET Held
    BY DEF LiveIn, Held
  <2> QED BY <2>1, FS_Subset DEF PoolInv
<1>9. Cardinality(LiveIn(first)') = Cardinality(LiveIn(first)) + 1
  BY <1>7, <1>8, FS_AddElement
<1>10. /\ pools \in Seq(0 .. Width - 1) /\ Len(pools) \in Nat
       /\ DOMAIN pools = 1 .. Len(pools)
  BY DEF PoolInv
<1>11. CASE Roomy # {}
  <2>1. first \in Roomy
    BY <1>1, <1>11 DEF IsFirst
  <2>2. /\ first \in DOMAIN pools /\ pools[first] < PerPool
        /\ pools[first] \in 0 .. Width - 1
    <3>1. first \in 1 .. Len(pools) /\ pools[first] < PerPool
      BY <2>1, <1>10 DEF Roomy
    <3>2. ASSUME NEW w, pools \in Seq(w) PROVE pools[first] \in w
      BY <3>1, <3>2
    <3> QED BY <1>10, <3>1, <3>2
  <2>3. pools' = [pools EXCEPT ![first] = @ + 1]
    BY <1>1, <2>2 DEF TakeSet
  <2>4. pools[first] + 1 \in 0 .. Width - 1 /\ pools[first] + 1 <= PerPool
    BY <2>2, PoolAssumption
  <2>5. pools' \in Seq(0 .. Width - 1) /\ DOMAIN pools' = DOMAIN pools
    BY <1>10, <2>2, <2>3, <2>4
  <2>6. PoolInv'
    BY <1>3, <1>4, <1>5, <1>6, <2>2, <2>5 DEF PoolInv
  <2>7. /\ pools'[first] = pools[first] + 1
        /\ \A p \in DOMAIN pools : p # first => pools'[p] = pools[p]
    BY <2>2, <2>3, <1>10
  <2>8. SetsCounted'
    BY <1>1, <1>7, <1>9, <2>2, <2>4, <2>5, <2>7 DEF SetsCounted
  <2> QED BY <2>6, <2>8
<1>12. CASE Roomy = {}
  <2>1. first = Len(pools) + 1
    BY <1>1, <1>12 DEF IsFirst
  <2>2. first \notin DOMAIN pools /\ 1 \in 0 .. Width - 1 /\ 1 <= PerPool
    BY <1>10, <2>1, PoolAssumption
  <2>3. pools' = Append(pools, 1)
    BY <1>1, <2>2 DEF TakeSet
  <2>4. /\ pools' \in Seq(0 .. Width - 1)
        /\ DOMAIN pools' = 1 .. Len(pools) + 1
        /\ pools'[Len(pools) + 1] = 1
        /\ \A p \in DOMAIN pools : pools'[p] = pools[p]
    BY <1>10, <2>2, <2>3
  <2>5. DOMAIN pools' = DOMAIN pools \cup {first}
    BY <1>10, <2>1, <2>4
  <2>6. PoolInv'
    BY <1>3, <1>4, <1>5, <1>6, <2>4, <2>5 DEF PoolInv
  <2>7. Cardinality(LiveIn(first)) = 0
    <3>1. LiveIn(first) = {}
      BY <2>2 DEF LiveIn, Held, PoolInv
    <3> QED BY <3>1, FS_EmptySet
  <2>8. SetsCounted'
    <3>1. ASSUME ~ mixed, NEW p \in DOMAIN pools'
          PROVE  pools'[p] = Cardinality(LiveIn(p)') /\ pools'[p] <= PerPool
      <4>1. CASE p = first
        BY <1>9, <2>1, <2>2, <2>4, <2>7, <4>1
      <4>2. CASE p # first
        BY <1>7, <2>4, <2>5, <3>1, <4>2 DEF SetsCounted
      <4> QED BY <4>1, <4>2
    <3> QED BY <1>1, <3>1 DEF SetsCounted
  <2> QED BY <2>6, <2>8
<1> QED BY <1>11, <1>12

\* No count of a pool wraps while it holds what is given back.
LEMMA Returned ==
    ASSUME NEW w \in Nat, NEW c \in Nat, NEW f \in Nat, f <= c, c < w
    PROVE  (c + w - f) % w = c - f
<1> DEFINE d == c - f
<1>1. d \in 0 .. w - 1 /\ c + w - f = d + w /\ w > 0
  OBVIOUS
<1> HIDE DEF d
<1>2. (d + w) % w = d
  BY <1>1
<1> QED BY <1>1, <1>2 DEF d

\* The sets of the textures that are destroyed return to their pools.
LEMMA FrameHeld ==
    ASSUME TypeOK, PoolInv, SetsCounted, PresentFrame
    PROVE  PoolInv' /\ SetsCounted'
<1>1. /\ EndFrame /\ InRange /\ ReleaseSets
      /\ strays' = strays \cap DOMAIN releasing'
      /\ mixed' = (mixed \/ strays' # strays) /\ pool' = pool
  BY DEF PresentFrame
<1>2. /\ owned' = owned
      /\ DOMAIN releasing' = {t \in DOMAIN releasing : ~ Releasable(t)}
  BY <1>1, EndFrameAlive
<1>3. DOMAIN releasing \cap owned = {}
  BY DEF TypeOK
<1>4. Held' \in SUBSET Held /\ IsFiniteSet(Held) /\ IsFiniteSet(Held')
  <2>1. Held' \in SUBSET Held
    BY <1>2 DEF Held
  <2> QED BY <2>1, FS_Subset DEF PoolInv
<1>5. /\ pools \in Seq(0 .. Width - 1) /\ DOMAIN pools = 1 .. Len(pools)
      /\ Width \in Nat \ {0} /\ PerPool \in Nat /\ PerPool < Width
  BY PoolAssumption DEF PoolInv
<1>6. \A p : /\ LiveIn(p) \in SUBSET Held /\ Freed(p) \in SUBSET Held
             /\ IsFiniteSet(LiveIn(p)) /\ IsFiniteSet(Freed(p))
             /\ Cardinality(LiveIn(p)) \in Nat /\ Cardinality(Freed(p)) \in Nat
  <2>1. \A p : LiveIn(p) \in SUBSET Held /\ Freed(p) \in SUBSET Held
    BY DEF LiveIn, Freed, Held
  <2> QED BY <1>4, <2>1, FS_Subset, FS_CardinalityType
<1>7. /\ DOMAIN pools' = DOMAIN pools
      /\ \A p \in DOMAIN pools :
           pools'[p] = (pools[p] + Width - Cardinality(Freed(p))) % Width
  BY <1>1 DEF ReleaseSets
<1>8. pools' \in Seq(0 .. Width - 1)
  <2>1. \A p \in DOMAIN pools : pools'[p] \in 0 .. Width - 1
    <3> TAKE p \in DOMAIN pools
    <3>1. pools[p] + Width - Cardinality(Freed(p)) \in Int
      BY <1>5, <1>6
    <3> QED BY <1>5, <1>7, <3>1
  <2>2. Len(pools) \in Nat /\ pools' = [p \in 1 .. Len(pools) |-> pools'[p]]
    BY <1>1, <1>5 DEF ReleaseSets
  <2> QED BY <1>5, <2>1, <2>2
<1>9. PoolInv'
  <2>1. DOMAIN pool' = Textures /\ strays' \subseteq DOMAIN releasing'
    BY <1>1 DEF PoolInv
  <2>2. ASSUME NEW t \in Held' \ strays' PROVE pool'[t] \in DOMAIN pools'
    <3>1. t \in Held \ strays
      BY <1>1, <1>2, <1>3, <1>4 DEF PoolInv, Held
    <3> QED BY <1>1, <1>7, <3>1 DEF PoolInv
  <2> QED BY <1>4, <1>8, <2>1, <2>2 DEF PoolInv
<1>10. ASSUME ~ mixed', NEW p \in DOMAIN pools
       PROVE  /\ pools'[p] = Cardinality(LiveIn(p)')
              /\ pools'[p] <= PerPool
  <2>1. strays' = strays /\ ~ mixed
    BY <1>1, <1>10
  <2>2. Freed(p) \subseteq LiveIn(p)
    BY <1>1, <1>2, <2>1 DEF Freed, LiveIn
  <2>3. LiveIn(p)' = LiveIn(p) \ Freed(p)
    BY <1>1, <1>2, <1>3, <2>1 DEF Freed, LiveIn
  <2>4. /\ Cardinality(LiveIn(p)') = Cardinality(LiveIn(p)) - Cardinality(Freed(p))
        /\ Cardinality(Freed(p)) <= Cardinality(LiveIn(p))
    <3>1. LiveIn(p) \cap Freed(p) = Freed(p)
      BY <2>2
    <3> QED BY <1>6, <2>2, <2>3, <3>1, FS_Difference, FS_Subset
  <2>5. pools[p] = Cardinality(LiveIn(p)) /\ pools[p] <= PerPool
    BY <2>1 DEF SetsCounted
  <2>6. (pools[p] + Width - Cardinality(Freed(p))) % Width
          = Cardinality(LiveIn(p)) - Cardinality(Freed(p))
    <3>1. PICK c \in Nat, f \in Nat : c = Cardinality(LiveIn(p))
                                     /\ f = Cardinality(Freed(p))
      BY <1>6
    <3>2. f <= c /\ c < Width
      BY <1>5, <2>4, <2>5, <3>1
    <3>3. (c + Width - f) % Width = c - f
      BY <1>5, <3>2, Returned
    <3>4. pools[p] = c
      BY <2>5, <3>1
    <3> QED BY <3>1, <3>3, <3>4
  <2>7. pools'[p] = Cardinality(LiveIn(p)) - Cardinality(Freed(p))
    BY <1>7, <2>6
  <2> QED BY <1>5, <1>6, <2>4, <2>5, <2>7
<1> QED BY <1>7, <1>9, <1>10 DEF SetsCounted

\* The first pool of a device, and the end of the device.
LEMMA DeviceHeld ==
    ASSUME TypeOK, PoolInv, SetsCounted, FirstPool \/ DeviceRemoved
    PROVE  PoolInv' /\ SetsCounted'
<1>1. CASE FirstPool
  <2>1. /\ pools = <<>> /\ pools' = <<0>>
        /\ UNCHANGED <<owned, releasing, pool, strays, mixed>>
    BY <1>1 DEF FirstPool, Ready, vars
  <2>2. Held' = Held /\ Held \ strays = {}
    BY <2>1 DEF Held, PoolInv
  <2>3. \A p : LiveIn(p)' = {}
    BY <2>1, <2>2 DEF LiveIn, Held
  <2>4. 0 \in 0 .. Width - 1 /\ 0 <= PerPool
    BY PoolAssumption
  <2>5. PoolInv'
    BY <2>1, <2>2, <2>4 DEF PoolInv
  <2>6. SetsCounted'
    BY <2>1, <2>3, <2>4, FS_EmptySet DEF SetsCounted
  <2> QED BY <2>5, <2>6
<1>2. CASE DeviceRemoved
  <2>1. /\ owned' = {} /\ releasing' = releasing /\ pools' = <<>>
        /\ pool' = pool /\ strays' = DOMAIN releasing
    BY <1>2 DEF DeviceRemoved, Removing, DestroyPools
  <2>2. Held' \in SUBSET Held /\ Held' = DOMAIN releasing
    BY <2>1 DEF Held
  <2>3. IsFiniteSet(Held')
    BY <2>2, FS_Subset DEF PoolInv
  <2> QED BY <2>1, <2>2, <2>3 DEF PoolInv, SetsCounted
<1> QED BY <1>1, <1>2

\* The invariant of the pools: textures of this device have their sets from
\* its pools, and each pool counts them.
THEOREM PoolInvariant == PoolSpec => [](TypeOK /\ PoolInv /\ SetsCounted)
<1> DEFINE Inv == TypeOK /\ PoolInv /\ SetsCounted
<1>1. PoolInit => Inv
  <2> SUFFICES ASSUME PoolInit PROVE Inv
    OBVIOUS
  <2>1. Held = {} /\ pools = <<>>
    BY DEF PoolInit, Init, Held
  <2> QED BY <2>1, TypeInit, FS_EmptySet DEF PoolInit, PoolInv, SetsCounted
<1>2. Inv /\ [PoolNext]_allVars => Inv'
  <2> SUFFICES ASSUME Inv, [PoolNext]_allVars PROVE Inv'
    OBVIOUS
  <2>1. TypeOK'
    BY PoolStep, TypeStep
  <2>2. CASE UNCHANGED allVars
    <3>1. UNCHANGED <<owned, releasing>> /\ UNCHANGED poolVars
      BY <2>2 DEF allVars, vars
    <3>2. PoolInv' /\ SetsCounted'
      BY <3>1, SameHeld DEF Alive
    <3> QED BY <2>1, <3>2
  <2>3. ASSUME NEW r \in Resources, Quiet(r) \/ GetRefused(r)
        PROVE  PoolInv' /\ SetsCounted'
    BY <2>3, QuietHeld, SameHeld
  <2> QED BY <2>1, <2>2, <2>3, AllocatedHeld, FrameHeld, DeviceHeld DEF PoolNext
<1> QED BY <1>1, <1>2, PTL DEF PoolSpec

\* Every pool counts the sets taken from it, until a stray returns one.
THEOREM SetsAreCounted == PoolSpec => []SetsCounted
BY PoolInvariant, PTL

-----------------------------------------------------------------------------
(* Refused when full                                                       *)

\* What is spread evenly over m pools, n in each, counts m * n.
LEMMA EvenlySpread ==
    ASSUME NEW S, NEW m \in Nat, NEW n \in Nat, NEW f \in [S -> 1 .. m],
           \A p \in 1 .. m : \E T \in SUBSET S :
              /\ IsFiniteSet(T) /\ Cardinality(T) = n
              /\ \A t \in S : t \in T <=> f[t] = p
    PROVE  Cardinality(S) = m * n
<1> DEFINE In(p) == {t \in S : f[t] = p}
           Number(p) == CHOOSE b : b \in Bijection(In(p), 1 .. n)
           Place == [t \in S |-> <<f[t], Number(f[t])[t]>>]
           Places == (1 .. m) \X (1 .. n)
<1>1. /\ IsFiniteSet(1 .. m) /\ Cardinality(1 .. m) = m
      /\ IsFiniteSet(1 .. n) /\ Cardinality(1 .. n) = n
  BY FS_Interval
<1>2. IsFiniteSet(Places) /\ Cardinality(Places) = m * n
  <2>1. ASSUME NEW A, NEW B, IsFiniteSet(A), IsFiniteSet(B),
               Cardinality(A) = m, Cardinality(B) = n
        PROVE  IsFiniteSet(A \X B) /\ Cardinality(A \X B) = m * n
    BY <2>1, FS_Product
  <2> QED BY <1>1, <2>1
<1>3. ASSUME NEW p \in 1 .. m
      PROVE  Number(p) \in Bijection(In(p), 1 .. n)
  <2>1. PICK T \in SUBSET S : /\ IsFiniteSet(T) /\ Cardinality(T) = n
                              /\ \A t \in S : t \in T <=> f[t] = p
    OBVIOUS
  <2>2. In(p) = T
    BY <2>1
  <2>3. ExistsBijection(T, 1 .. n)
    BY <1>1, <2>1, FS_SameCardinalityBij
  <2> HIDE DEF In
  <2> QED BY <2>2, <2>3 DEF ExistsBijection
<1> HIDE DEF Number
<1>4. ASSUME NEW p \in 1 .. m
      PROVE  /\ Number(p) \in [In(p) -> 1 .. n]
             /\ \A t, u \in In(p) : Number(p)[t] = Number(p)[u] => t = u
             /\ \A k \in 1 .. n : \E t \in In(p) : Number(p)[t] = k
  <2>1. Number(p) \in Bijection(In(p), 1 .. n)
    BY <1>3
  <2> HIDE DEF In
  <2>2. ASSUME NEW A, NEW B, NEW b \in Bijection(A, B)
        PROVE  /\ b \in [A -> B] /\ \A t, u \in A : b[t] = b[u] => t = u
               /\ \A k \in B : \E t \in A : b[t] = k
    BY Fun_BijectionProperties
  <2>3. Number(p) \in [In(p) -> 1 .. n]
    BY <2>1, <2>2
  <2>4. \A t, u \in In(p) : Number(p)[t] = Number(p)[u] => t = u
    BY <2>1, <2>2
  <2>5. \A k \in 1 .. n : \E t \in In(p) : Number(p)[t] = k
    <3>1. ASSUME NEW B, Number(p) \in Bijection(In(p), B)
          PROVE  \A k \in B : \E t \in In(p) : Number(p)[t] = k
      BY <2>2, <3>1
    <3> DEFINE N == 1 .. n
    <3>2. Number(p) \in Bijection(In(p), N)
      BY <2>1
    <3> HIDE DEF N
    <3>3. \A k \in N : \E t \in In(p) : Number(p)[t] = k
      BY <3>1, <3>2
    <3> QED BY <3>3 DEF N
  <2> QED BY <2>3, <2>4, <2>5
<1>5. \A t \in S : f[t] \in 1 .. m /\ t \in In(f[t])
  OBVIOUS
<1>6. Place \in [S -> Places]
  <2>1. ASSUME NEW t \in S PROVE Number(f[t])[t] \in 1 .. n
    <3> HIDE DEF In
    <3>1. Number(f[t]) \in [In(f[t]) -> 1 .. n] /\ t \in In(f[t])
      BY <1>4, <1>5
    <3> QED BY <3>1
  <2> QED BY <1>5, <2>1
<1>7. ASSUME NEW t \in S, NEW u \in S, Place[t] = Place[u] PROVE t = u
  <2>1. f[t] = f[u] /\ Number(f[t])[t] = Number(f[u])[u]
    BY <1>7
  <2>2. f[t] \in 1 .. m /\ t \in In(f[t]) /\ u \in In(f[t])
    BY <1>5, <2>1
  <2> HIDE DEF In
  <2> QED BY <1>4, <2>1, <2>2
<1>8. ASSUME NEW x \in Places PROVE \E t \in S : Place[t] = x
  <2>1. PICK p \in 1 .. m, k \in 1 .. n : x = <<p, k>>
    OBVIOUS
  <2>2. PICK t \in In(p) : Number(p)[t] = k
    BY <1>4
  <2> QED BY <2>1, <2>2
<1> HIDE DEF Place, Places, In
<1>9. Place \in Bijection(S, Places)
  BY <1>6, <1>7, <1>8, Fun_IsBij
<1>10. ExistsBijection(Places, S)
  BY <1>9, Fun_ExistsBijSymmetric DEF ExistsBijection
<1> QED BY <1>2, <1>10, FS_Bijection

\* A device has no more pools than it has memory for.
PoolsFit == Len(pools) <= MaxPools

\* A pool is added only while there are fewer.
LEMMA PoolsFitStep ==
    ASSUME PoolInv, PoolsFit, [PoolNext]_allVars
    PROVE  PoolsFit'
<1>1. /\ pools \in Seq(0 .. Width - 1) /\ Len(pools) \in Nat
      /\ DOMAIN pools = 1 .. Len(pools) /\ MaxPools \in Nat \ {0}
  BY PoolAssumption DEF PoolInv
<1>2. ASSUME NEW p \in 1 .. MaxPools, IsFirst(p), TakeSet(p) PROVE PoolsFit'
  <2>1. CASE p \in DOMAIN pools
    BY <1>1, <1>2, <2>1 DEF TakeSet, PoolsFit
  <2>2. CASE p \notin DOMAIN pools
    <3>1. p = Len(pools) + 1
      BY <1>2, <2>2 DEF IsFirst, Roomy
    <3>2. Len(pools') = Len(pools) + 1
      BY <1>1, <1>2, <2>2 DEF TakeSet
    <3> QED BY <1>1, <3>1, <3>2 DEF PoolsFit
  <2> QED BY <2>1, <2>2
<1>3. CASE FirstPool
  <2>1. Len(pools') = 1
    BY <1>3 DEF FirstPool
  <2> QED BY <1>1, <2>1 DEF PoolsFit
<1>4. CASE PresentFrame
  <2>1. pools' = [p \in 1 .. Len(pools) |->
                    (pools[p] + Width - Cardinality(Freed(p))) % Width]
    BY <1>1, <1>4 DEF PresentFrame, ReleaseSets
  <2>2. Len(pools') = Len(pools)
    BY <1>1, <2>1
  <2> QED BY <2>2 DEF PoolsFit
<1>5. CASE DeviceRemoved
  <2>1. Len(pools') = 0
    BY <1>5 DEF DeviceRemoved, DestroyPools
  <2> QED BY <1>1, <2>1 DEF PoolsFit
<1>6. CASE pools' = pools
  BY <1>6 DEF PoolsFit
<1> QED BY <1>2, <1>3, <1>4, <1>5, <1>6
        DEF PoolNext, Quiet, GetAllocatedSet, GetRefused, allVars, poolVars

\* When no pool has room and no more can be made, every set is taken.
LEMMA FullWhenNoRoom ==
    ASSUME TypeOK, PoolInv, SetsCounted, PoolsFit
    PROVE  RefusedWhenFull
<1> SUFFICES ASSUME ~ mixed, Roomy = {}, Len(pools) >= MaxPools
             PROVE  Cardinality(Held \ strays) = MaxPools * PerPool
  BY DEF RefusedWhenFull, Held
<1> DEFINE S == Held \ strays
           f == [t \in S |-> pool[t]]
<1>1. /\ pools \in Seq(0 .. Width - 1) /\ Len(pools) \in Nat
      /\ MaxPools \in Nat /\ PerPool \in Nat
  BY PoolAssumption DEF PoolInv
<1>2. DOMAIN pools = 1 .. MaxPools
  <2>1. DOMAIN pools = 1 .. Len(pools)
    BY <1>1
  <2>2. Len(pools) = MaxPools
    BY <1>1 DEF PoolsFit
  <2> QED BY <2>1, <2>2
<1>3. f \in [S -> 1 .. MaxPools]
  BY <1>2 DEF PoolInv
<1>4. ASSUME NEW p \in 1 .. MaxPools
      PROVE  \E T \in SUBSET S : /\ IsFiniteSet(T) /\ Cardinality(T) = PerPool
                                 /\ \A t \in S : t \in T <=> f[t] = p
  <2>1. LiveIn(p) \in SUBSET S /\ \A t \in S : t \in LiveIn(p) <=> f[t] = p
    BY DEF LiveIn, Held
  <2>2. LiveIn(p) \in SUBSET Held
    BY DEF LiveIn, Held
  <2>3. IsFiniteSet(LiveIn(p))
    BY <2>2, FS_Subset DEF PoolInv
  <2>4. pools[p] = Cardinality(LiveIn(p)) /\ pools[p] <= PerPool
    BY <1>2 DEF SetsCounted
  <2>5. ~ pools[p] < PerPool
    BY <1>2 DEF Roomy
  <2>6. Cardinality(LiveIn(p)) \in Nat
    BY <2>3, FS_CardinalityType
  <2>7. Cardinality(LiveIn(p)) = PerPool
    BY <1>1, <2>4, <2>5, <2>6
  <2> QED BY <2>1, <2>3, <2>7
<1> HIDE DEF S, f
<1>5. \A m, n \in Nat : \A g \in [S -> 1 .. m] :
        (\A p \in 1 .. m : \E T \in SUBSET S :
            /\ IsFiniteSet(T) /\ Cardinality(T) = n
            /\ \A t \in S : t \in T <=> g[t] = p)
        => Cardinality(S) = m * n
  BY EvenlySpread, Zenon
<1>6. \A p \in 1 .. MaxPools : \E T \in SUBSET S :
         /\ IsFiniteSet(T) /\ Cardinality(T) = PerPool
         /\ \A t \in S : t \in T <=> f[t] = p
  BY <1>4
<1>7. Cardinality(S) = MaxPools * PerPool
  BY <1>1, <1>3, <1>5, <1>6, Zenon
<1> QED BY <1>7 DEF S

\* No image is refused while a device could still have a set for it.
THEOREM OnlyRefusedWhenFull == PoolSpec => []RefusedWhenFull
<1>1. PoolInit => PoolsFit
  BY PoolAssumption DEF PoolInit, PoolsFit
<1> QED BY <1>1, PoolInvariant, PoolsFitStep, FullWhenNoRoom, PTL DEF PoolSpec
=============================================================================
