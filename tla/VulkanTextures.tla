--------------------------- MODULE VulkanTextures ---------------------------
(***************************************************************************)
(* The image resources of the Vulkan hook with the descriptor sets of their *)
(* textures (src/Linux/VulkanHook.cpp): pools are made when all are full,   *)
(* a texture takes a set of the first pool with room when it is allocated   *)
(* and gives it back when its last shared_ptr goes, and the pools go with   *)
(* the device.  The release list does not: its textures give their sets     *)
(* back to whatever pools the next device has.                              *)
(***************************************************************************)
EXTENDS ImageResources, FiniteSets

CONSTANTS PerPool,   \* MaxDescriptorCountPerPool
          MaxPools,  \* pools a device has memory for
          Width      \* 2^32: UsedDescriptors is a uint32_t

ASSUME PoolAssumption == /\ PerPool \in Nat \ {0} /\ MaxPools \in Nat \ {0}
                         /\ Width \in Nat /\ Width > PerPool

VARIABLES pools,   \* UsedDescriptors of each pool; none while removed
          pool,    \* ImageDescriptorId: the pool each texture has its set from
          strays,  \* history: released textures of devices that are gone
          mixed    \* history: a stray gave its set back to this device

poolVars == <<pools, pool, strays, mixed>>
allVars == <<vars, poolVars>>

PoolInit == Init /\ pools = <<>> /\ pool = [t \in Textures |-> 0]
                 /\ strays = {} /\ mixed = FALSE

Ready == pools # <<>>

\* _PrepareForOverlay makes the first pool before the hook is ready.
FirstPool == /\ ~ Ready
             /\ pools' = <<0>>
             /\ UNCHANGED <<vars, pool, strays, mixed>>

\* The pools _GetFreeDescriptorSet finds room in.
Roomy == {p \in DOMAIN pools : pools[p] < PerPool}

\* Mutant: the descriptor is not counted.
TakeSetUncounted(p) == pools' = IF p \in DOMAIN pools THEN pools
                                ELSE Append(pools, 1)

\* _GetFreeDescriptorSetFromPool, in a new pool if p is none yet.
TakeSet(p) == pools' = IF p \in DOMAIN pools
                       THEN [pools EXCEPT ![p] = @ + 1] ELSE Append(pools, 1)

\* The pool _GetFreeDescriptorSet takes a set from: the first with room, or a
\* new one.
IsFirst(p) == IF Roomy = {} THEN p = Len(pools) + 1
              ELSE p \in Roomy /\ \A q \in Roomy : p <= q

\* AllocImageResource succeeds.
GetAllocatedSet(r) ==
    \E p \in 1 .. MaxPools :
        /\ Ready /\ IsFirst(p)
        /\ GetAllocated(r)
        /\ TakeSet(p)
        /\ pool' = [t \in Textures |-> IF t \in owned' \ owned THEN p
                                       ELSE pool[t]]
        /\ UNCHANGED <<strays, mixed>>

\* AllocImageResource fails: no pool has room, and none can be made.
GetRefused(r) ==
    /\ Ready /\ Roomy = {} /\ Len(pools) >= MaxPools
    /\ ~ Alive(res[r].cur.tex)
    /\ GetOld(r)
    /\ UNCHANGED poolVars

\* Textures destroyed in this frame that had their set from pool p.
Freed(p) == {t \in DOMAIN releasing : Releasable(t) /\ pool[t] = p}

\* Mutant: the set is not given back.
KeepSets == pools' = pools

\* _ReleaseDescriptor, for each.
ReleaseSets ==
    pools' = [p \in DOMAIN pools |->
                (pools[p] + Width - Cardinality(Freed(p))) % Width]

\* The index of a stray's pool is in range.  Otherwise _DescriptorsPools is
\* read beyond its end, where the model stops.
InRange == \A t \in DOMAIN releasing : Releasable(t) => pool[t] \in DOMAIN pools

PresentFrame ==
    /\ Ready /\ InRange
    /\ EndFrame
    /\ ReleaseSets
    /\ strays' = strays \cap DOMAIN releasing'
    /\ mixed' = (mixed \/ strays' # strays)
    /\ UNCHANGED pool

\* Mutant: the pools survive the device.
KeepPools == pools' = pools

\* _DestroyDescriptorPools.
DestroyPools == pools' = <<>>

\* _ResetRenderState(Removing).
DeviceRemoved ==
    /\ Ready
    /\ Removing
    /\ DestroyPools
    /\ strays' = DOMAIN releasing
    /\ mixed' = FALSE
    /\ UNCHANGED pool

\* What the application does without making or destroying a texture.
Quiet(r) ==
    /\ \/ \E i \in Images : AttachResource(r, i)
       \/ ClearAttachedResource(r)
       \/ \E clear \in BOOLEAN : Unload(r, clear)
       \/ Ready /\ GetLoaded(r)
       \/ Ready /\ GetOld(r) /\ (res[r].data = None \/ Alive(res[r].cur.tex))
    /\ UNCHANGED poolVars

PoolNext == \/ \E r \in Resources : Quiet(r) \/ GetAllocatedSet(r) \/ GetRefused(r)
            \/ FirstPool \/ PresentFrame \/ DeviceRemoved

PoolSpec == PoolInit /\ [][PoolNext]_allVars

-----------------------------------------------------------------------------
(* Properties                                                              *)

LiveIn(p) == {t \in owned \cup DOMAIN releasing : pool[t] = p} \ strays

\* Every pool counts the sets that textures have from it, in whatever order
\* textures come and go, until a texture released on a device that is gone
\* gives its set back to this one: so no set is lost, and none allocated
\* beyond what the pool was made for.
SetsCounted ==
    ~ mixed => \A p \in DOMAIN pools :
                  /\ pools[p] = Cardinality(LiveIn(p))
                  /\ pools[p] <= PerPool

\* An image is refused only when all the sets a device can have are in use.
RefusedWhenFull ==
    Ready /\ ~ mixed /\ Roomy = {} /\ Len(pools) >= MaxPools
        => Cardinality((owned \cup DOMAIN releasing) \ strays)
             = MaxPools * PerPool
=============================================================================
