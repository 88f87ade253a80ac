-------------------------- MODULE HandleUse_proofs --------------------------
(***************************************************************************)
(* The free list of handles.c stays sound whatever a caller that keeps to  *)
(* the contract does, and the allocator implements a store of handles.     *)
(***************************************************************************)
EXTENDS HandleUse, SerialData_proofs

-----------------------------------------------------------------------------
(* The specification *)

IInv == TypeOK /\ (pool.ready => Sound(pool, free, held))

\* The pool that a call to mpi_alloc_handle starts from is always sound.
LEMMA ReadySound ==
  ASSUME IInv
  PROVE  /\ Sound(Ready(pool), FreeList, held)
         /\ AllocatedHandle(pool) = AllocatedHandle(Ready(pool))
         /\ AllocHandle(pool) = AllocHandle(Ready(pool))
         /\ Full(pool) <=> Full(Ready(pool))
<1>1. CASE pool.ready
  BY <1>1 DEF IInv, Ready, FreeList
<1>2. CASE ~pool.ready
  <2>1. Ready(pool) = InitPool /\ FreeList = RestOfBlock(0) /\ held = {}
    BY <1>2 DEF IInv, TypeOK, Ready, FreeList
  <2>2. Ready(InitPool) = InitPool
    BY DEF Ready
  <2> QED
    BY <2>1, <2>2, InitSound DEF AllocatedHandle, AllocHandle, Full
<1> QED BY <1>1, <1>2

\* What one allocation does, whichever way mpi_alloc_handle finds an item.
LEMMA AllocSound ==
  ASSUME IInv, ~Full(pool), Alloc
  PROVE  /\ Sound(pool', free', held')
         /\ AllocatedHandle(pool) \in (Items(MAX_BLOCKS) \ {NULL}) \ held
         /\ held' = held \cup {AllocatedHandle(pool)}
         /\ aborted' = aborted
         /\ Ready(pool).nblocks <= pool'.nblocks
         /\ Ready(pool).nblocks < pool'.nblocks => held = Usable(Ready(pool))
<1> DEFINE p == Ready(pool)
           fr == FreeList
<1>1. /\ Sound(p, fr, held) /\ AllocatedHandle(pool) = AllocatedHandle(p)
      /\ AllocHandle(pool) = AllocHandle(p) /\ ~Full(p)
  BY ReadySound
<1>2. /\ pool' = AllocHandle(p) /\ held' = held \cup {AllocatedHandle(p)}
      /\ free' = IF fr # <<>> THEN Tail(fr) ELSE RestOfBlock(p.nblocks)
      /\ aborted' = aborted
  BY <1>1 DEF Alloc
<1>3. p.nblocks \in Nat /\ p.nblocks <= MAX_BLOCKS /\ MAX_BLOCKS \in Nat
  BY <1>1, PoolAssumption DEF Sound, Pools
<1> HIDE DEF p, fr
<1>4. CASE fr # <<>>
  <2>1. /\ Sound(AllocHandle(p), Tail(fr), held \cup {fr[1]})
        /\ AllocatedHandle(p) = fr[1] /\ fr[1] \in Usable(p) /\ fr[1] \notin held
        /\ AllocHandle(p).nblocks = p.nblocks
    BY <1>1, <1>4, PopSound
  <2>2. Usable(p) \subseteq Items(MAX_BLOCKS) \ {NULL}
    BY <1>3, HandleMonotonic DEF Usable
  <2> QED BY <1>1, <1>2, <1>3, <1>4, <2>1, <2>2 DEF p
<1>5. CASE fr = <<>>
  <2>1. /\ AllocatedHandle(p) \in Items(MAX_BLOCKS) \ {NULL}
        /\ AllocatedHandle(p) \notin held
        /\ AllocHandle(p).nblocks = p.nblocks + 1
        /\ held = Usable(p)
        /\ Sound(AllocHandle(p), RestOfBlock(p.nblocks),
                 held \cup {AllocatedHandle(p)})
    BY <1>1, <1>5, GrowSound
  <2> QED BY <1>1, <1>2, <1>3, <1>5, <2>1 DEF p
<1> QED BY <1>4, <1>5

LEMMA InitIInv == Init => IInv
<1> SUFFICES ASSUME Init PROVE IInv
  OBVIOUS
<1>1. UninitPool \in Pools
  <2>1. Items(0) = {} /\ Handle(0, 0) = 0
    BY HandleFacts DEF Items
  <2>2. <<>> \in [Items(0) -> Items(0)]
    BY <2>1
  <2>3. NULL \in Items(MAX_BLOCKS) /\ 0 \in 0 .. MAX_BLOCKS
    <3>1. Handle(1, 0) <= Handle(MAX_BLOCKS, 0) /\ Handle(MAX_BLOCKS, 0) \in Nat
      BY PoolAssumption, HandleMonotonic
    <3>2. Handle(1, 0) >= 2 /\ Handle(1, 0) \in Nat
      BY PoolAssumption DEF Handle
    <3> QED BY <3>1, <3>2, PoolAssumption DEF Items, NULL
  <2> QED BY <2>2, <2>3 DEF UninitPool, Pools
<1> QED BY <1>1 DEF Init, IInv, TypeOK, UninitPool

LEMMA NextIInv == IInv /\ [Next]_vars => IInv'
<1> SUFFICES ASSUME IInv, [Next]_vars PROVE IInv'
  OBVIOUS
<1> USE DEF IInv
<1>1. CASE Alloc
  <2>1. CASE Full(pool)
    BY <1>1, <2>1 DEF Alloc, TypeOK
  <2>2. CASE ~Full(pool)
    BY <1>1, <2>2, AllocSound DEF Sound, TypeOK
  <2> QED BY <2>1, <2>2
<1>2. ASSUME NEW h \in held, Free(h) PROVE IInv'
  <2>1. pool.ready
    BY DEF TypeOK
  <2>2. pool' = FreeHandle(pool, h) /\ held' = held \ {h} /\ free' = <<h>> \o free
        /\ aborted' = aborted
    BY <1>2, <2>1 DEF Free
  <2>3. Sound(pool', free', held')
    BY <2>1, <2>2, FreeSound
  <2> QED BY <2>2, <2>3 DEF Sound, TypeOK
<1>3. CASE Destroy
  BY <1>3 DEF Destroy, DestroyHandles, TypeOK, Pools
<1>4. CASE UNCHANGED vars
  BY <1>4 DEF vars, TypeOK
<1> QED BY <1>1, <1>2, <1>3, <1>4 DEF Next

THEOREM IInvInvariant == Spec => []IInv
<1>1. Init => IInv
  BY InitIInv
<1>2. IInv /\ [Next]_vars => IInv'
  BY NextIInv
<1> QED BY <1>1, <1>2, PTL DEF Spec

\* The variables keep their types.
THEOREM TypeCorrect == Spec => []TypeOK
<1>1. IInv => TypeOK
  BY DEF IInv
<1> QED BY <1>1, IInvInvariant, PTL

\* The free list stays a chain without repetition that ends.
THEOREM FreeListIsSound == Spec => []FreeListSound
<1>1. IInv => FreeListSound
  BY DEF IInv, Sound, FreeListSound
<1> QED BY <1>1, IInvInvariant, PTL

\* No item is lost and none is both free and in use.
THEOREM ItemsArePartitioned == Spec => []FreeOrHeld
<1>1. IInv => FreeOrHeld
  BY DEF IInv, Sound, FreeOrHeld
<1> QED BY <1>1, IInvInvariant, PTL

\* The test of a CHECKS build never stops a caller that keeps to the contract.
THEOREM HeldItemsAreUnlinked == Spec => []HeldUnlinked
<1>1. IInv => HeldUnlinked
  BY DEF IInv, Sound, HeldUnlinked
<1> QED BY <1>1, IInvInvariant, PTL

\* The storage stays at its high-water mark.
THEOREM StorageGrowsOnlyWhenFull == Spec => HighWaterMark
<1> DEFINE A == pool.ready /\ pool'.ready =>
                  /\ pool'.nblocks >= pool.nblocks
                  /\ pool'.nblocks > pool.nblocks => held = Usable(pool)
<1>1. IInv /\ [Next]_vars => [A]_vars
  <2> SUFFICES ASSUME IInv, Next, pool.ready, pool'.ready PROVE A
    OBVIOUS
  <2>0. pool.nblocks \in Nat /\ Ready(pool) = pool
    BY PoolAssumption DEF IInv, TypeOK, Pools, Ready
  <2>1. CASE Alloc
    <3>1. CASE Full(pool)
      BY <2>0, <2>1, <3>1 DEF Alloc
    <3>2. CASE ~Full(pool)
      BY <2>0, <2>1, <3>2, AllocSound DEF IInv, TypeOK, Pools
    <3> QED BY <3>1, <3>2
  <2>2. ASSUME NEW h \in held, Free(h) PROVE A
    <3>1. pool'.nblocks = pool.nblocks
      BY <2>2, FreeSound DEF Free, IInv
    <3> QED BY <2>0, <3>1
  <2>3. CASE Destroy
    BY <2>3 DEF Destroy, DestroyHandles, IInv, TypeOK, Pools
  <2> QED BY <2>1, <2>2, <2>3 DEF Next
<1> QED BY <1>1, IInvInvariant, PTL DEF Spec, HighWaterMark

\* handles.c implements the abstract store of handles.
THEOREM ImplementsStore == Spec => StoreSpec
<1> DEFINE All == Items(MAX_BLOCKS) \ {NULL}
<1>1. Init => Store!Init
  BY DEF Init, Store!Init
<1>2. IInv /\ [Next]_vars => [Store!Next]_(Store!vars)
  <2> SUFFICES ASSUME IInv, [Next]_vars PROVE [Store!Next]_(Store!vars)
    OBVIOUS
  <2>1. CASE Alloc
    <3>1. CASE Full(pool)
      <4>1. held = All
        <5>1. Sound(Ready(pool), FreeList, held) /\ Ready(pool).nextfree = NULL
              /\ Ready(pool).nblocks = MAX_BLOCKS
          BY <3>1, ReadySound DEF Full
        <5>2. FreeList = <<>>
          <6>1. ASSUME FreeList # <<>> PROVE FALSE
            <7>1. FreeList \in Seq(Usable(Ready(pool)))
              BY <5>1 DEF Sound, ShapeOK
            <7>2. FreeList[1] \in Usable(Ready(pool))
              BY <6>1, <7>1
            <7> QED BY <5>1, <6>1, <7>2 DEF Sound, Chained, Usable
          <6> QED BY <6>1
        <5>3. \A h \in Usable(Ready(pool)) : h \in held
          BY <5>1, <5>2, EmptySeq DEF Sound, Partitioned
        <5> QED BY <5>1, <5>3 DEF Usable, Sound, ShapeOK
      <4>2. aborted' = TRUE /\ held' = held
        BY <2>1, <3>1 DEF Alloc
      <4> QED BY <4>1, <4>2 DEF Store!Next, Store!Exhausted
    <3>2. CASE ~Full(pool)
      <4>1. /\ AllocatedHandle(pool) \in All \ held
            /\ held' = held \cup {AllocatedHandle(pool)} /\ aborted' = aborted
        BY <2>1, <3>2, AllocSound
      <4>2. ~aborted
        BY <2>1 DEF Alloc
      <4> QED BY <4>1, <4>2 DEF Store!Next, Store!Alloc
    <3> QED BY <3>1, <3>2
  <2>2. ASSUME NEW h \in held, Free(h) PROVE Store!Next
    <3>1. pool.ready /\ h \in All
      <4>1. pool.ready /\ h \in Usable(pool)
        BY DEF IInv, TypeOK, Sound, ShapeOK
      <4>2. pool.nblocks \in Nat /\ pool.nblocks <= MAX_BLOCKS /\ MAX_BLOCKS \in Nat
        BY PoolAssumption DEF IInv, TypeOK, Pools
      <4> QED BY <4>1, <4>2, HandleMonotonic DEF Usable
    <3>2. ~aborted /\ held' = held \ {h} /\ aborted' = aborted
      BY <2>2, <3>1 DEF Free
    <3> QED BY <3>1, <3>2 DEF Store!Next, Store!Free
  <2>3. CASE Destroy
    BY <2>3 DEF Destroy, Store!Next, Store!Clear
  <2>4. CASE UNCHANGED vars
    BY <2>4 DEF vars, Store!vars
  <2> QED BY <2>1, <2>2, <2>3, <2>4 DEF Next
<1> QED BY <1>1, <1>2, IInvInvariant, PTL DEF Spec, StoreSpec, Store!Spec

=============================================================================
