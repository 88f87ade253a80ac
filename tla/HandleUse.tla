----------------------------- MODULE HandleUse ------------------------------
(***************************************************************************)
(* The handle allocator of mpi-serial with a caller that keeps to the      *)
(* contract: it frees the handles it holds, each of them once.             *)
(***************************************************************************)
EXTENDS HandlePool

VARIABLES pool,      \* the static variables of handles.c
          held,      \* the handles the caller holds
          free,      \* history: the items of the free list, first one first
          aborted    \* abort() was called

vars == <<pool, held, free, aborted>>

Init == /\ pool = UninitPool
        /\ held = {}
        /\ free = <<>>
        /\ aborted = FALSE

FreeList == IF pool.ready THEN free ELSE RestOfBlock(0)

\* mpi_alloc_handle
Alloc ==
  /\ ~aborted
  /\ IF Full(pool)
     THEN aborted' = TRUE /\ UNCHANGED <<pool, held, free>>
     ELSE /\ pool' = AllocHandle(pool)
          /\ held' = held \cup {AllocatedHandle(pool)}
          /\ free' = IF FreeList # <<>> THEN Tail(FreeList)
                                        ELSE RestOfBlock(Ready(pool).nblocks)
          /\ UNCHANGED aborted

\* mpi_free_handle, which aborts when the handles are not initialised
Free(h) ==
  /\ ~aborted
  /\ h \in held
  /\ IF pool.ready
     THEN /\ pool' = FreeHandle(pool, h)
          /\ held' = held \ {h}
          /\ free' = <<h>> \o free
          /\ UNCHANGED aborted
     ELSE aborted' = TRUE /\ UNCHANGED <<pool, held, free>>

\* mpi_destroy_handles, called by MPI_Finalize: nothing that was held before
\* may be used after it
Destroy ==
  /\ ~aborted
  /\ pool.ready
  /\ pool' = DestroyHandles(pool)
  /\ held' = {}
  /\ free' = <<>>
  /\ UNCHANGED aborted

Next == Alloc \/ (\E h \in held : Free(h)) \/ Destroy

Spec == Init /\ [][Next]_vars

-----------------------------------------------------------------------------
(* Properties *)

\* Every variable has its type: the links stay inside the pool's blocks.
TypeOK == /\ pool \in Pools
          /\ aborted \in BOOLEAN
          /\ IF pool.ready THEN ShapeOK(pool, free, held)
                           ELSE held = {} /\ free = <<>>

\* The chain that starts at nextfree visits the free items, each of them once,
\* and ends: no order of allocations and frees makes it branch or close on
\* itself.
FreeListSound == pool.ready => Chained(pool, free)

\* An item is on the free list or in use, never both and never neither: no
\* handle is lost when blocks are added, none is given out twice.
FreeOrHeld == pool.ready => Partitioned(pool, free, held)

\* An item in use has no successor, so the test that a CHECKS build makes when
\* a handle is freed ("handle still in use") never stops a correct program.
HeldUnlinked == pool.ready => Unlinked(pool, held)

\* The allocator implements the abstract store of handles: it never returns
\* a handle in use, and it aborts only when every handle is in use.
Store == INSTANCE HandleStore WITH Handles <- Items(MAX_BLOCKS) \ {NULL}
StoreSpec == Store!Spec

\* "storage will grow as needed and will remain at the high water mark"
\* (handles.c:19): a block is added only when everything is in use, and none
\* is given back while the library is initialised.
HighWaterMark ==
  [][pool.ready /\ pool'.ready =>
       /\ pool'.nblocks >= pool.nblocks
       /\ pool'.nblocks > pool.nblocks => held = Usable(pool)]_vars

=============================================================================
