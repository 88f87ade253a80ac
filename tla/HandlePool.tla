----------------------------- MODULE HandlePool -----------------------------
(***************************************************************************)
(* The handle allocator of mpi-serial (lib/mct/mpi-serial/handles.c).      *)
(*                                                                         *)
(* Every communicator and every request of the one-process MPI is an item  *)
(* of an array of blocks; the integer handle is the item's position, and   *)
(* items that are not in use are linked through their next field.  A       *)
(* pointer to an item is modelled by the handle of the item, the C null    *)
(* pointer by 0: item 0 of block 0 is never given out.                     *)
(*                                                                         *)
(* The allocator is written as functions from a pool to a pool, so that    *)
(* the modules that allocate inside a larger step can compose them.        *)
(***************************************************************************)
EXTENDS Integers, Sequences, SequencesExt

CONSTANTS BLOCK_ITEMS,    \* items of a block (256 in the code)
          MAX_BLOCKS      \* blocks that can ever be allocated (1024)

ASSUME PoolAssumption == /\ BLOCK_ITEMS \in Nat /\ BLOCK_ITEMS >= 2
                         /\ MAX_BLOCKS \in Nat /\ MAX_BLOCKS >= 1

NULL == 0

Handle(block, index) == block * BLOCK_ITEMS + index

Items(n) == 0 .. Handle(n, 0) - 1

BlockItems(block) == Handle(block, 0) .. Handle(block + 1, 0) - 1

-----------------------------------------------------------------------------
(* A pool: what handles.c keeps in its static variables.                   *)

UninitPool == [ready |-> FALSE, nblocks |-> 0, next |-> <<>>, nextfree |-> NULL]

\* init_block with the two assignments that follow every call of it: the
\* first item is taken out, the others are linked in order, the last one ends
\* the free list.
BlockLinksUnended(block) ==       \* mutant: the last item keeps a successor
  [h \in BlockItems(block) |-> IF h = Handle(block, 0) THEN NULL ELSE h + 1]

BlockLinks(block) ==
  [h \in BlockItems(block) |->
     IF h \in {Handle(block, 0), Handle(block + 1, 0) - 1} THEN NULL ELSE h + 1]

InitPool == [ready    |-> TRUE,
             nblocks  |-> 1,
             next     |-> BlockLinks(0),
             nextfree |-> Handle(0, 1)]

\* The pool a call works on: mpi_alloc_handle initialises on first use.
Ready(p) == IF p.ready THEN p ELSE InitPool

FullAtLastBlock(p) == Ready(p).nblocks = MAX_BLOCKS   \* mutant: nextfree ignored

Full(p) == /\ Ready(p).nextfree = NULL
           /\ Ready(p).nblocks = MAX_BLOCKS

\* The handle mpi_alloc_handle returns: the head of the free list, or the
\* first item of a new block.
AllocatedHandleOldBlock(p) ==     \* mutant: numbered with the previous block
  LET q == Ready(p)
  IN  IF q.nextfree # NULL THEN q.nextfree ELSE Handle(q.nblocks - 1, 0)

AllocatedHandle(p) ==
  LET q == Ready(p)
  IN  IF q.nextfree # NULL THEN q.nextfree ELSE Handle(q.nblocks, 0)

\* Nothing is free: blocks[nblocks] is created and its first item taken.
AddBlock(p) ==
  [p EXCEPT !.nblocks  = @ + 1,
            !.next     = [h \in Items(p.nblocks + 1) |->
                            IF h \in BlockItems(p.nblocks)
                            THEN BlockLinks(p.nblocks)[h] ELSE @[h]],
            !.nextfree = Handle(p.nblocks, 1)]

AllocHandleStillLinked(p) ==      \* mutant: new->next is not cleared
  LET q == Ready(p)
  IN  IF q.nextfree # NULL THEN [q EXCEPT !.nextfree = q.next[q.nextfree]]
                           ELSE AddBlock(q)

AllocHandleGrowsEarly(p) ==       \* mutant: the last free item is not used
  LET q == Ready(p)
  IN  IF q.next[q.nextfree] # NULL
      THEN [q EXCEPT !.nextfree = q.next[q.nextfree],
                     !.next = [@ EXCEPT ![q.nextfree] = NULL]]
      ELSE AddBlock(q)

AllocHandle(p) ==
  LET q == Ready(p)
  IN  IF q.nextfree # NULL
      THEN [q EXCEPT !.nextfree = q.next[q.nextfree],
                     !.next = [@ EXCEPT ![q.nextfree] = NULL]]
      ELSE AddBlock(q)

FreeHandleDropsRest(p, h) ==      \* mutant: the old free list is not linked
  IF h = NULL THEN p ELSE [p EXCEPT !.nextfree = h]

FreeHandle(p, h) ==
  IF h = NULL THEN p
  ELSE [p EXCEPT !.next = [@ EXCEPT ![h] = p.nextfree], !.nextfree = h]

DestroyHandles(p) == [p EXCEPT !.ready = FALSE]

-----------------------------------------------------------------------------
(* What holds of an initialised pool p whose free list, in order, is the   *)
(* sequence fr and whose other handles, the set hd, are in use.            *)

Pools == [ready    : BOOLEAN,
          nblocks  : 0 .. MAX_BLOCKS,
          next     : UNION {[Items(n) -> Items(n)] : n \in 0 .. MAX_BLOCKS},
          nextfree : Items(MAX_BLOCKS)]

Usable(p) == Items(p.nblocks) \ {NULL}

ShapeOK(p, fr, hd) == /\ p.nblocks >= 1
                      /\ p.next \in [Items(p.nblocks) -> Items(p.nblocks)]
                      /\ fr \in Seq(Usable(p))
                      /\ hd \subseteq Usable(p)

Chained(p, fr) ==
  /\ p.nextfree = IF fr = <<>> THEN NULL ELSE fr[1]
  /\ \A i \in 1 .. Len(fr) :
       p.next[fr[i]] = IF i = Len(fr) THEN NULL ELSE fr[i + 1]
  /\ \A i, j \in 1 .. Len(fr) : fr[i] = fr[j] => i = j

Partitioned(p, fr, hd) ==
  /\ \A i \in 1 .. Len(fr) : fr[i] \notin hd
  /\ \A h \in Usable(p) : h \in hd \/ \E i \in 1 .. Len(fr) : fr[i] = h

Unlinked(p, hd) == \A h \in hd : p.next[h] = NULL

\* The free list of a block whose first item was taken out.
RestOfBlock(block) == [i \in 1 .. BLOCK_ITEMS - 1 |-> Handle(block, i)]

=============================================================================
