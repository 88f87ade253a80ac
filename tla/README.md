# OASIS3-MCT in TLA+

OASIS3-MCT couples the components of a climate model. Each component is a
parallel program of its own that puts and gets two-dimensional fields by name
and date; a text file, the namcouple, says which field goes where, how often,
with which lag and through which transformation. The library that the
components are linked with decides at every put and get, without any central
coupler process, whether something has to be sent, received, collected, read
from or written to a restart file. Whether a field arrives at the right time
and with the right content, and whether the components wait for each other for
ever, is decided by these local rules on both sides of a coupling: that is what
the specifications here are about.

## 1. The system

Sources are under `src/lib`: `psmile` is the coupling library, `mct` the Model
Coupling Toolkit that moves the data, `mct/mpi-serial` an MPI for a single
process, `mct/mpeu` utilities, `scrip` the interpolation.

### Components, their state and their operations

| Component | State it keeps | Operations |
|---|---|---|
| time advance of the couplers, `mod_oasis_advance.F90` | per coupler and side: `status` of each field, `ltime` of the last communication, `avect` and `avcnt` of the collected values; per process `lcouplertime`; restart files | `oasis_advance_init`, `oasis_advance_run` |
| put and get, `mod_oasis_getput_interface.F90` | none | `oasis_put`, `oasis_get` |
| coupler setup, `mod_oasis_coupler.F90` | `prism_coupler`, `prism_router`, `prism_mapper`, `prism_var%cpl` | `oasis_coupler_setup`, `oasis_coupler_genmap` |
| start and end, `mod_oasis_method.F90` | communicators, `prism_modnam`, `enddef_called` | `oasis_init_comp`, `oasis_enddef`, `oasis_terminate`, `oasis_abort` |
| namcouple, `mod_oasis_namcouple.F90` | `nam*` tables, `namfldsort` | `oasis_namcouple_init` |
| partitions, `mod_oasis_part.F90` | `prism_part` | `oasis_def_partition`, `oasis_part_create` |
| variables, `mod_oasis_var.F90` | `prism_var` | `oasis_def_var`, `oasis_var_setup` |
| grids, files, `mod_oasis_grid/io.F90` | `prism_grid`; NetCDF files | `oasis_write_grid`..., `oasis_io_read/write_av*` |
| timers, debug stack, `mod_oasis_timer/sys.F90` | table of timers; depth of the call stack | `oasis_timer_start/stop`, `oasis_debug_enter/exit` |
| MCT transfer, `m_Transfer.F90`, `m_Router.F90` | partners, places, buffers and requests of a router | `MCT_ISend`, `MCT_WaitSend`, `MCT_Recv` |
| MCT decompositions, `m_GlobalSegMap.F90`, ... | segments of all ranks | `init` from segments or points, `OrderedPoints`, `increasing`, ... |
| mpi-serial handles, `handles.c` | blocks of items, free list | `mpi_alloc_handle`, `mpi_free_handle`, `mpi_destroy_handles` |
| mpi-serial messages, `send.c`, `recv.c`, `req.c`, `comm.c`, `mpi.c` | per communicator the lists of pending sends and receives; the fields of each request | `MPI_Isend`, `MPI_Irecv`, `MPI_Test`, `MPI_Wait`..., `MPI_Comm_dup`..., `MPI_Init`, `MPI_Finalize` |
| mpi-serial lists, `list.c` | items with links in both directions, head, tail, count | `AP_list_new`, `duplicate`, `free`, `append`, `prepend`, `delete`, `search`, `next`, `apply`, ... |
| mpi-serial groups, `group.c` | none | `MPI_Group_incl`, `MPI_Group_union`, ... |
| mpi-serial collectives and types, `collective.c`, `mpi.h`, `mpif.*.h`, `mpi.c` | the sizes of types, the program's buffers | `MPI_Gatherv`, `MPI_Alltoallv`, ..., `mpi_init_fort` |
| mpi-serial packing, `pack.c` | buffer and position of the program | `MPI_Pack`, `MPI_Unpack` |
| mpeu, SCRIP | sorts, permutations; interpolation weights | |

PROJECT.json lists them with their status.

### How they interact

A component calls `oasis_init_comp`, defines partitions and variables, and calls
`oasis_enddef`, which is collective over all coupled processes:
`oasis_coupler_setup` pairs its variables with those of the other components and
`oasis_advance_init` sends the restart fields of couplings with a lag. From then
on the only interaction is by messages: `oasis_put` and `oasis_get` call
`oasis_advance_run` at each time step, which calls the MCT transfer for each
coupler whose time has come. `MCT_ISend` copies the data into a buffer of the
router and starts the sends; the next send of this router first waits for them
(`MCT_WaitSend`); `MCT_Recv` blocks. `oasis_terminate` ends in a barrier and
`MPI_Finalize`, and a later run of the same components starts from the restart
files. MCT and psmile can be linked with mpi-serial instead of an MPI library.

### What is hard, and what makes each component correct

* **Time advance.** A message carries no date. Both ends derive the coupling
  times from their own date, lag and period. Correct means: the n-th receive of a
  coupler is for the same coupling time as the n-th send, whatever the
  interleaving (`TimesMatch`, `ClockSpec`); a message holds exactly the puts of
  its coupling period (`WindowExact`), also when the period began in the previous
  run; nothing sent is left over (`AllConsumed`); a get says it received only
  when its data are of that time (`NoStaleDelivery`); the checks in the code stop
  a program that breaks the rules before it goes wrong (`NoPeriodMissed`,
  `SequenceKept`), and never one that keeps them; and everybody gets to the end
  (`Completes`).
* **Coupler setup.** Every model finds its couplers by itself. The two ends must
  find the same ones with as many fields (`EndsAgree`), the fields in the same
  places (`FieldsPaired`), in an order that lets the blocking exchanges of the
  routers end (`CouplersSorted`, `SetupEnds`, `RoutersPaired`), under tags that
  meet and differ from others (`TagsIdentify`); what cannot be coupled is stopped
  (`FaultsCaught`).
* **Start and end.** Barriers that every process passes the same number of
  times; aborts that reach all the components.
* **Handles of mpi-serial.** An item is free or in use, never both; storage grows
  only when nothing is free (`FreeListSound`, `FreeOrHeld`, `HighWaterMark`,
  `StoreSpec`).
* **Messages of mpi-serial.** One process plays both ends. A send and a receive meet
  as MPI promises, whichever comes first, with wildcards (`MatchingSpec`); the lists hold
  what is pending and nothing else, although items are taken from their middle
  (`ListsSound`, `PendingListed`); a request is an item that was used before, and is
  complete when its message was copied (`CompletionTruthful`, `StatusTruthful`); no
  order of calls loses an item (`HandlesAccounted`), and the world can be made again
  after `MPI_Finalize` (`WorldKept`).
* **Lists of mpi-serial.** They are sequences, whatever is added, deleted, duplicated and freed
  on the one heap, also under a traversal that goes on meanwhile (`SequencesSpec`);
  no item is lost, none is on two lists (`NothingLost`).
* **Collective calls, types, packing.** A type is a number of bytes of a header chosen by hand. A
  program that `mpi_init_fort` lets through moves the elements MPI says and no other byte
  (`CollectivesSpec`); what is unpacked is what was packed, up to the last byte
  of a buffer (`UnpackInvertsPack`).
* **Partitions, MCT decompositions, routers.** Each rank finds its partners by itself, from the
  segments of all. Every point arrives at the place where the program has
  it, with the value of its round (`Delivered`), and nobody waits for a message that no one
  sends, or gets one of another length (`NoRankWaits`). Both come from what the routers are,
  each made without the others: partners are mutual, with the same points in the same order
  (`RoutersFit`).

The hazards of the code, each at its line, are in PROJECT.json, with the
properties that would show it going wrong.

## 2. What is modelled

```
HandleStore      what a caller may rely on         CouplingClock   what the times of couplings promise
    ^  StoreSpec                                         ^  ClockSpec
HandleUse        the allocator and its caller      OasisAdvance    processes, couplers, messages, files
    | EXTENDS                                            ^ EXTENDS
HandlePool       the allocator as functions        OasisTimes      conditions, invariant on the times
                                                         ^ EXTENDS
                                                   OasisData       regular programs, invariant on the data
                                                         ^ EXTENDS
                                                   CoupledRun      prism_coupler, init loops, time loops
                                                         ^ EXTENDS
                                                   MCCoupledRun <- MCAlignedRun <- MCRegularRun   scenarios

TagMatching      what MPI promises of tags   DataLists  sequences     Collectives  what MPI promises
    ^  MatchingSpec                              ^  SequencesSpec          ^  CollectivesSpec
SerialMessages   requests, communicators     ListUse  lists, a heap   SerialCollectives   SerialPack
    | EXTENDS HandlePool, ListOps, SerialGroups  | EXTENDS ListOps
MCSerialMessages  --- EXTENDS --->  SerialMessages, ListUse, SerialCollectives, SerialPack

CouplerSetup     definitions, matching, tags      Routing      ranks, their messages
    ^ EXTENDS                                         | EXTENDS
MCCouplerSetup   --- INSTANCE --->  CouplerEnds   Partitions   decompositions, routers as functions
    ^                              <--- INSTANCE --- CoupledRun
MCSetupRoutes    --- EXTENDS --->  MCCouplerSetup, Routing
```

`CouplerEnds` is where the two halves meet: the ends of each process as the time
loop assumes them, and as the setup is shown to produce them (`SetupGivesEnds`).

### OasisAdvance

A *coupler* is one entry of the namcouple: `Nam[c]` has its source and target
process, number of fields, period `dt`, `lag`, `seq`, transformation and kind
(`namflddti`, `namfldlag`, `namfldseq`, `namfldtrn`, `namfldops`). It has a put
end and a get end (`Ends`), as in the code where the source and the target
component each have an element of `prism_coupler` for it.

One **process per component**. All ranks of a component pass through the same
calls with the same dates and take the same decisions; the decomposition of a
field over ranks is the subject of `Routing`.

A **step** is one pass of the loop over the couplers of a variable in
`oasis_advance_run` (lines 328-1349): it cannot be interrupted except where it
waits for a message, and it is modelled as an action that is enabled when the
wait is over. `Script[p]` is the sequence of these visits the process makes in a
run, with the fields of the call (date, restart flag) in each. So the module
knows nothing about time loops: the theorems hold for every script, and
CoupledRun builds the scripts of real programs.

| Action | Code (mod_oasis_advance.F90) |
|---|---|
| `PutHold` | a put that collects (669-842) and does not communicate; partial results to the restart file near the end (1245-1273) |
| `PutSend` | a put at a coupling time with all fields ready: mean (892-923), `mct_waitsend`, `mct_isend` (990-1082), output, reset (1197-1211) |
| `PutFile` | the same at the end of the run, where the fields go to the lag restart file (948-984), and for a coupler that only writes output |
| `GetRecv` | a get at a coupling time whose fields were all unpacked: `mct_recv` (1083-1154), unpack (1295-1343) |
| `GetLocal` | a get that unpacks what was received before, or the input file |
| `Load` | `oasis_advance_init`, second loop: sums and counts of the last run (133-223) |
| `Check` | `oasis_advance_init`: is the lag in range (92-97) |
| `Abort` | every `oasis_abort` of the visit, in the order of the code |
| `SendDone` | MPI completes a send that was not received: it has buffered it |
| `NextRun` | all have called `oasis_terminate`; everything is lost but the files |

`Rejected` is the disjunction of the checks in `oasis_advance_run`; `Skipped` and
`OutOfSequence` compare with the other couplers of the process. `chan[c]` is the
sequence of messages under way of a coupler (one tag, one pair of processes: MPI
keeps their order), `pend[c]` that the request of the last send is not complete.

**Values.** What a field holds is abstracted to the sequence of the puts it was
computed from and the divisor of the mean; `Junk` is an array that was not set,
`User` the content of a restart file made by the user. This is enough to tell
each put of each run apart, and to see that a sum has it twice or not at all.
Sums, means, maxima and minima are all "collected": which elements were collected
is the question, not their arithmetic. A message also has the coupling time it
was sent for, which the real one lacks: no action looks at it, only properties.

Not in the model: higher-order fields (`array2` to `array5`), the mapping and its
conservation, diagnostics, timers; the names of files (two couplers with the same
restart file use different variables in it).

### CouplerSetup, CouplerEnds

The definition phase, from the first `oasis_def_var` to the last router. A model is
its root process (the others take the same decisions). `NamFile` is the namcouple
as read; the sort by SEQ is done by `SeqSorted`, the insertion of the code, which TLC
compares with the definition of a stable sort for every SEQ of up to four entries.
A program is the sequence of definitions that each model makes.

| Action | Code |
|---|---|
| `DefVar` | `oasis_def_var` (mod_oasis_var.F90:23-110): ignored, added, defined twice, too many |
| `EndDef` | `oasis_enddef` up to `oasis_coupler_setup` (mod_oasis_method.F90:691-745) |
| `Share` | the broadcasts of all definitions (mod_oasis_coupler.F90:254-304) |
| `MatchEntry` | one entry of the loop over the sorted namcouple, behind its barrier (342-734): `Matches` in the order of the three inner loops, `Refused` the errors in them, `Added` the coupler |
| `EndMatch`, `SkipRouter` | the loop over the couplers (757-1047) |
| `SendPars`, `RecvPars`, `RecvSegs` | the exchange of two roots in `mct_router_init` (m_ExchangeMaps.F90: 142-203, 394-465) |

`prism_coupler[p][i].comp` and the rest of a coupler are, as in the code, those of the
last match; its fields are those of all. Messages of one pair of models have one tag
in `m_ExchangeMaps`, so `net[p][q]` is a sequence. The sizes are sent with `MPI_SEND`
by both ends at once: the model takes it that MPI buffers these few integers. An
abort stops every model (`MPI_Abort`).

Not in the model: mappers and their weights, the partition and avect of a coupler,
and `MapType`. Grid sizes that differ are in `Routing`.

### Partitions, Routing

`Partitions` has the pure part: the strategies of `oasis_def_partition`, the blocks that
`oasis_part_create` makes (`Part1d`), the `GlobalSegMap` gathered from all ranks, and
the router of a rank: the segments of the two maps that meet (`Overlaps`), in the
order of the rank's own array. A map whose segments are not in ascending order is first
sorted (`Corrected`), and the router keeps the permutation (`permarr`).

`Routing` is one coupler without a remapping, between all the ranks of two components.
`layout` has what each program passed to `oasis_def_partition`.

| Action | Code |
|---|---|
| `DefPartition` | `oasis_def_partition` or `oasis_part_create`, collective in a component: `mct_gsmap_init` |
| `Mismatch` | the two roots find different grid sizes and stop the run (m_ExchangeMaps.F90:407-413) |
| `RouterInit` | `mct_router_init` of one component, after the exchange of the maps that `CouplerSetup` has in detail |
| `Put` | `mct_waitsend` and `mct_isend` of one rank: permute, copy the places of each partner, send |
| `SendBuffered` | MPI completes a send it has buffered |
| `Get` | `mct_recv` of one rank up to the wait |
| `Arrive` | a message arrives; with the last one, the buffers are loaded in the order of the partners and the array is brought back into the order of the program |

A message that fits one segment goes into the array itself when it arrives, others into a buffer
(`num_segs`), as in the code. The value of a point is the point and the round. `Delivered`
compares with `LocalPoints`, the points of a rank as the program means them, written from the
strategies and not through segments. `Fit` says what a transfer needs of the routers, and `WellOrdered` of
which decompositions they are made without a correction. Loops over segments are recursive functions, so that
`Routing_proofs` can follow them. `MCSetupRoutes` continues the setup of `MCCouplerSetup`: the
exchange starts when one of its complete programs is set up.

Not in the model: `Sum` and integer attributes of a transfer, the reuse of a partition by
`oasis_part_create`, grids with fewer points than processes (see the end of section 3).

### CouplingClock

What the times of a coupling promise: `Send` moves the coupling time of the last
message sent by one period, and never to the end of the run; `Receive` moves that
of the last one received, and only up to what was sent. `ClockSpec` maps
`OasisAdvance` to it: `got` is the `ltime` of the get end, `sent` is `got` plus a
period per message under way.

### OasisTimes, OasisData, CoupledRun

`OasisTimes` has the two conditions on a program and the inductive invariant for the times of
the couplings, `OasisData` what a message should hold (`WindowExact`), the regular programs, for
which it does, and the inductive invariant for that (see section 4). A value is the
sequence of the puts it is made of, each with its run and date, and a divisor: a put that is lost,
repeated, or added to the wrong period is seen. `CoupledRun` builds scripts: the ends of a process in the order of
`prism_coupler`, the walk of `oasis_advance_init` over it, with its index that goes
on by the number of couplers of the variable (line 121), and a time loop that
makes the calls of a component at every step.

### HandlePool, HandleUse, HandleStore

`HandlePool` has `handles.c` as functions from a pool to a pool. An item is the
number `block * BLOCK_ITEMS + index`, which is the handle the code gives out; the
null pointer is 0, as item 0 of block 0 is never given out. `HandleUse` adds a
caller that frees what it holds, once, and a history variable with the order of
the free list. `HandleStore` is the promise to the caller: a handle that is
given out is held by nobody, and the program ends only when all are held.
`mpi_handle_to_ptr` is the identity in this representation. The allocator aborts when
`MAX_BLOCKS` blocks are in use and in `mpi_free_handle` before initialisation; failures of
`malloc` are left out.

### SerialMessages, ListOps, SerialGroups, TagMatching

`SerialMessages` is the point-to-point part of mpi-serial. `lib` is the state of the
library: the handle pool (`HandlePool`), the communicators with their two lists, the
fields of every item as a request, the receive buffers of the program. Each MPI function is
a function from `lib` to the next `lib`, written with `Then` in the order of its calls, so that
`MPI_Sendrecv` is `MPI_Irecv`, `MPI_Send` and `MPI_Wait`, and may run out of handles between
the first two. An action is one call of the program; `user` has the requests the
program holds, `log` what it has posted. Properties compare the two with `lib`.

| Action | Code |
|---|---|
| `InitLib`, `Finalize` | `MPI_Init`, `MPI_Finalize` (mpi.c) |
| `CommDup`, `CommCreate`, `CommSplit`, `CommFree` | comm.c; `MPI_Comm_free` aborts when a list does not have the items it counts |
| `Isend`, `Irsend`, `Send`, `SendNull`, `Sendrecv` | send.c; `Send` also for `MPI_Ssend` and `MPI_Rsend`, which call it or do the same |
| `Irecv`, `Recv`, `RecvNull` | recv.c |
| `Test`, `Wait`, `Waitall`, `Waitany` | req.c; a wait for what cannot complete aborts |

An item that is given out keeps what its last use left in it. `Stale` stands for such
a value: it equals nothing, so that a request whose `complete` is not assigned is neither
complete nor pending, and `CompletionTruthful` fails. The program keeps the rules of MPI: it
uses each request until it was completed, none after `MPI_Finalize`, and leaves the buffers of
pending requests alone. A message has a count: a receive that is posted second copies as
many items as it asked for, one that is posted first as many as were sent
(`recv.c:79`, `send.c:70`). `WholeMessage` says that a receive gets all of its message and never
more than it asked for; what is behind the end of a shorter message comes with it. `MPI_Waitany`
does not set its index and takes an entry that is null for a complete one: it is modelled as it
is, and nothing is claimed of its index.

`ListOps` is `list.c` on addresses: items with `prev` and `next`, head, tail and count.
`IsList(l, s)` says that the links of `l` spell the sequence `s` in both directions.
`SerialGroups` has the case distinctions of `group.c`; `GroupsAssumption` says that they are the operations on
sets of ranks, and TLC evaluates it in the run `serial`.
`TagMatching` is MPI's promise: an open send and an open receive that fit never coexist, as
each goes to the oldest one that fits. `MatchingSpec` maps `SerialMessages` to it: the pairs are
read from the receive buffers.

Not in the model: `MPI_Abort`, the version and name functions.

### ListUse, DataLists

A program as the `main` at the end of `list.c`: several lists on one heap, with the counters
`itemcount` and `headcount`, and one traversal with `AP_list_next` that goes on while the
lists change. An address that was freed is the next one given out. The program keeps the rules of
`list.c`: it passes items with the list they are on, and deletes the item of its
traversal only after reading the next one, as `main` does (678-696). `DataLists` is
what it may rely on: each list a sequence of data of its own, the traversal a
position in one, and every answer read from the sequence; `ListUse` implements it
(`SequencesSpec`). `NothingLost` says that the items of the heap are those of the lists,
each on one, that both counters say so, and that the calls that only look give the truth.

### SerialCollectives, Collectives, SerialPack

`SerialCollectives` starts with `mpi_init_fort`: one of the `mpif.h`, the sizes a compiler
option gives, and the checks of `mpi.c:89-142`, which end the program when they differ.
A program that goes on makes collective calls with that header's sizes over a send and a
receive buffer of a few words. Each call is a copy of bytes as in `collective.c`, with its order
of checks on the root and on the pointers. `Collectives` is MPI's
definition for P ranks, in elements of a sender and a receiver; with P = 1 it is the
specification that `CollectivesSpec` maps to.

`SerialPack`: a program packs data of several lengths, sends the buffer to itself as
`MPI_PACKED` and unpacks it in portions of its own choice (`ctest.c`).

## 3. What is checked

| Run | Shows | Bounds |
|---|---|---|
| `handles` | type, free list, partition, links, high-water mark, implementation of the store | 2 blocks of 3 items: the pool grows once, is exhausted, and the free list has every order of up to 5 items |
| `lags` | `AllConsumed`, `ClockSpec`, `Completes` | the guide's second lag example: lags 2, 1 and -1 of a period of 3; mean, sum and instant; 2 runs of 2 periods |
| `many` | `TypeOK`, `TimesMatch`, `WindowExact`, `NoStaleDelivery` | 3 components; 2 fields in one coupler, 1 field in 2 couplers, EXPOUT, OUTPUT and INPUT entries; 2 runs, with a mean whose period spans the restart |
| `misuse` | `NoPeriodMissed`, `SequenceKept` | 4 components, 2 periods of each kind at least, that break the rules in three ways: a get against SEQ, a time step that does not divide the period, one of two fields got |
| `setup` | `TypeOK`, `CouplersSorted`, `TagsIdentify`, `RoutersPaired`, `EndsAgree`, `FieldsPaired`, `FaultsCaught`, `SetupGivesEnds`, `SetupEnds`; `RoutersFit`, `Delivered`, `NoRankWaits` | 3 models in a ring, 6 entries of every kind, out of order in SEQ; 2 fields in one, 1 field in 2. 4 complete programs with the definitions in different orders; 247 with faults: 4 variables missing, put or got, a third model that has the sources too or the file; names twice, unknown, too many. Then 29 pairs of decompositions of 6 points over 2 or 3 ranks, 2 fields (`Rounds`) |
| `serial` | `TypeOK`, `ListsSound`, `PendingListed`, `CompletionTruthful`, `WholeMessage`, `StatusTruthful`, `HandlesAccounted`, `WorldKept`, `MatchingSpec`, `GroupsAssumption`; `NothingLost`, `SequencesSpec`; `CollectivesSpec`; `UnpackInvertsPack` | one program of four at a time. Messages: one block of 5 items, 2 tags and the wildcard, messages of 2 items (`SendCount`), of which a wildcard receive asks for 3, up to 4 sends and receives (`MaxPosts`), 2 communicators made in a run, the world among them (`MaxComms`), one request of `MPI_PROC_NULL` at a time (`OneNull`), arrays of 2 requests; the two tags are symmetric. Lists: 2 lists (`MaxLists`), 4 items (`MaxItems`), of which the fourth comes by a copy (`MaxAdd`), data 1 and 2. Collectives: buffers of 4 words (`Words`), 2 calls (`MaxCalls`). Packing: a buffer of 5 bytes (`PackSize`), data of 1 and 2 bytes |

Why the bounds are enough: what an end does depends on its date modulo the
period, on the place of the lag in the period, on whether this is the first, an
inner or the last period of a run, and on whether the process is ahead of or
behind the other one. Two runs of two periods have the first and the last
period, a boundary between two runs in the middle of a period, and a second run
that starts from what the code wrote rather than from the user's file; a third run
would start from files of the same kind as the second. Periods of 2 to 4 units
with a time step of 1 have puts before, at and after the coupling time. The
number of messages under way is not bounded: the source goes ahead as far as MPI
buffers (`SendDone`). The theorems of section 4 do away with these bounds for what
concerns times.

For the setup: what a model makes of an entry depends on that entry and the
definitions only, so that the faults are tried on two entries, with each
variable in each direction; three models have a third party to a coupler and a
ring, the shortest way for the routers to wait on each other. The two fields of a
coupler are defined in the same order by both ends: see below what happens otherwise.

For the messages: the least list whose middle can be taken out has three items, and a fourth
post takes it. The pool has four handles to give, the world and three more, so that it is exhausted
within a call and between two, and every item is given out again, as another kind of thing. With two
communicators the second one may be a copy, or the world after a second
`MPI_Init`. What a call does depends on one list only, so more communicators
or tags give no other case.

For lists: three items have a head, a middle and a tail; a copy of two beside its original shows links
that lead from one to the other. Four words hold two reals of eight bytes, so that the sizes of
4, 8 and 16 bytes lead to different places; two calls in a row show what the first left in the
buffers. Five bytes are filled exactly by data of two and of one byte, and
overrun by the one after.

For the routers: six points are a grid of three by two, so that a box has two segments and
meets blocks, columns and pieces in one segment, in several, in neighbouring ones and in
none. The decompositions (`MCSetupRoutes`) have blocks, columns, all points on one of two ranks, pieces
that leave a point out, share one and have an empty segment, points and segments in an order of
their own, and the blocks of three ranks. Five of them are paired with each
other in both directions. Two rounds: the second finds the values of the first in the
array and the requests of the first under way; a third would be as the second. The exchange is
checked after each of the four complete programs, so that a coupler that was set up is
one that delivers; `RoutersPaired` is what joins the two: each router is made of the maps
of its own coupler.

**Fairness.** `lags` needs it for `Completes`, `setup` for `SetupEnds`. A process that is not
waiting goes on: weak fairness of its steps, as every component is a running
program and a blocking MPI call returns when its message is there. The start of
the next run is fair. `SendDone` is not: MPI may buffer a send and need not, so
that termination must not rely on it. In all the other passing runs
the specification is `Spec`. Deadlock is checked in all runs of the time advance (`Stop` marks
the end and an abort); the setup ends or is aborted, and a caller of the handles may stop, so
that it is not checked there, nor may a program that uses mpi-serial, which can stop after any call; `SetupEnds` says that the setup stops nowhere else, and `NoRankWaits` that some rank can go
on until all have been served. That is the safety form of the rank's progress: it needs no
fairness and holds in every state, whatever MPI buffers.

### Where the code does not do what its user guide says

Six runs end in a violation of what the user guide (`src/doc`) or a comment of the
code says; each trace is a run of the code as it is.

* `get_get` (`NoHang`): two components that both get before they put, with SEQ 1
  and 2. The guide (1072-1075) says the library detects it and exits; the check
  at `mod_oasis_advance.F90:533` passes over couplers that have not exchanged
  yet, so that the first time step hangs.
* `split` (`NoAbort`): a lagged variable with two targets, the entry of another
  lagged variable between them. The index of the walk (line 121) assumes that the
  couplers of a variable are neighbours: one is left out and one visited twice,
  which aborts.
* `short` (`WindowExact`): runs of one coupling period. The partial result of a
  mean, written at the end of a run, is overwritten in the next initialisation
  by the visit that sends the lag restart (line 1252) before it is read.
* `two_lags` (`TimesMatch`): a variable with a lag of a period to one target and
  no lag to another. The initial visit at `-lag` goes to both, so that the second
  target gets every message a period late.
* `targets` (`SetupEnds`): two models define the target of an entry, which the comment
  at `mod_oasis_coupler.F90:527` says is not an error. The source keeps the last
  of them, and the other waits in its router for ever.
* `unordered` (`NoRankWaits`): a source of one process, a target of two whose points are in an order
  of their own. The comment at `m_Router.F90:254` says that such a map is permuted and
  the program goes on. It is permuted by the processes of the own component, each one the points of
  the rank it has itself (lines 329-339), so that the points of the second rank
  are lost, the source has no partner there, and that rank waits in `mct_recv` for ever.
  The other way round, what the last ranks of an unordered source with more processes send is
  never received. Where both sides have as many processes, everything is delivered (`setup`).

More are plain from the code and have no run:

* Two components that both put before they get, with SEQ 1 and 2: the guide (1052-1055) says the run
  aborts. The check (`mod_oasis_advance.F90:534`) is made by gets against smaller numbers only, and
  the run ends normally.
* A model that gets one of the two fields of an entry (D in `misuse`): at its second
  coupling time the other one is not unpacked (`mod_oasis_advance.F90:856`) and nothing is received, but the
  get copies the old message and returns `OASIS_Recvd` (lines 1295-1302), which the guide (718)
  keeps for a field that was received. The check at the coupling time after it stops the model.
* Two models that define the two fields of an
  entry in opposite orders exchange them: the comment at `mod_oasis_coupler.F90:325` wants them
  "paired up consistently", but they are numbered in each model's own order.
* Two entries with the same target are accepted, although the comment at `mod_oasis_coupler.F90:526`
  and the guide (UGA4_changes.tex:320) forbid it, as it is looked for within an entry only.
* A field with more than ten targets overruns `prism_var%cpl` (`mvarcpl`).
* `mpi.c:186` says that mpi-serial does not support a second `MPI_Init`, which `WorldKept` shows it does.
* `MPI_Waitany` does not set its index.
* In a build with `CHECKS`, `AP_list_duplicate` does not set `list` of the new items, so that
  `AP_list_delete_item` on the copy ends the program.
* The README of mpi-serial (39-43) lists `real8double16`, but `mpi_init_fort` compares its 16 bytes with
  the 8 of `mpi.h` (`mpi.c:139`) and ends every program that uses it.
* The guide says of `ig_paral(2)` of a Points partition "currently not used"
  (UG2_Model_interfacing.tex:499); it is the number of points.
* With a target map that is not in ascending order, points that the source does not cover
  keep no value: the whole array is brought back after each receive (`m_Transfer.F90:754`), also
  what was in it before, which moves from place to place. `Delivered` speaks of the covered points.
* `oasis_part_create` with fewer points than processes makes segments of length zero, which the test for
  overlap (`m_Router.F90:502`) takes for one that meets its surroundings; `num_segs` of that
  partner is then never set.

The scenarios of the passing runs avoid these cases (`SetupLayouts` has a map that is not in
ascending order only where the other side has as many processes); they are what a user
has to keep to.

## 4. What is proved

TLAPS checks these for every namcouple, every number of processes, every script,
every block size and number of blocks, every set of tags and number of messages and
every length of buffers (for the setup: up to 1000 entries and 100 models, which the
tags assume).

**DataInduction**: the induction that the others use for loops over data. The library's
induction theorems have an operator as a parameter, which the provers cannot
instantiate; `LeastNumber` (a set of numbers that is not empty has a least one, from
`WFMin`) has none, and with it the theorems on well-founded relations give
`SetInduction`, `BoundedInduction` and, for functions on numbers that are defined by
recursion, `RecursionExists`. A loop is a recursive function in the modules that
are proved about, and a fact on a loop is the set of lengths for which it holds.

**OasisAdvance_proofs**: `TypeCorrect`, type correctness of all the state, and under
`AlignedStart /\ InitFirst`,

* `DatesMatch`: `Spec => []TimesMatch`;
* `PeriodsKept`: `Spec => []NoPeriodMissed`; `OrderKept`: `Spec => []SequenceKept`;
* `ImplementsClock`: `Spec => ClockSpec`;
* all from `TimesInvariant`: `Spec => []TimesInv`.

Assumptions: `NamAssumption` (types of the namcouple's entries; no relation between
lag, period and run length), `ScriptAssumption` (visits go to ends of the process;
no date is the special value `ispval`), `AlignedStart` (the first visit of each field
at a coupling time is for time 0, which the guide asks for) and `InitFirst` (the
visits of `oasis_advance_init`, whose dates are negative, come first). TLC evaluates
the first two in every run and the last two in every passing run of the
couplers (`MCAlignedRun`, `MCRegularRun`); `two_lags` and `split` are programs for which `AlignedStart` fails.

Argument. `TimesMatch` alone is not inductive: that a get receives the message of
its date needs to know which messages are under way and where the source stands.
`TimesInv` adds:

* `Timing`. Before its first exchange, an end is waiting for fields that were
  not visited at a coupling time (`Waiting`), so that the visit that completes the
  set is the first such visit of its field and is, by `AlignedStart`, for time 0.
  After it, `ltime` is on the grid of coupling times and not in the future
  (`InThePast`); the disjunct for negative times is for the exchange of a lagged
  restart, before the process has made a visit of the run proper.
* `Stream`. The messages under way are those of consecutive coupling times after
  the last one received, up to the last one sent, as long as the source has not
  reached the end of the run.

The step that matters is an exchange of an end that has exchanged before. The
date is on the grid, it is later than `ltime` (else the visit ends in "did not
advance"), and at most one period later (else "coupling skipped"): so it is exactly
one period later. The same two checks give `NoPeriodMissed`, and the check on SEQ
gives `SequenceKept`. A message is thus sent for the period after the last one sent and
received for the period after the last one received, and the two agree by
`Stream`. `ImplementsClock` follows step by step: each action maps to `Send`, `Receive`,
`NewRun` or a stuttering step.

What the messages hold:

* `WindowsAreExact`: `Regular => (Spec => []WindowExact)`;
* `AllReceived`: `AlignedStart /\ InitFirst /\ Regular => (Spec => []AllConsumed)`.

`Regular` is on the script of each coupler that sends (`OasisData`); TLC evaluates it for the programs of
`lags` and `many` (`MCRegularRun`):

* `Covered`, `Forwards`: each field is put, and got, at every coupling date of the run, at most once at a
  date and in the order of the dates; visits between the coupling dates are free.
* A lag of at most a period (which the code checks), and runs of whole periods. Otherwise the
  last coupling date would leave puts to a period that no later run finishes.
* `Restarts`: the visits of `oasis_advance_init` come at `-lag`, each reads its own field of the
  file, and they come too early in the run to save partial results. The last part is what
  `short` breaks: in a run of one period the restart visit overwrites them. The one before
  is what a wrong index of the walk would break.
* `LoadedOnce`: partial results are read once, after those visits and before the run proper. `RestartLoop`
  and `LoadLoop` are made so; a script in general need not be.

Argument. Three things are told apart: how far the ends are, what the source has collected, and what
is in the files. `PutProgress` says of a source end that the fields it has marked are those
that were put at the next coupling date, and that all were put at the last one; `GetProgress`
the same of a target end, which exchanges at the first field and not at the last. With these, a put is
never at any other coupling date than the next (`PutDate`), so that no message is sent twice or
left out. `Datas` follows a put from the call to the message:

* `Collects`: a source that has not sent yet and has a lag holds the fields of the file; one that does not
  transform, the put of the next date; others, the sum of exactly the puts since the last message
  (`Collecting`), each once and in order, with their number.
* `LagFile`: the restart file has the field for time 0 of this run, or, once the last coupling date was
  passed, for time 0 of the next one.
* `SumFile`: near the end of the run the file has the partial results as they are in memory, which
  is what a put leaves that comes late enough; before, it has those of the last run (`Carried`).

`MessageExact` is the step that matters: what a put sends is what its coupling time asks for, in the first
message of a run (which may have come from the file, in one piece or as the first part of a sum)
and later. `NextRunData` carries it over the end of a run: every process is done, so each source stands
at its last date (`RunOver`), the files are the ones of `LagFile` and `SumFile` in their second
form, and the dates of the next run count from its start (`LaterPuts`). No part of this needs
`AlignedStart`, as a sender and its file do not depend on when others receive.
`AllReceived` does: when the target is done its last date is the last one of the run (`GotAll`), the
messages under way are for later ones (`Stream`), and none is for a time after the end (`MessagesInTime`).

**CouplerSetup_proofs**: `TypeCorrect`; `Sorted`: `Spec => []CouplersSorted`;
`TagsMeet`: `Spec => []TagsIdentify`. Their inductive invariant adds to the two that each
coupler was made at an entry the model has looked at (`Located`), that its tag
is the one of its two models, its entry and its direction (`CouplersOK`), and that a
model in a handshake is at one of its couplers (`Within`). `CouplersSorted` needs
`Located`: the new coupler is of the next entry, and all the others of earlier
ones. `TagsMeet` comes down to `TagInjective`: below the two limits, `dst * 100000 + src
* 1000 + n` gives back its three parts. `LastMatch` is what a coupler needs: the
matches are finitely many, so there is a last one. `SortIsStable`: the insertion
sort of `mod_oasis_coupler.F90` gives, for every namcouple, the entries in ascending SEQ and
those of the same SEQ in their order in the file, each once; by induction over the
entries inserted and, within one, over the places it is moved up. Assumed:
`SetupAssumption` (types and limits), which TLC evaluates in all runs of the setup.

The other four are about what the two models of a coupler find separately:

* `EndsMeet`: `NamesPaired => (Spec => [](OneHome(prism_var) => EndsAgree))`;
* `FieldsMeetTheirs`: the same with `OneHome(prism_var) /\ SameOrder(prism_var) => FieldsPaired`;
* `FaultsAreCaught`: `NamesPaired => (Spec => []FaultsCaught)`;
* `RoutersMeet`: `NamesPaired => (Spec => [](OneHome(prism_var) => RoutersPaired))`.

`NamesPaired` is on the namcouple (the two lists of an entry are as long as each other, and no name is
twice in one), `OneHome` and `SameOrder` on the definitions made so far (the variables of each side of
an entry are those of one model; the two models of an entry define its fields in the same
order). The code checks none of the three: `targets` is a run without `OneHome`, and without
`SameOrder` fields are exchanged for each other (section 3). TLC evaluates them for the complete programs of
`setup` (`GoodProgramsPair`). The invariant `SetupInv` adds to the one above that the couplers of a
model are those of the matches of the entries it has looked at (`Made`), that nobody
looks at an entry before all have defined their variables (`Phases`), and that a model has
a name once (`OneVariable`). A match turned round is a match of the other model
(`MatchTurns`), as long as it was not refused; by `OneHome` all matches of an entry name the same model
(`OnePartner`), so there are as many on either side (`SameNumber`, an injection each way), and by
`SameOrder` the k-th ones are each other's (`FieldsMeet`).

For `RoutersMeet` the invariant `HandInv` says of each two models which couplers they have done
with each other and what is under way between them (`PairOf`): they have done the same ones
(`Level`), or one has done one more, of which the other has the segments still to come (`Ahead`). When
one of them takes a message, the entries they are at must be the same, and this is
where the order of the couplers matters: of two models that have done the same entries with each
other, the next one of each is the next in the order of the sort (`NextSame`, from
`CouplersSorted` and `EndMeets`).

**HandleUse_proofs**: `TypeCorrect`, `FreeListIsSound`, `ItemsArePartitioned`,
`HeldItemsAreUnlinked`, `StorageGrowsOnlyWhenFull` and `ImplementsStore`. The inductive
invariant says that the history variable is the chain of links from
`nextfree`, without repetition, that it and the handles in use make up all items, and that
items in use have no link. With the order of the chain as a sequence, adding a
block and taking or returning the head are statements on sequences, and no
induction over links is needed.

**SerialData_proofs**: `NewIsEmpty`, `AppendIsAppend`, `DeleteIsRemove`: for every list whose links spell
a sequence, appending and deleting do to it what `Append` and `RemoveAt` do to the sequence. What
the loops of `list.c` visit (`Visited`, by recursion along the links) is this
sequence, by induction over its places, and a search finds the first item that fits.
Here are also the lemmas on the pool of handles that two other modules need.

**SerialMessages_proofs**: `Invariant`: `MessageSpec => []MessagesInv`, and from it `TypeCorrectMessages`,
`ListsAreSound`, `PendingAreListed`, `CompletionIsTruthful`, `MessagesAreWhole`, `StatusIsTruthful`,
`HandlesAreAccounted`, `WorldIsKept`; and `ImplementsMatching`, that MPI calls are steps of `TagMatching`.
The invariant has a half that holds always and one that holds while the program was not aborted:

* `Kept`: the tables have their types (`TablesOK`), the two lists of each communicator are
  lists (`CommsOK`), the log of posts is well-formed (`LogOK`), buffers hold what was posted
  and what was received (`BuffersOK`).
* `Sane`: each request that the program holds is the one of the library (`HeldOK`,
  `RequestsOK`), each of the lists holds, in the order of the posts, the requests of its
  communicator that were not matched yet (`QueuesOK`), and the pool has given out exactly the
  handles of the program (`PoolOK`).

None of the properties is inductive alone: that a completion is truthful needs to know that a
request found on a list is one that waits, which is `QueuesOK`; that no handle is lost needs that
those taken off a list are still held, which is `HeldOK`. Each call has a lemma for what it
makes of the tables, and a search is followed to the request it finds. For
`ImplementsMatching` the invariant is joined with `Awaiting` (a request is held for everything that
can still be matched): then the first fit on a list in the order of posts is the oldest post that fits,
which is what `TagMatching` asks for. Assumed: `MessagesAssumption` and `PoolAssumption` (types).

**SerialUse_proofs**: `PackingIsFaithful`: `PackSpec => []UnpackInvertsPack`. The inductive invariant says of each
phase where the position is and what the first bytes of the buffer are.

And of the lists, `NothingIsLost`: `ListSpec => []NothingLost`, and `ListsAreSequences`: `ListSpec =>
SequencesSpec`. The inductive invariant (`ListsInv`) is on links: those of every list spell
the same addresses from the head by `next` and from the tail by `prev` (`Reads`), the lists have no
address in common and the heap has no other one, the counters count both (`Kept`), and the cursor is at an
address of its list (`StateSound`). Neither property would do without it: that a list keeps its
data while another one is freed or its neighbour on the heap is written, is that
they share no address, and that a deletion leaves the way back right, is that `prev`
was the inverse of `next`. Each call has one lemma on the list it changes, in which the others may only differ
in nothing a list can see (`SameItem`), and one that puts that list back among the rest. The loops of
`AP_list_duplicate` and `AP_list_apply` are recursive functions over the items visited, so that
the copies made after i rounds (`Copied`) can be followed by induction on i. The copies are linked by
hand (`CopyRound`, `CopyEnd`); `RoundAppends` shows that a loop which ended after any round would
have made what `AP_list_append` makes, also though the last item's `next` holds junk until then. Assumed: `ListUseAssumption` (three
naturals); malloc gives an address that is not in use (`MallocNew` follows from the finite heap).

And of the collective calls, `CollectivesAsDefined`: `CollSpec => CollectivesSpec`. The invariant (`CollInv`)
says that a program which goes on has the same length for each type in `mpif.h` and in its compiler, also
for `MPI_2REAL`, which `mpi_init_fort` does not look at (`SizesAgree`), and that what the last call
copied is still there: `Collectives` allows no step for a call made twice, so the second one must
change nothing. For each call, what the code copies (`CallResult`) and what MPI says of the call,
read for one rank (`ReceivedIs`), are the same words (`Result`). Assumed: `WordsAssumption`.

**Routing_proofs**, of decompositions: `BlocksTile`: for every size of the grid and every number of processes, the blocks
of `oasis_part_create` have all the points of the grid, none outside, and each one once. The
first point of a block is `q * i + min(i, pts) + 1`, with `q` and `pts` quotient and rest; these
ascend (`StartsAscend`), a block ends where the next begins (`BlocksAdjoin`), and the
block of a point is found by dividing: by `q + 1` below `(q + 1) * pts`, by `q` above.
`MeetsExactly`: two segments that are not empty pass the router's test, from either side, when and
only when they have a point in common. For empty ones it is false, which is the last case of
section 3.

And of the routers and the transfers:

* `FieldsAreDelivered`, `RanksGoOn`: `RouteSpec => []Delivered` and `RouteSpec => []NoRankWaits`, of pairs of
  decompositions whose routers fit together (`\A l \in Layouts : Routable(l)`);
* `OrderedRoutersFit`: the routers of two ordered decompositions (`WellOrdered`) do;
* `OrderedRun`: `RouteSpec => [](RoutersFit /\ Delivered /\ NoRankWaits)` of pairs of ordered decompositions, with nothing
  assumed of the routers;
* `BlocksAreOrdered`, `BlocksRun`: the blocks of `oasis_part_create`, of a grid with a point at least for each process,
  are ordered, so that `OrderedRun` holds of them with no hypothesis but the numbers.

`WellOrdered` asks that no segment is empty, that those of each rank are in ascending order and apart, and
that their points are those the program means. It is evaluated by TLC for six of the eight decompositions of
`setup` (`OrderedLayouts`), among them one with gaps and a point of two ranks and one with a rank without points. The
other two have to be corrected; the correction needs as many processes on both sides
(`unordered`), and that the routers fit then is what `RoutersFit` checks in `setup`, where
`FieldsAreDelivered` and `RanksGoOn` take over. `RoundsAssumption` (a natural) is all else that is assumed.

Argument for the transfers. The invariant (`RouteInv`) is on each pair of ranks: `Pairs` says that
the messages under way between two partners are those of the rounds after the last one the target has
taken, up to the last one put, with the values of these rounds, and that others have none. `GetSound` says what a get in progress
has: the places of the partners that have come have the values of this round, in the array itself or in
the buffer, and after it all covered places have. That a message fits its places is where the two routers
meet (`SentValues`), and that what is placed later leaves the earlier places alone, or gives them the
same value when two ranks have a point, is that a value is that of the point (`LoadedArray`). `NoRankWaits`
follows from where a chain of waits would have to end. By `Pending`, a send that is not complete is one
whose message the target has not taken: that target has got less than the source has put. If nobody
could move, a target that waits for a source has nothing from it on the wire, so the source has put
no more rounds than the target has got; it is not done, so a send of its own is not complete,
and the partner of that send has got fewer rounds still, and waits too. Of the ranks that wait one has
got the fewest rounds (`LeastNumber`), so there is none, and all ranks are done.

Argument for the routers. The points of an ascending list of segments are one ascending list (`PointListLists`), and a
set of numbers has one such list (`OneList`). The double loop over the segments of both sides
keeps that what it has found are the places, in ascending order, of the points of the pairs it has been through
(`OverlapAtFound`, `OverlapsFound`); a span that comes next to the last one is joined to it
(`AddSpanAscends`), which changes no point. So either rank of a pair has the places of the same set of points in the
order of the points, and these are the same list (`SamePoints`); there is something to exchange for one when
there is for the other (`OverlapsEmpty`).

**Only model-checked**: what speaks of liveness or of `ENABLED`, which are out of the prover's
reach: `Completes`, `SetupEnds`. Of the time advance, `NoStaleDelivery` is not true of every
script: a program that gets one of the two fields of a coupler, or that makes its first
get of a field after the first coupling time, sees an older value (the model D of `misuse` is of the first kind). That the scripts which
`CoupledRun` makes from the time step of a program are `Regular` is evaluated for each
scenario: they are made by recursive functions over the couplers and the calls. Of the setup,
`SetupGivesEnds`, which compares it with the recursive definitions of `CouplerEnds`. Of the routers, that those
of a corrected map fit.

## 5. What is left, in order

1. `RestartFiles`: the order of writes of several couplers at the end of a run, with a
   crash between them; `nff` and the order of fields in the file.
2. `RunLifecycle`: `oasis_init_comp`, `oasis_enddef`, `oasis_terminate`, `oasis_abort` over
   the barriers and communicator splits, with an MPI_Finalize that waits.
3. Of `CouplerSetup`: the reuse of mappers and of partitions.
4. `DebugStack`, `Timers`: depth limits and unmatched calls; MCT's rearranger.

### Not modelled

Not planned: text parsing and NetCDF (`mod_oasis_namcouple`, `mod_oasis_io`: pure
input and output), interpolation (`scrip`, floating point), MCT's vector arithmetic, build files
and examples.
