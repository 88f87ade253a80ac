--------------------------- MODULE SerialMessages ----------------------------
(***************************************************************************)
(* Point to point messages of mpi-serial, the MPI of one process that MCT  *)
(* brings along (lib/mct/mpi-serial: send.c, recv.c, req.c, comm.c, mpi.c, *)
(* with the handles of handles.c and the lists of list.c).                 *)
(*                                                                         *)
(* A send and a receive meet in the two lists of their communicator:       *)
(* whichever comes first is appended as pending, the other one finds it,   *)
(* copies the data and completes both.  Requests and communicators are     *)
(* items of the same handle pool, and an item that is given out holds what *)
(* its last use has left in it.  Every action is one MPI call of the       *)
(* program, which keeps to the rules of MPI: it uses the handles it was    *)
(* given, each request until it was completed, none after MPI_Finalize,    *)
(* and does not change a buffer that a pending request refers to.          *)
(***************************************************************************)
EXTENDS HandlePool, ListOps, SerialGroups

CONSTANTS Tags, ANY_TAG, PROC_NULL,
          Stale,          \* what a field holds that was not assigned since
                          \* its item was given out: any value
          SendCount,      \* items in a message, a bound: all have the same
          MaxPosts,       \* bounds: sends and receives posted,
          MaxComms        \* communicators made

ASSUME MessagesAssumption == /\ ANY_TAG \notin Tags
                             /\ MaxPosts \in Nat /\ MaxComms \in Nat
                             /\ SendCount \in Nat \ {0}

MPI_COMM_WORLD == 1

MPI_REQUEST_NULL == 0

VARIABLES
  lib,       \* pool: handles.c; comm: the communicators, by handle; req: the
             \* fields of each item; num, initialized: the static variables of
             \* comm.c and mpi.c; mem: the receive buffers of the program, 0
             \* or the number of the message that was copied; items: how many
             \* items were copied to each; abort: the message of abort()
  user,      \* the requests the program holds: which send or receive
  log        \* history: the sends and receives that were posted

vars == <<lib, user, log>>

AllItems == Items(MAX_BLOCKS)

StaleReq == [buf |-> Stale, source |-> Stale, tag |-> Stale, complete |-> Stale]

Init ==
  /\ lib = [pool |-> UninitPool, comm |-> <<>>, req |-> [h \in AllItems |-> StaleReq],
            num |-> 0, initialized |-> FALSE, mem |-> [r \in 1 .. MaxPosts |-> 0],
            items |-> [r \in 1 .. MaxPosts |-> 0], abort |-> ""]
  /\ user = <<>>
  /\ log = [sends |-> <<>>, recvs |-> <<>>]

-----------------------------------------------------------------------------
(* The library, as functions from a state l of it to the next one.         *)

\* A call that follows others in the same function.
Then(l, Call(_)) == IF l.abort = "" THEN Call(l) ELSE l

AllocKeepsItem(l) ==              \* mutant: the item stays on the free list
  IF Full(l.pool) THEN [l EXCEPT !.abort = "handles"] ELSE [l EXCEPT !.pool = Ready(@)]

mpi_alloc_handle(l) == IF Full(l.pool) THEN [l EXCEPT !.abort = "handles"]
                                       ELSE [l EXCEPT !.pool = AllocHandle(@)]

mpi_free_handle(l, h) == [l EXCEPT !.pool = FreeHandle(@, h), !.req[h] = StaleReq]

Without(f, h) == [x \in DOMAIN f \ {h} |-> f[x]]

With(f, h, v) == [x \in DOMAIN f \cup {h} |-> IF x = h THEN v ELSE f[x]]

\* The item is a union of a communicator and a request.
mpi_comm_new(l) ==
  LET h == AllocatedHandle(l.pool)
      new == [sendlist |-> AP_list_new, recvlist |-> AP_list_new, num |-> l.num]
  IN  Then(mpi_alloc_handle(l),
           LAMBDA x : [x EXCEPT !.comm = With(@, h, new), !.num = @ + 1])

CommFreeKeepsItem(l, c) ==        \* mutant: the communicator's item is not freed
  [l EXCEPT !.comm = Without(@, c)]

MPI_Comm_free(l, c) ==
  IF Freeable(l.comm[c].sendlist) /\ Freeable(l.comm[c].recvlist)
  THEN [mpi_free_handle(l, c) EXCEPT !.comm = Without(@, c)]
  ELSE [l EXCEPT !.abort = "list"]

MPI_Init(l) ==
  Then(mpi_comm_new(l),
       LAMBDA x : IF AllocatedHandle(l.pool) # MPI_COMM_WORLD
                  THEN [x EXCEPT !.abort = "world"]
                  ELSE [x EXCEPT !.initialized = TRUE])

FinalizeLeaves(l) ==              \* mutant: the handles are left as they are
  [l EXCEPT !.comm = <<>>, !.initialized = FALSE]

MPI_Finalize(l) ==
  [l EXCEPT !.pool = DestroyHandles(@), !.comm = <<>>, !.initialized = FALSE,
            !.req = [h \in AllItems |-> StaleReq]]

PendingStale(q, buf, tag) ==      \* mutant: complete is left as it was
  [q EXCEPT !.buf = buf, !.tag = tag]

\* What a request q that finds no partner is set to.
Pending(q, buf, tag) == [q EXCEPT !.buf = buf, !.tag = tag, !.complete = 0]

ReceivedUntagged(q, tag) ==       \* mutant: the tag of the message is not taken over
  [q EXCEPT !.complete = 1, !.source = 0]

\* What a receive q is set to when it gets a message with this tag.
Received(q, tag) == [q EXCEPT !.complete = 1, !.source = 0, !.tag = tag]

\* The oldest pending receive of communicator c that takes the tag.
FindRecv(l, c, tag) ==
  AP_list_search_func(l.comm[c].recvlist, {r \in AllItems : l.req[r].tag \in {ANY_TAG, tag}})

ExactTag(l, c, tag) ==            \* mutant: a receive of any tag finds no send
  AP_list_search_func(l.comm[c].sendlist, {r \in AllItems : tag = l.req[r].tag})

\* The oldest pending send that a receive with this tag takes.
FindSend(l, c, tag) ==
  AP_list_search_func(l.comm[c].sendlist, {r \in AllItems : tag \in {ANY_TAG, l.req[r].tag}})

CopyOneItem(x, b, m, n) ==      \* mutant: the count is forgotten
  [x EXCEPT !.mem[b] = m, !.items[b] = 1]

\* n items from the send buffer of message m to receive buffer b.
CopyItems(x, b, m, n) == [x EXCEPT !.mem[b] = m, !.items[b] = n]

\* The program asks for as many items as it expects, and when it takes any
\* message for more than this one has.
RecvCount(tag) == IF tag = ANY_TAG THEN SendCount + 1 ELSE SendCount

\* dest = 0; m is the number of the message in the send buffer.
MPI_Isend(l, c, m, tag) ==
  LET h == AllocatedHandle(l.pool)
      match == FindRecv(l, c, tag)
      r == l.comm[c].recvlist.item[match].data
      Pend(x) == [x EXCEPT !.req[h] = Pending(@, m, tag),
                           !.comm[c].sendlist = AP_list_append(@, Malloc(@), h)]
      Complete(x) == [CopyItems(x, l.req[r].buf, m, SendCount)
                        EXCEPT !.comm[c].recvlist = AP_list_delete_item(@, match),
                               !.req[r] = Received(@, tag), !.req[h].complete = 1]
  IN  Then(mpi_alloc_handle(l), LAMBDA x : IF match = NoItem THEN Pend(x) ELSE Complete(x))

\* source = 0 or MPI_ANY_SOURCE, which nothing distinguishes; b is the buffer.
MPI_Irecv(l, c, b, tag) ==
  LET h == AllocatedHandle(l.pool)
      match == FindSend(l, c, tag)
      s == l.comm[c].sendlist.item[match].data
      Pend(x) == [x EXCEPT !.req[h] = Pending(@, b, tag),
                           !.comm[c].recvlist = AP_list_append(@, Malloc(@), h)]
      Complete(x) == [CopyItems(x, b, l.req[s].buf, RecvCount(tag))
                        EXCEPT !.comm[c].sendlist = AP_list_delete_item(@, match),
                               !.req[h] = Received(@, l.req[s].tag),
                               !.req[s].complete = 1]
  IN  Then(mpi_alloc_handle(l), LAMBDA x : IF match = NoItem THEN Pend(x) ELSE Complete(x))

IsendNull(l) ==
  Then(mpi_alloc_handle(l), LAMBDA x : [x EXCEPT !.req[AllocatedHandle(l.pool)].complete = 1])

IrecvNull(l) ==
  Then(mpi_alloc_handle(l),
       LAMBDA x : [x EXCEPT !.req[AllocatedHandle(l.pool)] =
                     [@ EXCEPT !.complete = 1, !.source = PROC_NULL, !.tag = ANY_TAG]])

\* The flag that MPI_Test returns for an entry h of an array of requests.
Flag(l, h) == h = MPI_REQUEST_NULL \/ l.req[h].complete = 1

MPI_Test(l, h) ==
  IF h # MPI_REQUEST_NULL /\ Flag(l, h) THEN mpi_free_handle(l, h) ELSE l

MPI_Wait(l, h) ==
  IF Flag(l, h) THEN MPI_Test(l, h) ELSE [l EXCEPT !.abort = "deadlock"]

MPI_Waitall(l, hs) ==
  LET after[i \in 0 .. Len(hs)] ==
        IF i = 0 THEN l ELSE Then(after[i - 1], LAMBDA x : MPI_Wait(x, hs[i]))
  IN  after[Len(hs)]

\* The first entry of the array that is complete, 0 when there is none.
FirstComplete(l, hs) == SelectInSeq(hs, LAMBDA h : Flag(l, h))

MPI_Waitany(l, hs) ==
  LET i == FirstComplete(l, hs)
  IN  IF i = 0 THEN [l EXCEPT !.abort = "deadlock"] ELSE MPI_Test(l, hs[i])

MPI_Send(l, c, m, tag) ==
  Then(MPI_Isend(l, c, m, tag), LAMBDA x : MPI_Wait(x, AllocatedHandle(l.pool)))

MPI_Recv(l, c, b, tag) ==
  Then(MPI_Irecv(l, c, b, tag), LAMBDA x : MPI_Wait(x, AllocatedHandle(l.pool)))

MPI_Irsend(l, c, m, tag) ==
  Then(MPI_Isend(l, c, m, tag),
       LAMBDA x : IF x.req[AllocatedHandle(l.pool)].complete = 1 THEN x
                  ELSE [x EXCEPT !.abort = "not ready"])

MPI_Sendrecv(l, c, m, tag, b, recvtag) ==
  Then(Then(MPI_Irecv(l, c, b, recvtag), LAMBDA x : MPI_Send(x, c, m, tag)),
       LAMBDA x : MPI_Wait(x, AllocatedHandle(l.pool)))

-----------------------------------------------------------------------------
(* The calls of the program.                                               *)

Running == lib.initialized /\ lib.abort = ""

NextMessage == Len(log.sends) + 1

NextBuffer == Len(log.recvs) + 1

\* The program has the new request, unless the call aborted.
Holds(kind, id) ==
  user' = IF lib'.abort = "" THEN With(user, AllocatedHandle(lib.pool), [kind |-> kind, id |-> id])
                             ELSE user

Envelope(c, tag) == [comm |-> lib.comm[c].num, tag |-> tag]

\* Nothing is posted by a call that gets no handle.
LogSend(c, tag) ==
  log' = IF lib'.abort = "handles" THEN log
         ELSE [log EXCEPT !.sends = Append(@, Envelope(c, tag))]

LogRecv(c, tag) ==
  log' = IF lib'.abort = "handles" THEN log
         ELSE [log EXCEPT !.recvs = Append(@, Envelope(c, tag))]

InitLib == /\ ~lib.initialized /\ lib.abort = "" /\ lib.num < MaxComms
           /\ lib' = MPI_Init(lib)
           /\ UNCHANGED <<user, log>>

Finalize == /\ Running
            /\ lib' = MPI_Finalize(lib)
            /\ user' = <<>>
            /\ UNCHANGED log

\* MPI_Comm_dup, and MPI_Comm_create and MPI_Comm_split, which may give
\* MPI_COMM_NULL and then leave everything as it is.
CommDup == /\ Running /\ lib.num < MaxComms
           /\ lib' = mpi_comm_new(lib)
           /\ UNCHANGED <<user, log>>

CommCreate(group) == IF group \in {MPI_GROUP_NULL, MPI_GROUP_EMPTY} THEN UNCHANGED vars ELSE CommDup

CommSplit(color) == IF color = MPI_UNDEFINED THEN UNCHANGED vars ELSE CommDup

CommFree(c) == /\ Running /\ c # MPI_COMM_WORLD
               /\ lib' = MPI_Comm_free(lib, c)
               /\ UNCHANGED <<user, log>>

Isend(c, tag) == /\ lib' = MPI_Isend(lib, c, NextMessage, tag)
                 /\ Holds("send", NextMessage) /\ LogSend(c, tag)

Irsend(c, tag) == /\ lib' = MPI_Irsend(lib, c, NextMessage, tag)
                  /\ Holds("send", NextMessage) /\ LogSend(c, tag)

Send(c, tag) == /\ lib' = MPI_Send(lib, c, NextMessage, tag)
                /\ LogSend(c, tag) /\ UNCHANGED user

Irecv(c, tag) == /\ lib' = MPI_Irecv(lib, c, NextBuffer, tag)
                 /\ Holds("recv", NextBuffer) /\ LogRecv(c, tag)

Recv(c, tag) == /\ lib' = MPI_Recv(lib, c, NextBuffer, tag)
                /\ LogRecv(c, tag) /\ UNCHANGED user

\* When only the receive gets a handle, only the receive was posted.
Sendrecv(c, tag, recvtag) ==
  LET posted == [log EXCEPT !.recvs = Append(@, Envelope(c, recvtag))]
  IN  /\ lib' = MPI_Sendrecv(lib, c, NextMessage, tag, NextBuffer, recvtag)
      /\ log' = IF Full(lib.pool) THEN log
                ELSE IF lib'.abort = "handles" THEN posted
                ELSE [posted EXCEPT !.sends = Append(@, Envelope(c, tag))]
      /\ UNCHANGED user

SendNull == lib' = IsendNull(lib) /\ Holds("send", 0) /\ UNCHANGED log

RecvNull == lib' = IrecvNull(lib) /\ Holds("recv", 0) /\ UNCHANGED log

CanPost(n) == Len(log.sends) + Len(log.recvs) + n <= MaxPosts

\* A bound: one request of MPI_PROC_NULL is held at a time.
OneNull == \A h \in DOMAIN user : user[h].id # 0

Post == /\ Running
        /\ \/ OneNull /\ (SendNull \/ RecvNull)
           \/ \E c \in DOMAIN lib.comm, tag \in Tags, recvtag \in Tags \cup {ANY_TAG} :
                CanPost(2) /\ Sendrecv(c, tag, recvtag)
           \/ \E c \in DOMAIN lib.comm, tag \in Tags :
                CanPost(1) /\ (Isend(c, tag) \/ Irsend(c, tag) \/ Send(c, tag))
           \/ \E c \in DOMAIN lib.comm, tag \in Tags \cup {ANY_TAG} :
                CanPost(1) /\ (Irecv(c, tag) \/ Recv(c, tag))

\* A request that the call completes is set to MPI_REQUEST_NULL.
Test(h) == /\ lib' = MPI_Test(lib, h)
           /\ user' = IF Flag(lib, h) THEN Without(user, h) ELSE user

Wait(h) == /\ lib' = MPI_Wait(lib, h)
           /\ user' = IF lib'.abort = "" THEN Without(user, h) ELSE user

Waitall(hs) == /\ lib' = MPI_Waitall(lib, hs)
               /\ user' = IF lib'.abort = "" THEN [h \in DOMAIN user \ Range(hs) |-> user[h]] ELSE user

Waitany(hs) == /\ lib' = MPI_Waitany(lib, hs)
               /\ user' = IF lib'.abort = "" THEN Without(user, hs[FirstComplete(lib, hs)]) ELSE user

\* Arrays of two entries, each a request or MPI_REQUEST_NULL.
Arrays == {hs \in [{1, 2} -> DOMAIN user \cup {MPI_REQUEST_NULL}] : hs[1] # hs[2]}

Finish == /\ Running /\ UNCHANGED log
          /\ \/ \E h \in DOMAIN user : Test(h) \/ Wait(h)
             \/ \E hs \in Arrays : Waitall(hs) \/ Waitany(hs)

Next == \/ InitLib \/ Finalize \/ CommDup
        \/ \E group \in {MPI_GROUP_NULL, MPI_GROUP_EMPTY, MPI_GROUP_ONE} : Running /\ CommCreate(group)
        \/ \E color \in {MPI_UNDEFINED, 0} : Running /\ CommSplit(color)
        \/ \E c \in DOMAIN lib.comm : CommFree(c)
        \/ Post \/ Finish

Spec == Init /\ [][Next]_vars

-----------------------------------------------------------------------------
(* Properties *)

\* The handles of the free list of handles.c, in order.
FreeSeq == Reached(lib.pool.nextfree, lib.pool.next)

Reqs == [buf      : {Stale} \cup 1 .. MaxPosts,
         source   : {Stale, 0, PROC_NULL},
         tag      : {Stale, ANY_TAG} \cup Tags,
         complete : {Stale, 0, 1}]

\* Every table has its type; requests and communicators are different items.
TypeOK ==
  /\ lib.pool \in Pools
  /\ lib.req \in [AllItems -> Reqs]
  /\ lib.mem \in [1 .. MaxPosts -> 0 .. MaxPosts]
  /\ lib.items \in [1 .. MaxPosts -> 0 .. SendCount + 1]
  /\ lib.num \in 0 .. MaxComms
  /\ lib.abort \in {"", "handles", "deadlock", "not ready", "world", "list"}
  /\ DOMAIN user \cup DOMAIN lib.comm \subseteq AllItems \ {NULL}
  /\ DOMAIN user \cap DOMAIN lib.comm = {}

\* Appending at the end and deleting in the middle (list.c) keeps every list a
\* chain that reads the same in both directions and has count items, so that
\* AP_list_free never finds another number of items and aborts.
ListsSound ==
  \A c \in DOMAIN lib.comm :
    /\ IsList(lib.comm[c].sendlist, Visited(lib.comm[c].sendlist))
    /\ IsList(lib.comm[c].recvlist, Visited(lib.comm[c].recvlist))

\* The lists of a communicator hold the incomplete requests that were posted
\* on it, in the order they were posted, and nothing else: no request is in a
\* list when its item is given to another request or communicator.
PendingListed ==
  lib.abort = "" =>
    \A c \in DOMAIN lib.comm :
      LET Listed(kind, posted) ==
            {h \in DOMAIN user : /\ user[h].kind = kind /\ user[h].id # 0
                                 /\ lib.req[h].complete = 0
                                 /\ posted[user[h].id].comm = lib.comm[c].num}
          InOrder(l) == \A i, j \in DOMAIN Data(l) :
                          i < j => user[Data(l)[i]].id < user[Data(l)[j]].id
      IN  /\ Range(Data(lib.comm[c].sendlist)) = Listed("send", log.sends)
          /\ Range(Data(lib.comm[c].recvlist)) = Listed("recv", log.recvs)
          /\ InOrder(lib.comm[c].sendlist)
          /\ InOrder(lib.comm[c].recvlist)

\* A request says that it is complete exactly when its message has moved from
\* the one buffer to the other, whatever the item held before: so a wait that
\* gives up ("deadlock", req.c) does so only where no partner was posted.
CompletionTruthful ==
  lib.abort = "" => \A h \in DOMAIN user :
    LET id == user[h].id
        moved == IF user[h].kind = "send" THEN id \in Range(lib.mem) ELSE lib.mem[id] # 0
    IN  lib.req[h].complete = IF id = 0 \/ moved THEN 1 ELSE 0

\* A receive gets all of its message and at most the items it asked for.  The
\* call that comes second copies, and knows its own count only: a receive that
\* comes second copies as many items as it asked for (recv.c:79), those behind
\* the end of a shorter message too.
WholeMessage ==
  \A b \in DOMAIN lib.mem :
    IF lib.mem[b] = 0 THEN lib.items[b] = 0
    ELSE lib.items[b] \in SendCount .. RecvCount(log.recvs[b].tag)

\* What a test or a wait reports of a receive (req.c:35): the source and the
\* tag of the message that is in the buffer, also when any tag was asked for.
StatusTruthful ==
  lib.abort = "" => \A h \in DOMAIN user :
    LET id == user[h].id
        m == lib.mem[id]
    IN  user[h].kind = "recv" =>
          /\ id = 0 => lib.req[h].source = PROC_NULL /\ lib.req[h].tag = ANY_TAG
          /\ id # 0 /\ m # 0 => lib.req[h].source = 0 /\ lib.req[h].tag = log.sends[m].tag

\* Every item of the pool is free, a communicator or a request of the program:
\* no order of the calls loses one or gives one out twice.
HandlesAccounted ==
  lib.initialized /\ lib.abort = "" =>
    /\ Chained(lib.pool, FreeSeq)
    /\ Partitioned(lib.pool, FreeSeq, DOMAIN user \cup DOMAIN lib.comm)

\* MPI_Init finds item 1 free, also after MPI_Finalize, although "this library
\* doesn't support re-initializing MPI" (mpi.c:186): MPI_COMM_WORLD is always
\* a communicator while the library is initialised.
WorldKept == /\ lib.abort # "world"
             /\ lib.initialized => MPI_COMM_WORLD \in DOMAIN lib.comm

\* Seen through the receive buffers, the library implements MPI's matching:
\* each message is received at most once, the oldest first, and nothing waits
\* for a partner that was posted.
Matching == INSTANCE TagMatching
  WITH Comms <- 0 .. MaxComms - 1,
       ch <- [sends |-> log.sends, recvs |-> log.recvs,
              pairs |-> {<<lib.mem[r], r>> : r \in {b \in DOMAIN lib.mem : lib.mem[b] # 0}}]
MatchingSpec == Matching!Spec

=============================================================================
