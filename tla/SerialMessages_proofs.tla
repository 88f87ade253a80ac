------------------------ MODULE SerialMessages_proofs -------------------------
(***************************************************************************)
(* The messages of mpi-serial keep every promise of SerialMessages, for    *)
(* every pool, every set of tags and every number of posts.                *)
(*                                                                         *)
(* The inductive invariant MessagesInv has two halves.  Kept holds also    *)
(* when the program was aborted: the tables have their types, the lists    *)
(* are lists, the buffers hold what was sent and asked for.  Sane holds    *)
(* while it runs: what the library's requests say, what its lists hold and *)
(* what the pool has given out is what the program holds and has posted.   *)
(* Each call of the library has a lemma that its outcome is Sane or Kept,  *)
(* and the search of a list is followed to the request that it finds.      *)
(*                                                                         *)
(* With Awaiting, that a request is held for everything that can still be  *)
(* matched, a call is a step of TagMatching: what a search finds is the    *)
(* oldest that fits.                                                       *)
(***************************************************************************)
EXTENDS SerialMessages, SerialData_proofs

-----------------------------------------------------------------------------
(* What the calls that post a message do to the tables of the library.     *)

Shape(l) == l \in [pool : {l.pool}, comm : {l.comm}, req : {l.req}, num : {l.num},
                   initialized : {l.initialized}, mem : {l.mem}, items : {l.items},
                   abort : {l.abort}]

CommShape(q) ==
  q \in [sendlist : {q.sendlist}, recvlist : {q.recvlist}, num : {q.num}]

\* x is l after a handle was allocated and these tables have changed.
Posts(x, l, comm, req, mem, items) ==
  /\ Shape(x)
  /\ x.num = l.num /\ x.initialized = l.initialized /\ x.abort = l.abort
  /\ x.pool = AllocHandle(l.pool)
  /\ x.comm = comm /\ x.req = req /\ x.mem = mem /\ x.items = items

LEMMA AllocCases ==
  ASSUME NEW l, Shape(l)
  PROVE  /\ Full(l.pool) => mpi_alloc_handle(l) = [l EXCEPT !.abort = "handles"]
         /\ ~Full(l.pool) => Posts(mpi_alloc_handle(l), l, l.comm, l.req, l.mem, l.items)
BY DEF mpi_alloc_handle, Shape, Posts

\* Without a handle the call gives up.
LEMMA NoHandle ==
  ASSUME NEW l, Shape(l), l.abort = "", Full(l.pool), NEW x, x = [l EXCEPT !.abort = "handles"]
  PROVE  IsendNull(l) = x /\ IrecvNull(l) = x /\ mpi_comm_new(l) = x /\ ~(x.abort = "")
<1>1. mpi_alloc_handle(l) = x
  BY AllocCases
<1>2. ~(x.abort = "")
  BY DEF Shape
<1>3. IsendNull(l) = x
  BY <1>1, <1>2, Zenon DEF IsendNull, Then
<1>4. IrecvNull(l) = x
  BY <1>1, <1>2, Zenon DEF IrecvNull, Then
<1>5. mpi_comm_new(l) = x
  BY <1>1, <1>2, Zenon DEF mpi_comm_new, Then
<1> QED BY <1>2, <1>3, <1>4, <1>5

LEMMA IsendPends ==
  ASSUME NEW l, NEW c \in DOMAIN l.comm, NEW m, NEW tag, Shape(l), CommShape(l.comm[c]),
         l.abort = "", ~Full(l.pool), FindRecv(l, c, tag) = NoItem
  PROVE  LET h == AllocatedHandle(l.pool)
             q == l.comm[c]
         IN  Posts(MPI_Isend(l, c, m, tag), l,
                   [l.comm EXCEPT ![c] =
                     [q EXCEPT !.sendlist = AP_list_append(q.sendlist, Malloc(q.sendlist), h)]],
                   [l.req EXCEPT ![h] = Pending(l.req[h], m, tag)], l.mem, l.items)
<1> DEFINE y == mpi_alloc_handle(l)
           h == AllocatedHandle(l.pool)
           x == [y EXCEPT !.req[h] = Pending(@, m, tag),
                          !.comm[c].sendlist = AP_list_append(@, Malloc(@), h)]
           q == l.comm[c]
<1>1. Posts(y, l, l.comm, l.req, l.mem, l.items)
  BY AllocCases
<1> HIDE DEF y, h
<1>2. Posts(x, l,
            [l.comm EXCEPT ![c] =
               [q EXCEPT !.sendlist = AP_list_append(q.sendlist, Malloc(q.sendlist), h)]],
            [l.req EXCEPT ![h] = Pending(l.req[h], m, tag)], l.mem, l.items)
  BY <1>1 DEF Posts, Shape
<1>3. MPI_Isend(l, c, m, tag) = x
  BY <1>1, Zenon DEF MPI_Isend, Then, y, h, Posts
<1> QED BY <1>2, <1>3, Zenon DEF h

LEMMA IrecvPends ==
  ASSUME NEW l, NEW c \in DOMAIN l.comm, NEW b, NEW tag, Shape(l), CommShape(l.comm[c]),
         l.abort = "", ~Full(l.pool), FindSend(l, c, tag) = NoItem
  PROVE  LET h == AllocatedHandle(l.pool)
             q == l.comm[c]
         IN  Posts(MPI_Irecv(l, c, b, tag), l,
                   [l.comm EXCEPT ![c] =
                     [q EXCEPT !.recvlist = AP_list_append(q.recvlist, Malloc(q.recvlist), h)]],
                   [l.req EXCEPT ![h] = Pending(l.req[h], b, tag)], l.mem, l.items)
<1> DEFINE y == mpi_alloc_handle(l)
           h == AllocatedHandle(l.pool)
           x == [y EXCEPT !.req[h] = Pending(@, b, tag),
                          !.comm[c].recvlist = AP_list_append(@, Malloc(@), h)]
           q == l.comm[c]
<1>1. Posts(y, l, l.comm, l.req, l.mem, l.items)
  BY AllocCases
<1> HIDE DEF y, h
<1>2. Posts(x, l,
            [l.comm EXCEPT ![c] =
               [q EXCEPT !.recvlist = AP_list_append(q.recvlist, Malloc(q.recvlist), h)]],
            [l.req EXCEPT ![h] = Pending(l.req[h], b, tag)], l.mem, l.items)
  BY <1>1 DEF Posts, Shape
<1>3. MPI_Irecv(l, c, b, tag) = x
  BY <1>1, Zenon DEF MPI_Irecv, Then, y, h, Posts
<1> QED BY <1>2, <1>3, Zenon DEF h

LEMMA IsendCompletes ==
  ASSUME NEW l, NEW c \in DOMAIN l.comm, NEW m, NEW tag, Shape(l), CommShape(l.comm[c]),
         l.abort = "", ~Full(l.pool), FindRecv(l, c, tag) # NoItem
  PROVE  LET h == AllocatedHandle(l.pool)
             q == l.comm[c]
             a == FindRecv(l, c, tag)
             r == q.recvlist.item[a].data
             b == l.req[r].buf
         IN  Posts(MPI_Isend(l, c, m, tag), l,
                   [l.comm EXCEPT ![c] =
                     [q EXCEPT !.recvlist = AP_list_delete_item(q.recvlist, a)]],
                   [[l.req EXCEPT ![r] = Received(l.req[r], tag)] EXCEPT ![h].complete = 1],
                   [l.mem EXCEPT ![b] = m], [l.items EXCEPT ![b] = SendCount])
<1> DEFINE y == mpi_alloc_handle(l)
           h == AllocatedHandle(l.pool)
           q == l.comm[c]
           a == FindRecv(l, c, tag)
           r == q.recvlist.item[a].data
           b == l.req[r].buf
           x == [CopyItems(y, b, m, SendCount)
                        EXCEPT !.comm[c].recvlist = AP_list_delete_item(@, a),
                               !.req[r] = Received(@, tag), !.req[h].complete = 1]
<1>1. Posts(y, l, l.comm, l.req, l.mem, l.items)
  BY AllocCases
<1>3. MPI_Isend(l, c, m, tag) = x
  <2> HIDE DEF a
  <2> QED BY <1>1, Zenon DEF MPI_Isend, Then, Posts, a
<1> HIDE DEF y, h, a, r, b
<1>2. Posts(x, l,
            [l.comm EXCEPT ![c] = [q EXCEPT !.recvlist = AP_list_delete_item(q.recvlist, a)]],
            [[l.req EXCEPT ![r] = Received(l.req[r], tag)] EXCEPT ![h].complete = 1],
            [l.mem EXCEPT ![b] = m], [l.items EXCEPT ![b] = SendCount])
  BY <1>1 DEF Posts, Shape, CopyItems
<1> QED BY <1>2, <1>3, Zenon DEF h, a, r, b

LEMMA IrecvCompletes ==
  ASSUME NEW l, NEW c \in DOMAIN l.comm, NEW b, NEW tag, Shape(l), CommShape(l.comm[c]),
         l.abort = "", ~Full(l.pool), FindSend(l, c, tag) # NoItem
  PROVE  LET h == AllocatedHandle(l.pool)
             q == l.comm[c]
             a == FindSend(l, c, tag)
             s == q.sendlist.item[a].data
         IN  Posts(MPI_Irecv(l, c, b, tag), l,
                   [l.comm EXCEPT ![c] =
                     [q EXCEPT !.sendlist = AP_list_delete_item(q.sendlist, a)]],
                   [[l.req EXCEPT ![h] = Received(l.req[h], l.req[s].tag)] EXCEPT ![s].complete = 1],
                   [l.mem EXCEPT ![b] = l.req[s].buf], [l.items EXCEPT ![b] = RecvCount(tag)])
<1> DEFINE y == mpi_alloc_handle(l)
           h == AllocatedHandle(l.pool)
           q == l.comm[c]
           a == FindSend(l, c, tag)
           s == q.sendlist.item[a].data
           x == [CopyItems(y, b, l.req[s].buf, RecvCount(tag))
                        EXCEPT !.comm[c].sendlist = AP_list_delete_item(@, a),
                               !.req[h] = Received(@, l.req[s].tag), !.req[s].complete = 1]
<1>1. Posts(y, l, l.comm, l.req, l.mem, l.items)
  BY AllocCases
<1>3. MPI_Irecv(l, c, b, tag) = x
  <2> HIDE DEF a
  <2> QED BY <1>1, Zenon DEF MPI_Irecv, Then, Posts, a
<1> HIDE DEF y, h, a, s
<1>2. Posts(x, l,
            [l.comm EXCEPT ![c] = [q EXCEPT !.sendlist = AP_list_delete_item(q.sendlist, a)]],
            [[l.req EXCEPT ![h] = Received(l.req[h], l.req[s].tag)] EXCEPT ![s].complete = 1],
            [l.mem EXCEPT ![b] = l.req[s].buf], [l.items EXCEPT ![b] = RecvCount(tag)])
  BY <1>1 DEF Posts, Shape, CopyItems
<1> QED BY <1>2, <1>3, Zenon DEF h, a, s

\* A call to MPI_PROC_NULL is complete at once.
LEMMA NullPosts ==
  ASSUME NEW l, Shape(l), l.abort = "", ~Full(l.pool)
  PROVE  LET h == AllocatedHandle(l.pool)
         IN  /\ Posts(IsendNull(l), l, l.comm, [l.req EXCEPT ![h].complete = 1], l.mem, l.items)
             /\ Posts(IrecvNull(l), l, l.comm,
                      [l.req EXCEPT ![h] = [@ EXCEPT !.complete = 1, !.source = PROC_NULL,
                                                     !.tag = ANY_TAG]],
                      l.mem, l.items)
<1> DEFINE y == mpi_alloc_handle(l)
           h == AllocatedHandle(l.pool)
           x == [y EXCEPT !.req[h].complete = 1]
           z == [y EXCEPT !.req[h] = [@ EXCEPT !.complete = 1, !.source = PROC_NULL,
                                               !.tag = ANY_TAG]]
<1>1. Posts(y, l, l.comm, l.req, l.mem, l.items)
  BY AllocCases
<1>2. IsendNull(l) = x
  BY <1>1, Zenon DEF IsendNull, Then, Posts
<1>3. IrecvNull(l) = z
  BY <1>1, Zenon DEF IrecvNull, Then, Posts
<1> HIDE DEF y, h
<1>4. Posts(x, l, l.comm, [l.req EXCEPT ![h].complete = 1], l.mem, l.items)
  BY <1>1 DEF Posts, Shape
<1>5. Posts(z, l, l.comm, [l.req EXCEPT ![h] = [@ EXCEPT !.complete = 1, !.source = PROC_NULL,
                                                         !.tag = ANY_TAG]], l.mem, l.items)
  BY <1>1 DEF Posts, Shape
<1> HIDE DEF x, z
<1> QED BY <1>2, <1>3, <1>4, <1>5 DEF h

LEMMA NewCommPosts ==
  ASSUME NEW l, Shape(l), l.abort = "", ~Full(l.pool)
  PROVE  LET x == mpi_comm_new(l)
             new == [sendlist |-> AP_list_new, recvlist |-> AP_list_new, num |-> l.num]
         IN  /\ Shape(x) /\ x.num = l.num + 1
             /\ x.initialized = l.initialized /\ x.abort = "" /\ x.pool = AllocHandle(l.pool)
             /\ x.comm = With(l.comm, AllocatedHandle(l.pool), new)
             /\ x.req = l.req /\ x.mem = l.mem /\ x.items = l.items
<1> DEFINE y == mpi_alloc_handle(l)
           h == AllocatedHandle(l.pool)
           new == [sendlist |-> AP_list_new, recvlist |-> AP_list_new, num |-> l.num]
           x == [y EXCEPT !.comm = With(@, h, new), !.num = @ + 1]
<1>1. Posts(y, l, l.comm, l.req, l.mem, l.items)
  BY AllocCases
<1>2. mpi_comm_new(l) = x
  BY <1>1, Zenon DEF mpi_comm_new, Then, Posts
<1> HIDE DEF y, h
<1>4. /\ Shape(x) /\ x.num = l.num + 1
      /\ x.initialized = l.initialized /\ x.abort = "" /\ x.pool = AllocHandle(l.pool)
      /\ x.comm = With(l.comm, h, new)
      /\ x.req = l.req /\ x.mem = l.mem /\ x.items = l.items
  BY <1>1 DEF Posts, Shape
<1> HIDE DEF x
<1> QED BY <1>2, <1>4 DEF h

LEMMA FreeEffect ==
  ASSUME NEW l, Shape(l), NEW h
  PROVE  LET x == mpi_free_handle(l, h)
         IN  /\ Shape(x) /\ x.pool = FreeHandle(l.pool, h)
             /\ x.req = [l.req EXCEPT ![h] = StaleReq]
             /\ x.comm = l.comm /\ x.mem = l.mem /\ x.items = l.items /\ x.num = l.num
             /\ x.initialized = l.initialized /\ x.abort = l.abort
BY DEF Shape, mpi_free_handle

LEMMA AbortEffect ==
  ASSUME NEW l, Shape(l), NEW why
  PROVE  LET x == [l EXCEPT !.abort = why]
         IN  /\ Shape(x) /\ x.abort = why
             /\ x.pool = l.pool /\ x.req = l.req
             /\ x.comm = l.comm /\ x.mem = l.mem /\ x.items = l.items /\ x.num = l.num
             /\ x.initialized = l.initialized
BY DEF Shape

-----------------------------------------------------------------------------
(* The inductive invariant, of the library l, the requests u that the      *)
(* program holds and the log g.                                            *)

Kinds == {"send", "recv"}

Posted(g, kind) == IF kind = "send" THEN g.sends ELSE g.recvs

\* Every table has its type.
TablesOK(l) ==
  /\ Shape(l)
  /\ l.pool \in Pools
  /\ l.req \in [AllItems -> Reqs]
  /\ l.mem \in [1 .. MaxPosts -> 0 .. MaxPosts]
  /\ l.items \in [1 .. MaxPosts -> 0 .. SendCount + 1]
  /\ l.num \in 0 .. MaxComms
  /\ l.initialized \in BOOLEAN
  /\ l.abort \in {"", "handles", "deadlock", "not ready"}

\* Every communicator has two lists and a number of its own.
CommsOK(l) ==
  /\ DOMAIN l.comm \subseteq AllItems \ {NULL}
  /\ l.initialized => MPI_COMM_WORLD \in DOMAIN l.comm
  /\ \A c \in DOMAIN l.comm : /\ CommShape(l.comm[c])
                              /\ ListOK(l.comm[c].sendlist) /\ ListOK(l.comm[c].recvlist)
                              /\ l.comm[c].num \in 0 .. l.num - 1
  /\ \A c, d \in DOMAIN l.comm : l.comm[c].num = l.comm[d].num => c = d

\* The log has envelopes of communicators that were made.
LogOK(l, g) ==
  /\ g \in [sends : Seq([comm : 0 .. l.num - 1, tag : Tags]),
            recvs : Seq([comm : 0 .. l.num - 1, tag : Tags \cup {ANY_TAG}])]
  /\ Len(g.sends) + Len(g.recvs) <= MaxPosts

\* What is in the buffers was sent and asked for.
BuffersOK(l, g) ==
  \A b \in 1 .. MaxPosts :
    IF l.mem[b] = 0 THEN l.items[b] = 0
    ELSE /\ b <= Len(g.recvs) /\ l.mem[b] <= Len(g.sends)
         /\ l.items[b] \in SendCount .. RecvCount(g.recvs[b].tag)

\* The program holds each posted send and receive at most once.
HeldOK(u, g) ==
  /\ u = [h \in DOMAIN u |-> u[h]]
  /\ \A h \in DOMAIN u : /\ u[h] = [kind |-> u[h].kind, id |-> u[h].id]
                         /\ u[h].kind \in Kinds
                         /\ u[h].id \in 0 .. Len(Posted(g, u[h].kind))
  /\ \A h, k \in DOMAIN u :
       u[h].kind = u[k].kind /\ u[h].id = u[k].id /\ u[h].id # 0 => h = k

\* The message of request q, a send or receive id of the kind, has moved.
Moved(mem, q) == IF q.kind = "send" THEN q.id \in Range(mem) ELSE mem[q.id] # 0

\* What the item q of the held request e says.
RequestOK(q, e, mem, g) ==
  /\ q.complete = IF e.id = 0 \/ Moved(mem, e) THEN 1 ELSE 0
  /\ q.complete = 0 => q.buf = e.id /\ q.tag = Posted(g, e.kind)[e.id].tag
  /\ e.kind = "recv" =>
       /\ e.id = 0 => q.source = PROC_NULL /\ q.tag = ANY_TAG
       /\ e.id # 0 /\ mem[e.id] # 0 => q.source = 0 /\ q.tag = g.sends[mem[e.id]].tag

RequestsOK(l, u, g) == \A h \in DOMAIN u : RequestOK(l.req[h], u[h], l.mem, g)

\* The incomplete requests of a kind that were posted on the communicator num.
Open(req, u, posted, kind, num) ==
  {h \in DOMAIN u : /\ u[h].kind = kind /\ u[h].id # 0
                    /\ req[h].complete = 0
                    /\ posted[u[h].id].comm = num}

\* q has the members of S in the order they were posted.
Queue(q, S, u) == /\ Range(q) = S
                  /\ \A i, j \in DOMAIN q : i < j => u[q[i]].id < u[q[j]].id

QueuesOK(l, u, g) ==
  \A c \in DOMAIN l.comm :
    /\ Queue(Data(l.comm[c].sendlist), Open(l.req, u, g.sends, "send", l.comm[c].num), u)
    /\ Queue(Data(l.comm[c].recvlist), Open(l.req, u, g.recvs, "recv", l.comm[c].num), u)

\* Exactly the items of communicators and requests are in use.
PoolOK(l, u) ==
  IF l.initialized THEN InUse(l.pool, DOMAIN u \cup DOMAIN l.comm)
  ELSE ~l.pool.ready /\ DOMAIN u = {} /\ DOMAIN l.comm = {}

\* Always, and also when the program was aborted.
Kept(l, u, g) == /\ TablesOK(l) /\ CommsOK(l) /\ LogOK(l, g) /\ BuffersOK(l, g)
                 /\ DOMAIN u \subseteq AllItems \ {NULL}
                 /\ DOMAIN u \cap DOMAIN l.comm = {}

\* While the program runs.
Sane(l, u, g) == /\ Kept(l, u, g)
                 /\ l.abort = ""
                 /\ HeldOK(u, g)
                 /\ RequestsOK(l, u, g)
                 /\ QueuesOK(l, u, g)
                 /\ PoolOK(l, u)

MessagesInv == Kept(lib, user, log) /\ (lib.abort = "" => Sane(lib, user, log))

-----------------------------------------------------------------------------
(* Posting: what a new send or receive changes.                            *)

\* The log k is g with one more envelope e of this kind.
Longer(k, g, kind, e) ==
  LET n == Len(Posted(g, kind))
  IN  /\ Len(Posted(k, kind)) = n + 1
      /\ \A i \in 1 .. n : Posted(k, kind)[i] = Posted(g, kind)[i]
      /\ Posted(k, kind)[n + 1] = e
      /\ \A other \in Kinds \ {kind} : Posted(k, other) = Posted(g, other)

\* The log k has what g has, at the same places.
Prolongs(k, g) == \A kind \in Kinds :
                    /\ Len(Posted(g, kind)) \in Nat
                    /\ Len(Posted(k, kind)) \in Nat
                    /\ Len(Posted(g, kind)) <= Len(Posted(k, kind))
                    /\ \A i \in 1 .. Len(Posted(g, kind)) : Posted(k, kind)[i] = Posted(g, kind)[i]

LEMMA LogTypes ==
  ASSUME NEW l, NEW g, LogOK(l, g), TablesOK(l)
  PROVE  /\ Len(g.sends) \in Nat /\ Len(g.recvs) \in Nat /\ l.num \in Nat
         /\ Len(g.sends) <= MaxPosts /\ Len(g.recvs) <= MaxPosts /\ MaxPosts \in Nat
         /\ \A i \in 1 .. Len(g.sends) : g.sends[i] \in [comm : 0 .. l.num - 1, tag : Tags]
         /\ \A i \in 1 .. Len(g.recvs) :
              g.recvs[i] \in [comm : 0 .. l.num - 1, tag : Tags \cup {ANY_TAG}]
<1>1. /\ g.sends \in Seq([comm : 0 .. l.num - 1, tag : Tags])
      /\ g.recvs \in Seq([comm : 0 .. l.num - 1, tag : Tags \cup {ANY_TAG}])
      /\ Len(g.sends) + Len(g.recvs) <= MaxPosts
  BY DEF LogOK
<1>2. l.num \in Nat /\ MaxPosts \in Nat
  <2>1. l.num \in 0 .. MaxComms
    BY DEF TablesOK
  <2> QED BY <2>1, MessagesAssumption
<1>3. Len(g.sends) \in Nat /\ Len(g.recvs) \in Nat
  BY <1>1
<1>4. Len(g.sends) <= MaxPosts /\ Len(g.recvs) <= MaxPosts
  <2> DEFINE a == Len(g.sends)
             b == Len(g.recvs)
  <2>1. a \in Nat /\ b \in Nat /\ a + b <= MaxPosts
    BY <1>1, <1>3
  <2> HIDE DEF a, b
  <2>2. a <= MaxPosts /\ b <= MaxPosts
    BY <2>1, <1>2
  <2> QED BY <2>2 DEF a, b
<1>5. \A i \in 1 .. Len(g.sends) : g.sends[i] \in [comm : 0 .. l.num - 1, tag : Tags]
  BY <1>1, ElementOfSeq
<1>6. \A i \in 1 .. Len(g.recvs) :
        g.recvs[i] \in [comm : 0 .. l.num - 1, tag : Tags \cup {ANY_TAG}]
  BY <1>1, ElementOfSeq
<1> QED BY <1>2, <1>3, <1>4, <1>5, <1>6

LEMMA LongerProlongs ==
  ASSUME NEW k, NEW g, NEW kind \in Kinds, NEW e, Longer(k, g, kind, e),
         \A n \in Kinds : Len(Posted(g, n)) \in Nat
  PROVE  Prolongs(k, g)
<1> SUFFICES ASSUME NEW other \in Kinds
             PROVE  /\ Len(Posted(g, other)) \in Nat
                    /\ Len(Posted(k, other)) \in Nat
                    /\ Len(Posted(g, other)) <= Len(Posted(k, other))
                    /\ \A i \in 1 .. Len(Posted(g, other)) :
                         Posted(k, other)[i] = Posted(g, other)[i]
  BY DEF Prolongs
<1>1. CASE other = kind
  BY <1>1 DEF Longer
<1>2. CASE other # kind
  BY <1>2 DEF Longer
<1> QED BY <1>1, <1>2

LEMMA LogSent ==
  ASSUME NEW l, NEW g, LogOK(l, g), TablesOK(l), NEW x, x.num = l.num,
         NEW e \in [comm : 0 .. l.num - 1, tag : Tags],
         Len(g.sends) + Len(g.recvs) + 1 <= MaxPosts
  PROVE  LET k == [g EXCEPT !.sends = Append(@, e)]
         IN  LogOK(x, k) /\ Longer(k, g, "send", e) /\ Prolongs(k, g)
<1> DEFINE k == [g EXCEPT !.sends = Append(@, e)]
           E == [comm : 0 .. l.num - 1, tag : Tags]
           R == [comm : 0 .. l.num - 1, tag : Tags \cup {ANY_TAG}]
<1>1. g \in [sends : Seq(E), recvs : Seq(R)] /\ e \in E
  BY DEF LogOK
<1>2. Len(g.sends) \in Nat /\ Len(g.recvs) \in Nat /\ MaxPosts \in Nat
  BY LogTypes
<1>3. ASSUME k \in [sends : Seq(E), recvs : Seq(R)], Len(k.sends) + Len(k.recvs) <= MaxPosts
      PROVE  LogOK(x, k)
  BY <1>3 DEF LogOK
<1> HIDE DEF E, R
<1>4. Append(g.sends, e) \in Seq(E) /\ Len(Append(g.sends, e)) = Len(g.sends) + 1
  BY <1>1
<1>5. k.sends = Append(g.sends, e) /\ k.recvs = g.recvs
  BY <1>1
<1>6. k \in [sends : Seq(E), recvs : Seq(R)]
  BY <1>1, <1>4
<1> HIDE DEF k
<1>7. LogOK(x, k)
  <2> DEFINE a == Len(g.sends)
             b == Len(g.recvs)
  <2>1. a \in Nat /\ b \in Nat /\ a + b + 1 <= MaxPosts
    BY <1>2
  <2>2. Len(k.sends) = a + 1 /\ Len(k.recvs) = b
    BY <1>4, <1>5
  <2> HIDE DEF a, b
  <2>3. Len(k.sends) + Len(k.recvs) <= MaxPosts
    BY <1>2, <2>1, <2>2
  <2> QED BY <1>3, <1>6, <2>3
<1>8. \A i \in 1 .. Len(g.sends) : k.sends[i] = g.sends[i]
  BY <1>1, <1>5
<1>9. k.sends[Len(g.sends) + 1] = e
  BY <1>1, <1>5
<1>10. Longer(k, g, "send", e)
  BY <1>4, <1>5, <1>8, <1>9 DEF Longer, Posted, Kinds
<1>11. Prolongs(k, g)
  BY <1>2, <1>10, LongerProlongs DEF Posted, Kinds
<1> QED BY <1>7, <1>10, <1>11 DEF k

LEMMA LogReceived ==
  ASSUME NEW l, NEW g, LogOK(l, g), TablesOK(l), NEW x, x.num = l.num,
         NEW e \in [comm : 0 .. l.num - 1, tag : Tags \cup {ANY_TAG}],
         Len(g.sends) + Len(g.recvs) + 1 <= MaxPosts
  PROVE  LET k == [g EXCEPT !.recvs = Append(@, e)]
         IN  LogOK(x, k) /\ Longer(k, g, "recv", e) /\ Prolongs(k, g)
<1> DEFINE k == [g EXCEPT !.recvs = Append(@, e)]
           E == [comm : 0 .. l.num - 1, tag : Tags]
           R == [comm : 0 .. l.num - 1, tag : Tags \cup {ANY_TAG}]
<1>1. g \in [sends : Seq(E), recvs : Seq(R)] /\ e \in R
  BY DEF LogOK
<1>2. Len(g.sends) \in Nat /\ Len(g.recvs) \in Nat /\ MaxPosts \in Nat
  BY LogTypes
<1>3. ASSUME k \in [sends : Seq(E), recvs : Seq(R)], Len(k.sends) + Len(k.recvs) <= MaxPosts
      PROVE  LogOK(x, k)
  BY <1>3 DEF LogOK
<1> HIDE DEF E, R
<1>4. Append(g.recvs, e) \in Seq(R) /\ Len(Append(g.recvs, e)) = Len(g.recvs) + 1
  BY <1>1
<1>5. k.recvs = Append(g.recvs, e) /\ k.sends = g.sends
  BY <1>1
<1>6. k \in [sends : Seq(E), recvs : Seq(R)]
  BY <1>1, <1>4
<1> HIDE DEF k
<1>7. LogOK(x, k)
  <2> DEFINE a == Len(g.sends)
             b == Len(g.recvs)
  <2>1. a \in Nat /\ b \in Nat /\ a + b + 1 <= MaxPosts
    BY <1>2
  <2>2. Len(k.recvs) = b + 1 /\ Len(k.sends) = a
    BY <1>4, <1>5
  <2> HIDE DEF a, b
  <2>3. Len(k.sends) + Len(k.recvs) <= MaxPosts
    BY <1>2, <2>1, <2>2
  <2> QED BY <1>3, <1>6, <2>3
<1>8. \A i \in 1 .. Len(g.recvs) : k.recvs[i] = g.recvs[i]
  BY <1>1, <1>5
<1>9. k.recvs[Len(g.recvs) + 1] = e
  BY <1>1, <1>5
<1>10. Longer(k, g, "recv", e)
  BY <1>4, <1>5, <1>8, <1>9 DEF Longer, Posted, Kinds
<1>11. Prolongs(k, g)
  BY <1>2, <1>10, LongerProlongs DEF Posted, Kinds
<1> QED BY <1>7, <1>10, <1>11 DEF k

\* A request that the step does not touch stays right in a longer log.
LEMMA RequestKept ==
  ASSUME NEW q, NEW e, NEW mem, NEW g, RequestOK(q, e, mem, g), e.kind \in Kinds,
         e.id \in 0 .. Len(Posted(g, e.kind)),
         NEW mem2, e.id # 0 => (Moved(mem2, e) <=> Moved(mem, e)),
         e.kind = "recv" /\ e.id # 0 => mem2[e.id] = mem[e.id],
         e.kind = "recv" /\ e.id # 0 => mem[e.id] \in 0 .. Len(g.sends),
         NEW k, Prolongs(k, g)
  PROVE  RequestOK(q, e, mem2, k)
<1>1. Len(Posted(g, e.kind)) \in Nat /\ Len(g.sends) \in Nat
  BY DEF Prolongs, Posted, Kinds
<1>2. e.id # 0 => Posted(k, e.kind)[e.id] = Posted(g, e.kind)[e.id]
  BY <1>1 DEF Prolongs
<1>3. ASSUME NEW i \in 1 .. Len(g.sends)
      PROVE  k.sends[i] = g.sends[i]
  BY <1>3 DEF Prolongs, Posted, Kinds
<1>4. q.complete = IF e.id = 0 \/ Moved(mem2, e) THEN 1 ELSE 0
  BY DEF RequestOK
<1>5. q.complete = 0 => q.buf = e.id /\ q.tag = Posted(k, e.kind)[e.id].tag
  BY <1>2 DEF RequestOK
<1>6. ASSUME e.kind = "recv"
      PROVE  /\ e.id = 0 => q.source = PROC_NULL /\ q.tag = ANY_TAG
             /\ e.id # 0 /\ mem2[e.id] # 0 => q.source = 0 /\ q.tag = k.sends[mem2[e.id]].tag
  <2>1. e.id = 0 => q.source = PROC_NULL /\ q.tag = ANY_TAG
    BY <1>6 DEF RequestOK
  <2>2. ASSUME e.id # 0, mem2[e.id] # 0
        PROVE  q.source = 0 /\ q.tag = k.sends[mem2[e.id]].tag
    <3>1. mem2[e.id] = mem[e.id] /\ mem[e.id] \in 1 .. Len(g.sends)
      <4>1. mem2[e.id] = mem[e.id]
        BY <1>6, <2>2
      <4> QED BY <1>6, <2>2, <1>1, <4>1
    <3>2. q.source = 0 /\ q.tag = g.sends[mem[e.id]].tag
      BY <1>6, <2>2, <3>1 DEF RequestOK
    <3> QED BY <3>1, <3>2, <1>3
  <2> QED BY <2>1, <2>2
<1> QED BY <1>4, <1>5, <1>6 DEF RequestOK

-----------------------------------------------------------------------------
(* The lists of pending requests.                                          *)

LEMMA QueueKept ==
  ASSUME NEW q, NEW S, NEW u, Queue(q, S, u), NEW v, \A h \in S : v[h] = u[h]
  PROVE  Queue(q, S, v)
<1>1. \A i \in DOMAIN q : q[i] \in S
  BY DEF Queue, Range
<1> QED BY <1>1 DEF Queue

\* A new request that was posted last goes to the end.
LEMMA QueueAppended ==
  ASSUME NEW l, ListOK(l), NEW S, NEW u, Queue(Data(l), S, u),
         NEW h, NEW v, \A j \in S : v[j] = u[j] /\ u[j].id < v[h].id
  PROVE  LET m == AP_list_append(l, Malloc(l), h)
         IN  ListOK(m) /\ Queue(Data(m), S \cup {h}, v)
<1> DEFINE m == AP_list_append(l, Malloc(l), h)
           q == Data(l)
           r == Data(m)
           n == Len(q)
<1>1. /\ ListOK(m) /\ Len(r) = n + 1
      /\ \A i \in 1 .. n : r[i] = q[i]
      /\ r[n + 1] = h
  BY AppendData
<1> HIDE DEF m
<1>2. n \in Nat /\ DOMAIN q = 1 .. n /\ DOMAIN r = 1 .. n + 1
  BY <1>1, DataOfList
<1>3. /\ \A i \in 1 .. n : q[i] \in S
      /\ \A j \in S : \E i \in 1 .. n : q[i] = j
      /\ \A i, j \in 1 .. n : i < j => u[q[i]].id < u[q[j]].id
  BY <1>2 DEF Queue, Range
<1> HIDE DEF q, r, n
<1>4. Range(r) = S \cup {h}
  <2>1. \A i \in 1 .. n + 1 : r[i] \in S \cup {h}
    BY <1>1, <1>2, <1>3
  <2>2. \A j \in S : \E i \in 1 .. n + 1 : r[i] = j
    BY <1>1, <1>2, <1>3
  <2>3. n + 1 \in 1 .. n + 1 /\ r[n + 1] = h
    BY <1>1, <1>2
  <2> QED BY <2>1, <2>2, <2>3, <1>2 DEF Range
<1>5. ASSUME NEW i \in 1 .. n + 1, NEW j \in 1 .. n + 1, i < j
      PROVE  v[r[i]].id < v[r[j]].id
  <2>1. i \in 1 .. n /\ r[i] = q[i] /\ q[i] \in S
    BY <1>1, <1>2, <1>3, <1>5
  <2>2. v[q[i]].id = u[q[i]].id /\ u[q[i]].id < v[h].id
    BY <2>1
  <2>3. CASE j \in 1 .. n
    <3>1. r[j] = q[j] /\ q[j] \in S /\ v[q[j]] = u[q[j]]
      BY <2>3, <1>1, <1>3
    <3>2. u[q[i]].id < u[q[j]].id
      BY <2>1, <2>3, <1>3, <1>5
    <3> QED BY <2>1, <2>2, <3>1, <3>2
  <2>4. CASE j = n + 1
    BY <2>1, <2>2, <2>4, <1>1
  <2> QED BY <2>3, <2>4, <1>2
<1>6. Queue(r, S \cup {h}, v)
  BY <1>2, <1>4, <1>5 DEF Queue
<1> QED BY <1>1, <1>6 DEF m, r

\* The requests of S are the same in u and v.
Same(S, u, v) == \A j \in S : u[j].id \in Nat /\ v[j] = u[j]

\* The request that was taken leaves the others in order.
LEMMA QueueDeleted ==
  ASSUME NEW l, ListOK(l), NEW S, NEW u, Queue(Data(l), S, u),
         NEW v, Same(S, u, v), NEW k \in 1 .. Len(Data(l)),
         NEW m, m = AP_list_delete_item(l, Visited(l)[k])
  PROVE  ListOK(m) /\ Queue(Data(m), S \ {Data(l)[k]}, v)
<1> DEFINE q == Data(l)
           r == Data(m)
           n == Len(q)
<1>1. /\ ListOK(m) /\ Len(r) = n - 1
      /\ \A i \in 1 .. Len(r) : r[i] = IF i < k THEN q[i] ELSE q[i + 1]
  BY DeletedData
<1>2. n \in Nat /\ k \in 1 .. n /\ DOMAIN q = 1 .. n /\ DOMAIN r = 1 .. n - 1
  BY <1>1, DataOfList
<1>3. /\ \A i \in 1 .. n : q[i] \in S
      /\ \A j \in S : \E i \in 1 .. n : q[i] = j
      /\ \A i, j \in 1 .. n : i < j => u[q[i]].id < u[q[j]].id
  BY <1>2 DEF Queue, Range
<1>4. \A i \in 1 .. n - 1 : r[i] = IF i < k THEN q[i] ELSE q[i + 1]
  BY <1>1
<1> HIDE DEF q, r, n
<1>5. \A i, j \in 1 .. n : i # j => q[i] # q[j]
  <2> SUFFICES ASSUME NEW i \in 1 .. n, NEW j \in 1 .. n, i < j PROVE q[i] # q[j]
    BY <1>2
  <2>1. u[q[i]].id < u[q[j]].id /\ u[q[i]].id \in Nat
    BY <1>3 DEF Same
  <2> QED BY <2>1
<1>6. Range(r) = S \ {q[k]}
  <2>1. ASSUME NEW i \in 1 .. n - 1
        PROVE  r[i] \in S \ {q[k]}
    <3>1. CASE i < k
      BY <3>1, <1>2, <1>3, <1>4, <1>5
    <3>2. CASE ~(i < k)
      <4>1. i + 1 \in 1 .. n /\ i + 1 # k
        BY <3>2, <1>2
      <4> QED BY <3>2, <4>1, <1>2, <1>3, <1>4, <1>5
    <3> QED BY <3>1, <3>2
  <2>2. ASSUME NEW j \in S \ {q[k]}
        PROVE  \E i \in 1 .. n - 1 : r[i] = j
    <3>1. PICK i \in 1 .. n : q[i] = j
      BY <1>3
    <3>2. i # k
      BY <3>1
    <3>3. CASE i < k
      <4>1. i \in 1 .. n - 1 /\ r[i] = j
        BY <3>1, <3>3, <1>2, <1>4
      <4> QED BY <4>1
    <3>4. CASE i > k
      <4>1. i - 1 \in 1 .. n - 1 /\ ~(i - 1 < k) /\ (i - 1) + 1 = i
        BY <3>4, <1>2
      <4>2. r[i - 1] = j
        BY <4>1, <3>1, <1>4
      <4> QED BY <4>1, <4>2
    <3> QED BY <3>2, <3>3, <3>4, <1>2
  <2> QED BY <2>1, <2>2, <1>2 DEF Range
<1>7. ASSUME NEW i \in 1 .. n - 1, NEW j \in 1 .. n - 1, i < j
      PROVE  v[r[i]].id < v[r[j]].id
  <2> DEFINE a == IF i < k THEN i ELSE i + 1
             b == IF j < k THEN j ELSE j + 1
  <2>1. a \in 1 .. n /\ b \in 1 .. n /\ a < b
    BY <1>2, <1>7
  <2>2. r[i] = q[a] /\ r[j] = q[b]
    BY <1>4
  <2> HIDE DEF a, b
  <2>3. u[q[a]].id < u[q[b]].id /\ v[q[a]] = u[q[a]] /\ v[q[b]] = u[q[b]]
    BY <2>1, <1>3 DEF Same
  <2> QED BY <2>2, <2>3
<1>8. Queue(r, S \ {q[k]}, v)
  BY <1>2, <1>6, <1>7 DEF Queue
<1> QED BY <1>1, <1>8 DEF q, r

\* Of the requests held, those of P have been completed.
Completed(req2, req, u, P) ==
  \A j \in DOMAIN u : req2[j].complete = 0 <=> req[j].complete = 0 /\ j \notin P

\* The new request h, if it is open.
Joins(h, e, req, posted, kind, num) ==
  {j \in {h} : /\ e.kind = kind /\ e.id # 0 /\ req[j].complete = 0
               /\ posted[e.id].comm = num}

\* In a longer log the open requests are the same, but for those that the
\* step completes, and the new one if it is pending.
LEMMA OpenPosted ==
  ASSUME NEW u, NEW g, HeldOK(u, g), NEW k, Prolongs(k, g),
         NEW h, h \notin DOMAIN u, NEW e, NEW v, v = With(u, h, e), NEW req, NEW req2, NEW P,
         Completed(req2, req, u, P),
         NEW kind \in Kinds, NEW num
  PROVE  Open(req2, v, Posted(k, kind), kind, num)
           = (Open(req, u, Posted(g, kind), kind, num) \ P)
               \cup Joins(h, e, req2, Posted(k, kind), kind, num)
<1> DEFINE old == Open(req, u, Posted(g, kind), kind, num)
           new == Open(req2, v, Posted(k, kind), kind, num)
<1>1. DOMAIN v = DOMAIN u \cup {h} /\ v[h] = e /\ \A j \in DOMAIN u : v[j] = u[j]
  BY DEF With
<1>2. ASSUME NEW j \in DOMAIN u
      PROVE  j \in new <=> j \in old /\ j \notin P
  <2>1. CASE u[j].kind = kind /\ u[j].id # 0
    <3>1. u[j].id \in 1 .. Len(Posted(g, kind))
      BY <2>1 DEF HeldOK, Prolongs
    <3>2. Posted(k, kind)[u[j].id] = Posted(g, kind)[u[j].id]
      BY <3>1 DEF Prolongs
    <3> QED BY <2>1, <3>2, <1>1 DEF Open, Completed
  <2>2. CASE ~(u[j].kind = kind /\ u[j].id # 0)
    BY <2>2, <1>1 DEF Open
  <2> QED BY <2>1, <2>2
<1>3. h \in new <=> /\ e.kind = kind /\ e.id # 0 /\ req2[h].complete = 0
                    /\ Posted(k, kind)[e.id].comm = num
  BY <1>1 DEF Open
<1>4. old \subseteq DOMAIN u /\ new \subseteq DOMAIN u \cup {h}
  BY <1>1 DEF Open
<1> HIDE DEF old, new
<1>5. new = (old \ P) \cup Joins(h, e, req2, Posted(k, kind), kind, num)
  BY <1>2, <1>3, <1>4 DEF Joins
<1> QED BY <1>5 DEF old, new

-----------------------------------------------------------------------------
(* What every call that posts keeps.                                       *)

LEMMA NewHandle ==
  ASSUME NEW l, NEW u, NEW g, Sane(l, u, g), l.initialized, ~Full(l.pool)
  PROVE  LET h == AllocatedHandle(l.pool)
         IN  /\ h \in AllItems \ {NULL} /\ h \notin DOMAIN u /\ h \notin DOMAIN l.comm
             /\ InUse(AllocHandle(l.pool), (DOMAIN u \cup DOMAIN l.comm) \cup {h})
             /\ AllocHandle(l.pool) \in Pools
<1> DEFINE h == AllocatedHandle(l.pool)
           hd == DOMAIN u \cup DOMAIN l.comm
<1>1. InUse(l.pool, hd)
  BY DEF Sane, PoolOK
<1> HIDE DEF hd
<1>2. /\ h \in Items(MAX_BLOCKS) \ {NULL} /\ h \notin hd
      /\ InUse(AllocHandle(l.pool), hd \cup {h})
  BY <1>1, AllocInUse
<1>3. AllocHandle(l.pool) \in Pools
  BY <1>2, InUseItems
<1> QED BY <1>2, <1>3 DEF hd, AllItems

LEMMA HeldPosted ==
  ASSUME NEW u, NEW g, HeldOK(u, g), NEW h, h \notin DOMAIN u, NEW kind \in Kinds, NEW id, NEW k,
         Prolongs(k, g),
         \/ id = 0
         \/ id = Len(Posted(g, kind)) + 1 /\ Len(Posted(k, kind)) = Len(Posted(g, kind)) + 1
  PROVE  HeldOK(With(u, h, [kind |-> kind, id |-> id]), k)
<1> DEFINE e == [kind |-> kind, id |-> id]
           v == With(u, h, e)
<1>1. /\ DOMAIN v = DOMAIN u \cup {h} /\ v[h] = e /\ \A j \in DOMAIN u : v[j] = u[j]
      /\ v = [j \in DOMAIN v |-> v[j]]
  BY DEF With
<1>2. e.kind = kind /\ e.id = id /\ e = [kind |-> e.kind, id |-> e.id]
  OBVIOUS
<1> HIDE DEF v, e
<1>3. /\ \A n \in Kinds : /\ Len(Posted(g, n)) \in Nat /\ Len(Posted(k, n)) \in Nat
                          /\ Len(Posted(g, n)) <= Len(Posted(k, n))
  BY DEF Prolongs
<1>4. ASSUME NEW j \in DOMAIN v
      PROVE  /\ v[j] = [kind |-> v[j].kind, id |-> v[j].id]
             /\ v[j].kind \in Kinds
             /\ v[j].id \in 0 .. Len(Posted(k, v[j].kind))
  <2>1. CASE j = h
    <3>1. id \in 0 .. Len(Posted(k, kind))
      BY <1>3
    <3> QED BY <3>1, <2>1, <1>1, <1>2
  <2>2. CASE j \in DOMAIN u
    <3>1. /\ u[j] = [kind |-> u[j].kind, id |-> u[j].id] /\ u[j].kind \in Kinds
          /\ u[j].id \in 0 .. Len(Posted(g, u[j].kind))
      BY <2>2 DEF HeldOK
    <3>2. u[j].id \in 0 .. Len(Posted(k, u[j].kind))
      BY <3>1, <1>3
    <3> QED BY <3>1, <3>2, <2>2, <1>1
  <2> QED BY <2>1, <2>2, <1>1
<1>5. ASSUME NEW j \in DOMAIN u, id # 0
      PROVE  ~(u[j].kind = kind /\ u[j].id = id)
  <2>1. u[j].id \in 0 .. Len(Posted(g, u[j].kind)) /\ id = Len(Posted(g, kind)) + 1
    BY <1>5 DEF HeldOK
  <2> QED BY <2>1, <1>3
<1>6. ASSUME NEW i \in DOMAIN v, NEW j \in DOMAIN v, v[i].kind = v[j].kind,
             v[i].id = v[j].id, v[i].id # 0
      PROVE  i = j
  <2>1. CASE i = h /\ j # h
    BY <2>1, <1>1, <1>2, <1>5, <1>6
  <2>2. CASE i # h /\ j = h
    BY <2>2, <1>1, <1>2, <1>5, <1>6
  <2>3. CASE i # h /\ j # h
    <3>1. i \in DOMAIN u /\ j \in DOMAIN u
      BY <2>3, <1>1
    <3> QED BY <3>1, <1>1, <1>6 DEF HeldOK
  <2> QED BY <2>1, <2>2, <2>3
<1>7. HeldOK(v, k)
  BY <1>1, <1>4, <1>6 DEF HeldOK
<1> QED BY <1>7 DEF v, e

LEMMA PostSane ==
  ASSUME NEW l, NEW u, NEW g, Sane(l, u, g), l.initialized, ~Full(l.pool),
         NEW kind \in Kinds, NEW id, NEW k, Prolongs(k, g),
         \/ id = 0
         \/ id = Len(Posted(g, kind)) + 1 /\ Len(Posted(k, kind)) = Len(Posted(g, kind)) + 1,
         NEW x, NEW comm, NEW req, NEW mem, NEW items, Posts(x, l, comm, req, mem, items),
         NEW v, v = With(u, AllocatedHandle(l.pool), [kind |-> kind, id |-> id]),
         DOMAIN comm = DOMAIN l.comm,
         req \in [AllItems -> Reqs],
         mem \in [1 .. MaxPosts -> 0 .. MaxPosts],
         items \in [1 .. MaxPosts -> 0 .. SendCount + 1],
         CommsOK(x), LogOK(x, k), BuffersOK(x, k), RequestsOK(x, v, k), QueuesOK(x, v, k)
  PROVE  Sane(x, v, k) /\ x.initialized
<1> DEFINE h == AllocatedHandle(l.pool)
<1>1. /\ h \in AllItems \ {NULL} /\ h \notin DOMAIN u /\ h \notin DOMAIN l.comm
      /\ InUse(AllocHandle(l.pool), (DOMAIN u \cup DOMAIN l.comm) \cup {h})
      /\ AllocHandle(l.pool) \in Pools
  BY NewHandle
<1> HIDE DEF h
<1>2. /\ Shape(x) /\ x.num = l.num /\ x.initialized = l.initialized /\ x.abort = l.abort
      /\ x.pool = AllocHandle(l.pool)
      /\ x.comm = comm /\ x.req = req /\ x.mem = mem /\ x.items = items
  BY DEF Posts
<1>3. DOMAIN v = DOMAIN u \cup {h}
  BY DEF With, h
<1>4. /\ l.abort = "" /\ TablesOK(l) /\ HeldOK(u, g)
      /\ DOMAIN u \subseteq AllItems \ {NULL} /\ DOMAIN u \cap DOMAIN l.comm = {}
  BY DEF Sane, Kept
<1>5. TablesOK(x)
  <2>1. l.num \in 0 .. MaxComms /\ l.initialized \in BOOLEAN
    BY <1>4 DEF TablesOK
  <2> QED BY <1>1, <1>2, <1>4, <2>1 DEF TablesOK
<1>6. DOMAIN v \subseteq AllItems \ {NULL} /\ DOMAIN v \cap DOMAIN x.comm = {}
  BY <1>1, <1>2, <1>3, <1>4
<1>7. Kept(x, v, k)
  BY <1>5, <1>6 DEF Kept
<1>8. HeldOK(v, k)
  BY <1>1, <1>4, HeldPosted DEF h
<1>9. PoolOK(x, v)
  <2>1. DOMAIN v \cup DOMAIN x.comm = (DOMAIN u \cup DOMAIN l.comm) \cup {h}
    BY <1>2, <1>3
  <2> QED BY <2>1, <1>1, <1>2 DEF PoolOK
<1> QED BY <1>2, <1>4, <1>7, <1>8, <1>9 DEF Sane

-----------------------------------------------------------------------------
(* A send or receive without a partner is appended to its list.            *)

\* comm2 is the table comm in which communicator c has these lists.
Relisted(comm2, comm, c, sendlist, recvlist) ==
  /\ DOMAIN comm2 = DOMAIN comm
  /\ \A d \in DOMAIN comm : /\ CommShape(comm2[d]) /\ comm2[d].num = comm[d].num
                            /\ d # c => /\ comm2[d].sendlist = comm[d].sendlist
                                        /\ comm2[d].recvlist = comm[d].recvlist
  /\ comm2[c].sendlist = sendlist /\ comm2[c].recvlist = recvlist

LEMMA RelistedOK ==
  ASSUME NEW l, CommsOK(l), NEW c \in DOMAIN l.comm, NEW x, x.num = l.num,
         x.initialized = l.initialized, NEW sl, NEW rl,
         Relisted(x.comm, l.comm, c, sl, rl), ListOK(sl), ListOK(rl)
  PROVE  CommsOK(x)
<1>1. /\ DOMAIN x.comm \subseteq AllItems \ {NULL}
      /\ x.initialized => MPI_COMM_WORLD \in DOMAIN x.comm
  BY DEF CommsOK, Relisted
<1>2. ASSUME NEW d \in DOMAIN x.comm
      PROVE  /\ CommShape(x.comm[d])
             /\ ListOK(x.comm[d].sendlist) /\ ListOK(x.comm[d].recvlist)
             /\ x.comm[d].num \in 0 .. x.num - 1
  <2>1. CASE d = c
    BY <2>1 DEF CommsOK, Relisted
  <2>2. CASE d # c
    BY <2>2 DEF CommsOK, Relisted
  <2> QED BY <2>1, <2>2
<1>3. \A d, f \in DOMAIN x.comm : x.comm[d].num = x.comm[f].num => d = f
  BY DEF CommsOK, Relisted
<1> QED BY <1>1, <1>2, <1>3 DEF CommsOK

LEMMA SetSendList ==
  ASSUME NEW l, CommsOK(l), NEW c \in DOMAIN l.comm, NEW sl
  PROVE  LET comm == [l.comm EXCEPT ![c] = [l.comm[c] EXCEPT !.sendlist = sl]]
         IN  Relisted(comm, l.comm, c, sl, l.comm[c].recvlist)
<1>1. \A d \in DOMAIN l.comm : CommShape(l.comm[d])
  BY DEF CommsOK
<1> QED BY <1>1 DEF Relisted, CommShape

LEMMA SetRecvList ==
  ASSUME NEW l, CommsOK(l), NEW c \in DOMAIN l.comm, NEW rl
  PROVE  LET comm == [l.comm EXCEPT ![c] = [l.comm[c] EXCEPT !.recvlist = rl]]
         IN  Relisted(comm, l.comm, c, l.comm[c].sendlist, rl)
<1>1. \A d \in DOMAIN l.comm : CommShape(l.comm[d])
  BY DEF CommsOK
<1> QED BY <1>1 DEF Relisted, CommShape

\* What a request's fields are typed as.
LEMMA ReqFields ==
  ASSUME NEW l, TablesOK(l), NEW h \in AllItems
  PROVE  l.req[h] \in Reqs
BY DEF TablesOK

\* A request of which neither the item nor the buffer is touched.
LEMMA OtherRequest ==
  ASSUME NEW l, NEW u, NEW g, Sane(l, u, g), NEW j \in DOMAIN u, NEW k, Prolongs(k, g),
         NEW mem, u[j].id # 0 => (Moved(mem, u[j]) <=> Moved(l.mem, u[j])),
         u[j].kind = "recv" /\ u[j].id # 0 => mem[u[j].id] = l.mem[u[j].id]
  PROVE  RequestOK(l.req[j], u[j], mem, k)
<1>1. TablesOK(l) /\ LogOK(l, g) /\ BuffersOK(l, g) /\ HeldOK(u, g) /\ RequestsOK(l, u, g)
  BY DEF Sane, Kept
<1>2. /\ RequestOK(l.req[j], u[j], l.mem, g) /\ u[j].kind \in Kinds
      /\ u[j].id \in 0 .. Len(Posted(g, u[j].kind))
  BY <1>1 DEF RequestsOK, HeldOK
<1>3. u[j].kind = "recv" /\ u[j].id # 0 => l.mem[u[j].id] \in 0 .. Len(g.sends)
  <2> SUFFICES ASSUME u[j].kind = "recv", u[j].id # 0
               PROVE  l.mem[u[j].id] \in 0 .. Len(g.sends)
    OBVIOUS
  <2>1. /\ Len(g.recvs) \in Nat /\ Len(g.recvs) <= MaxPosts
        /\ Len(g.sends) \in Nat /\ MaxPosts \in Nat
    BY <1>1, LogTypes
  <2>2. u[j].id \in 0 .. Len(g.recvs)
    BY <1>2 DEF Posted
  <2>3. u[j].id \in 1 .. MaxPosts
    BY <2>1, <2>2
  <2>4. l.mem[u[j].id] \in 0 .. MaxPosts
    <3>1. l.mem \in [1 .. MaxPosts -> 0 .. MaxPosts]
      BY <1>1 DEF TablesOK
    <3> QED BY <2>3, <3>1
  <2>5. l.mem[u[j].id] = 0 \/ l.mem[u[j].id] <= Len(g.sends)
    BY <2>3, <1>1 DEF BuffersOK
  <2> QED BY <2>1, <2>4, <2>5
<1> QED BY <1>2, <1>3, RequestKept

\* A request that waits for a partner: its item and the others'.
LEMMA PendingOK ==
  ASSUME NEW l, NEW u, NEW g, Sane(l, u, g), NEW h \in AllItems, h \notin DOMAIN u,
         NEW kind \in Kinds, NEW id \in 1 .. MaxPosts, NEW tag \in Tags \cup {ANY_TAG},
         NEW k, Prolongs(k, g), Posted(k, kind)[id].tag = tag,
         kind = "send" => id > Len(g.sends), kind = "recv" => id > Len(g.recvs)
  PROVE  LET req == [l.req EXCEPT ![h] = Pending(l.req[h], id, tag)]
             e == [kind |-> kind, id |-> id]
         IN  /\ req \in [AllItems -> Reqs]
             /\ req[h].complete = 0 /\ \A j \in DOMAIN u : req[j] = l.req[j]
             /\ \A j \in DOMAIN With(u, h, e) : RequestOK(req[j], With(u, h, e)[j], l.mem, k)
<1> DEFINE req == [l.req EXCEPT ![h] = Pending(l.req[h], id, tag)]
           e == [kind |-> kind, id |-> id]
           v == With(u, h, e)
           q == Pending(l.req[h], id, tag)
<1>1. TablesOK(l) /\ LogOK(l, g) /\ BuffersOK(l, g) /\ HeldOK(u, g) /\ RequestsOK(l, u, g)
  BY DEF Sane, Kept
<1>2. l.req \in [AllItems -> Reqs] /\ l.mem \in [1 .. MaxPosts -> 0 .. MaxPosts]
  BY <1>1 DEF TablesOK
<1>3. /\ q.buf = id /\ q.tag = tag /\ q.complete = 0 /\ q \in Reqs
  <2>1. l.req[h] \in Reqs
    BY <1>2
  <2> QED BY <2>1 DEF Pending, Reqs
<1> HIDE DEF q
<1>4. req \in [AllItems -> Reqs] /\ req[h] = q /\ \A j \in AllItems \ {h} : req[j] = l.req[j]
  BY <1>2, <1>3 DEF q
<1>5. \A j \in DOMAIN u : req[j] = l.req[j]
  <2>1. DOMAIN u \subseteq AllItems
    BY DEF Sane, Kept
  <2> QED BY <1>4, <2>1
<1>6. /\ DOMAIN v = DOMAIN u \cup {h} /\ v[h] = e /\ \A j \in DOMAIN u : v[j] = u[j]
      /\ e.kind = kind /\ e.id = id
  BY DEF With
<1> HIDE DEF req, v, e
<1>7. RequestOK(q, e, l.mem, k)
  <2>0. id # 0 /\ Len(g.sends) \in Nat /\ Len(g.recvs) \in Nat
    BY <1>1, LogTypes
  <2>1. ~Moved(l.mem, e)
    <3>1. CASE kind = "send"
      <4>1. \A b \in 1 .. MaxPosts : l.mem[b] = 0 \/ l.mem[b] <= Len(g.sends)
        BY <1>1 DEF BuffersOK
      <4>2. \A b \in 1 .. MaxPosts : l.mem[b] # id
        BY <2>0, <3>1, <4>1
      <4>3. id \notin Range(l.mem)
        BY <4>2, <1>2 DEF Range
      <4> QED BY <4>3, <3>1, <1>6 DEF Moved
    <3>2. CASE kind = "recv"
      <4>1. l.mem[id] = 0
        BY <1>1, <2>0, <3>2 DEF BuffersOK
      <4> QED BY <4>1, <3>2, <1>6 DEF Moved
    <3> QED BY <3>1, <3>2 DEF Kinds
  <2>2. e.kind = "recv" => l.mem[e.id] = 0
    BY <2>1, <1>6 DEF Moved
  <2> QED BY <2>0, <2>1, <2>2, <1>3, <1>6 DEF RequestOK
<1>8. ASSUME NEW j \in DOMAIN u
      PROVE  RequestOK(l.req[j], u[j], l.mem, k)
  BY OtherRequest
<1>9. \A j \in DOMAIN v : RequestOK(req[j], v[j], l.mem, k)
  BY <1>4, <1>5, <1>6, <1>7, <1>8
<1> QED BY <1>3, <1>4, <1>5, <1>9 DEF req, v, e, q

\* A buffer keeps its message or gets one whole.
LEMMA BuffersStep ==
  ASSUME NEW l, NEW g, TablesOK(l), LogOK(l, g), BuffersOK(l, g), NEW k, Prolongs(k, g), NEW x,
         \A b \in 1 .. MaxPosts :
           \/ x.mem[b] = l.mem[b] /\ x.items[b] = l.items[b]
           \/ /\ x.mem[b] # 0 /\ b <= Len(k.recvs) /\ x.mem[b] <= Len(k.sends)
              /\ x.items[b] \in SendCount .. RecvCount(k.recvs[b].tag)
  PROVE  BuffersOK(x, k)
<1> SUFFICES ASSUME NEW b \in 1 .. MaxPosts, x.mem[b] = l.mem[b], x.items[b] = l.items[b],
                    l.mem[b] # 0
             PROVE  /\ b <= Len(k.recvs) /\ l.mem[b] <= Len(k.sends)
                    /\ l.items[b] \in SendCount .. RecvCount(k.recvs[b].tag)
  BY DEF BuffersOK
<1>1. /\ b <= Len(g.recvs) /\ l.mem[b] <= Len(g.sends)
      /\ l.items[b] \in SendCount .. RecvCount(g.recvs[b].tag)
  BY DEF BuffersOK
<1>2. /\ Len(g.recvs) \in Nat /\ Len(k.recvs) \in Nat /\ Len(g.recvs) <= Len(k.recvs)
      /\ Len(g.sends) \in Nat /\ Len(k.sends) \in Nat /\ Len(g.sends) <= Len(k.sends)
      /\ \A i \in 1 .. Len(g.recvs) : k.recvs[i] = g.recvs[i]
  BY DEF Prolongs, Posted, Kinds
<1>3. b \in 1 .. Len(g.recvs)
  BY <1>1, <1>2
<1>4. l.mem[b] \in Nat
  <2>1. l.mem \in [1 .. MaxPosts -> 0 .. MaxPosts]
    BY DEF TablesOK
  <2> QED BY <2>1, MessagesAssumption
<1> QED BY <1>1, <1>2, <1>3, <1>4, SMTT(30)

LEMMA IsendPendsSane ==
  ASSUME NEW l, NEW u, NEW g, Sane(l, u, g), l.initialized, ~Full(l.pool),
         NEW c \in DOMAIN l.comm, NEW tag \in Tags,
         Len(g.sends) + Len(g.recvs) + 1 <= MaxPosts,
         FindRecv(l, c, tag) = NoItem
  PROVE  LET m == Len(g.sends) + 1
             x == MPI_Isend(l, c, m, tag)
         IN  /\ Sane(x, With(u, AllocatedHandle(l.pool), [kind |-> "send", id |-> m]),
                     [g EXCEPT !.sends = Append(@, [comm |-> l.comm[c].num, tag |-> tag])])
             /\ x.initialized
<1> DEFINE m == Len(g.sends) + 1
           x == MPI_Isend(l, c, m, tag)
           h == AllocatedHandle(l.pool)
           e == [kind |-> "send", id |-> m]
           v == With(u, h, e)
           env == [comm |-> l.comm[c].num, tag |-> tag]
           k == [g EXCEPT !.sends = Append(@, env)]
           q == l.comm[c]
           sl == AP_list_append(q.sendlist, Malloc(q.sendlist), h)
           comm == [l.comm EXCEPT ![c] = [q EXCEPT !.sendlist = sl]]
           req == [l.req EXCEPT ![h] = Pending(l.req[h], m, tag)]
<1>1. /\ TablesOK(l) /\ CommsOK(l) /\ LogOK(l, g) /\ BuffersOK(l, g) /\ HeldOK(u, g)
      /\ QueuesOK(l, u, g) /\ l.abort = ""
  BY DEF Sane, Kept
<1>2. h \in AllItems \ {NULL} /\ h \notin DOMAIN u /\ h \notin DOMAIN l.comm
  BY NewHandle
<1>3. /\ Shape(l) /\ CommShape(q) /\ ListOK(q.sendlist) /\ ListOK(q.recvlist)
      /\ q.num \in 0 .. l.num - 1
  BY <1>1 DEF TablesOK, CommsOK
<1>4. Posts(x, l, comm, req, l.mem, l.items)
  BY <1>1, <1>3, IsendPends
<1>5. /\ Len(g.sends) \in Nat /\ m \in 1 .. MaxPosts /\ m > Len(g.sends)
  <2> DEFINE a == Len(g.sends)
             b == Len(g.recvs)
  <2>1. a \in Nat /\ b \in Nat /\ a + b + 1 <= MaxPosts /\ MaxPosts \in Nat
    BY <1>1, LogTypes
  <2> HIDE DEF a, b
  <2>2. a \in Nat /\ a + 1 \in 1 .. MaxPosts /\ a + 1 > a
    BY <2>1
  <2> QED BY <2>2 DEF a
<1>6. env \in [comm : 0 .. l.num - 1, tag : Tags]
  BY <1>3
<1> HIDE DEF x, h, comm, req, sl, q
<1>7. LogOK(x, k) /\ Longer(k, g, "send", env) /\ Prolongs(k, g)
  <2>1. x.num = l.num
    BY <1>4 DEF Posts
  <2> HIDE DEF env
  <2> QED BY <2>1, <1>1, <1>6, LogSent
<1>8. Posted(k, "send")[m] = env /\ Len(Posted(k, "send")) = Len(Posted(g, "send")) + 1
  BY <1>7 DEF Longer, Posted
<1> HIDE DEF k, m
<1>9. /\ req \in [AllItems -> Reqs]
      /\ req[h].complete = 0 /\ \A j \in DOMAIN u : req[j] = l.req[j]
      /\ \A j \in DOMAIN v : RequestOK(req[j], v[j], l.mem, k)
  <2>1. Posted(k, "send")[m].tag = tag
    BY <1>8
  <2> QED BY <1>2, <1>5, <1>7, <2>1, PendingOK DEF Kinds, req
<1>10. Relisted(comm, l.comm, c, sl, q.recvlist)
  BY <1>1, SetSendList DEF comm, q
<1>11. /\ x.num = l.num /\ x.initialized = l.initialized
       /\ x.comm = comm /\ x.req = req /\ x.mem = l.mem /\ x.items = l.items
  BY <1>4 DEF Posts
\* The lists.
<1>12. /\ DOMAIN v = DOMAIN u \cup {h} /\ v[h] = e /\ \A j \in DOMAIN u : v[j] = u[j]
       /\ e.kind = "send" /\ e.id = m
  BY <1>2 DEF With
<1>13. ASSUME NEW kind \in Kinds, NEW num
       PROVE  Open(req, v, Posted(k, kind), kind, num)
                = Open(l.req, u, Posted(g, kind), kind, num)
                    \cup (IF kind = "send" /\ q.num = num THEN {h} ELSE {})
  <2> DEFINE P == {}
  <2>1. Completed(req, l.req, u, P)
    BY <1>9 DEF Completed
  <2>2. Open(req, v, Posted(k, kind), kind, num)
          = (Open(l.req, u, Posted(g, kind), kind, num) \ P)
              \cup Joins(h, e, req, Posted(k, kind), kind, num)
    <3>1. v = With(u, h, e)
      OBVIOUS
    <3>2. HeldOK(u, g) /\ Prolongs(k, g) /\ h \notin DOMAIN u
      BY <1>1, <1>2, <1>7
    <3> HIDE DEF e, v, P
    <3> QED BY <3>1, <3>2, <2>1, OpenPosted
  <2>3. CASE kind = "send"
    <3>1. Posted(k, kind)[e.id].comm = q.num
      BY <2>3, <1>8, <1>12 DEF q
    <3> HIDE DEF e, v
    <3> QED BY <2>2, <2>3, <3>1, <1>5, <1>9, <1>12 DEF Joins
  <2>4. CASE kind # "send"
    <3> HIDE DEF e, v
    <3> QED BY <2>2, <2>4, <1>12 DEF Joins
  <2> QED BY <2>3, <2>4
<1> HIDE DEF e, v
<1>14. ASSUME NEW d \in DOMAIN l.comm
       PROVE  /\ Queue(Data(l.comm[d].sendlist),
                       Open(l.req, u, g.sends, "send", l.comm[d].num), u)
              /\ Queue(Data(l.comm[d].recvlist),
                       Open(l.req, u, g.recvs, "recv", l.comm[d].num), u)
              /\ Open(l.req, u, g.sends, "send", l.comm[d].num) \subseteq DOMAIN u
              /\ Open(l.req, u, g.recvs, "recv", l.comm[d].num) \subseteq DOMAIN u
              /\ d # c => l.comm[d].num # q.num
  BY <1>1 DEF QueuesOK, Open, CommsOK, q
<1>15. ListOK(sl) /\ Queue(Data(sl), Open(l.req, u, g.sends, "send", q.num) \cup {h}, v)
  <2> DEFINE S == Open(l.req, u, g.sends, "send", q.num)
  <2>1. Queue(Data(q.sendlist), S, u)
    BY <1>14 DEF q
  <2>2. \A j \in S : v[j] = u[j] /\ u[j].id < v[h].id
    <3> SUFFICES ASSUME NEW j \in S PROVE v[j] = u[j] /\ u[j].id < v[h].id
      OBVIOUS
    <3>1. j \in DOMAIN u /\ u[j].kind = "send"
      BY DEF Open
    <3>2. u[j].id \in 0 .. Len(g.sends)
      BY <3>1, <1>1 DEF HeldOK, Posted
    <3>3. u[j].id < m
      BY <3>2, <1>5
    <3> QED BY <3>1, <3>3, <1>12
  <2> HIDE DEF S
  <2>3. ListOK(sl) /\ Queue(Data(sl), S \cup {h}, v)
    BY <2>1, <2>2, <1>3, QueueAppended DEF sl
  <2> QED BY <2>3 DEF S
<1>16. CommsOK(x)
  BY <1>1, <1>3, <1>10, <1>11, <1>15, RelistedOK
<1>17. QueuesOK(x, v, k)
  <2> SUFFICES ASSUME NEW d \in DOMAIN l.comm
               PROVE  /\ Queue(Data(comm[d].sendlist),
                               Open(req, v, k.sends, "send", comm[d].num), v)
                      /\ Queue(Data(comm[d].recvlist),
                               Open(req, v, k.recvs, "recv", comm[d].num), v)
    BY <1>10, <1>11 DEF QueuesOK, Relisted
  <2>1. comm[d].num = l.comm[d].num
    BY <1>10 DEF Relisted
  <2>2. /\ Open(req, v, k.sends, "send", comm[d].num)
             = Open(l.req, u, g.sends, "send", l.comm[d].num)
                 \cup (IF q.num = l.comm[d].num THEN {h} ELSE {})
        /\ Open(req, v, k.recvs, "recv", comm[d].num)
             = Open(l.req, u, g.recvs, "recv", l.comm[d].num)
    BY <2>1, <1>13 DEF Posted, Kinds
  <2>3. Queue(Data(comm[d].recvlist), Open(req, v, k.recvs, "recv", comm[d].num), v)
    <3>1. comm[d].recvlist = l.comm[d].recvlist
      BY <1>10 DEF Relisted, q
    <3> QED BY <3>1, <2>2, <1>12, <1>14, QueueKept
  <2>4. CASE d = c
    <3>1. comm[d].sendlist = sl /\ l.comm[d].num = q.num
      BY <2>4, <1>10 DEF Relisted, q
    <3>2. Queue(Data(comm[d].sendlist), Open(req, v, k.sends, "send", comm[d].num), v)
      BY <3>1, <2>2, <1>15
    <3> QED BY <3>2, <2>3
  <2>5. CASE d # c
    <3>1. comm[d].sendlist = l.comm[d].sendlist /\ l.comm[d].num # q.num
      BY <2>5, <1>10, <1>14 DEF Relisted
    <3>2. Open(req, v, k.sends, "send", comm[d].num) = Open(l.req, u, g.sends, "send", l.comm[d].num)
      BY <3>1, <2>2
    <3>3. Queue(Data(comm[d].sendlist), Open(req, v, k.sends, "send", comm[d].num), v)
      BY <3>1, <3>2, <1>12, <1>14, QueueKept
    <3> QED BY <3>3, <2>3
  <2> QED BY <2>4, <2>5
\* The rest.
<1>18. RequestsOK(x, v, k)
  BY <1>9, <1>11 DEF RequestsOK
<1>19. BuffersOK(x, k)
  BY <1>1, <1>7, <1>11, BuffersStep
<1>20. DOMAIN comm = DOMAIN l.comm
  BY <1>10 DEF Relisted
<1>21. /\ l.mem \in [1 .. MaxPosts -> 0 .. MaxPosts]
       /\ l.items \in [1 .. MaxPosts -> 0 .. SendCount + 1]
  BY <1>1 DEF TablesOK
<1>22. m = Len(Posted(g, "send")) + 1
  BY DEF m, Posted
<1>23. "send" \in Kinds
  BY DEF Kinds
<1>24. v = With(u, AllocatedHandle(l.pool), [kind |-> "send", id |-> m])
  BY DEF v, h, e
<1>25. Sane(x, v, k) /\ x.initialized
  BY <1>4, <1>7, <1>8, <1>9, <1>16, <1>17, <1>18, <1>19, <1>20, <1>21, <1>22, <1>23, <1>24,
     PostSane
<1> QED BY <1>25 DEF x, v, m, k, h, e

LEMMA IrecvPendsSane ==
  ASSUME NEW l, NEW u, NEW g, Sane(l, u, g), l.initialized, ~Full(l.pool),
         NEW c \in DOMAIN l.comm, NEW tag \in Tags \cup {ANY_TAG},
         Len(g.sends) + Len(g.recvs) + 1 <= MaxPosts,
         FindSend(l, c, tag) = NoItem
  PROVE  LET m == Len(g.recvs) + 1
             x == MPI_Irecv(l, c, m, tag)
         IN  /\ Sane(x, With(u, AllocatedHandle(l.pool), [kind |-> "recv", id |-> m]),
                     [g EXCEPT !.recvs = Append(@, [comm |-> l.comm[c].num, tag |-> tag])])
             /\ x.initialized
<1> DEFINE m == Len(g.recvs) + 1
           x == MPI_Irecv(l, c, m, tag)
           h == AllocatedHandle(l.pool)
           e == [kind |-> "recv", id |-> m]
           v == With(u, h, e)
           env == [comm |-> l.comm[c].num, tag |-> tag]
           k == [g EXCEPT !.recvs = Append(@, env)]
           q == l.comm[c]
           sl == AP_list_append(q.recvlist, Malloc(q.recvlist), h)
           comm == [l.comm EXCEPT ![c] = [q EXCEPT !.recvlist = sl]]
           req == [l.req EXCEPT ![h] = Pending(l.req[h], m, tag)]
<1>1. /\ TablesOK(l) /\ CommsOK(l) /\ LogOK(l, g) /\ BuffersOK(l, g) /\ HeldOK(u, g)
      /\ QueuesOK(l, u, g) /\ l.abort = ""
  BY DEF Sane, Kept
<1>2. h \in AllItems \ {NULL} /\ h \notin DOMAIN u /\ h \notin DOMAIN l.comm
  BY NewHandle
<1>3. /\ Shape(l) /\ CommShape(q) /\ ListOK(q.recvlist) /\ ListOK(q.sendlist)
      /\ q.num \in 0 .. l.num - 1
  BY <1>1 DEF TablesOK, CommsOK
<1>4. Posts(x, l, comm, req, l.mem, l.items)
  BY <1>1, <1>3, IrecvPends
<1>5. /\ Len(g.recvs) \in Nat /\ m \in 1 .. MaxPosts /\ m > Len(g.recvs)
  <2> DEFINE a == Len(g.recvs)
             b == Len(g.sends)
  <2>1. a \in Nat /\ b \in Nat /\ b + a + 1 <= MaxPosts /\ MaxPosts \in Nat
    BY <1>1, LogTypes
  <2> HIDE DEF a, b
  <2>2. a \in Nat /\ a + 1 \in 1 .. MaxPosts /\ a + 1 > a
    BY <2>1
  <2> QED BY <2>2 DEF a
<1>6. env \in [comm : 0 .. l.num - 1, tag : Tags \cup {ANY_TAG}]
  BY <1>3
<1> HIDE DEF x, h, comm, req, sl, q
<1>7. LogOK(x, k) /\ Longer(k, g, "recv", env) /\ Prolongs(k, g)
  <2>1. x.num = l.num
    BY <1>4 DEF Posts
  <2> HIDE DEF env
  <2> QED BY <2>1, <1>1, <1>6, LogReceived
<1>8. Posted(k, "recv")[m] = env /\ Len(Posted(k, "recv")) = Len(Posted(g, "recv")) + 1
  BY <1>7 DEF Longer, Posted
<1> HIDE DEF k, m
<1>9. /\ req \in [AllItems -> Reqs]
      /\ req[h].complete = 0 /\ \A j \in DOMAIN u : req[j] = l.req[j]
      /\ \A j \in DOMAIN v : RequestOK(req[j], v[j], l.mem, k)
  <2>1. Posted(k, "recv")[m].tag = tag
    BY <1>8
  <2> QED BY <1>2, <1>5, <1>7, <2>1, PendingOK DEF Kinds, req
<1>10. Relisted(comm, l.comm, c, q.sendlist, sl)
  BY <1>1, SetRecvList DEF comm, q
<1>11. /\ x.num = l.num /\ x.initialized = l.initialized
       /\ x.comm = comm /\ x.req = req /\ x.mem = l.mem /\ x.items = l.items
  BY <1>4 DEF Posts
\* The lists.
<1>12. /\ DOMAIN v = DOMAIN u \cup {h} /\ v[h] = e /\ \A j \in DOMAIN u : v[j] = u[j]
       /\ e.kind = "recv" /\ e.id = m
  BY <1>2 DEF With
<1>13. ASSUME NEW kind \in Kinds, NEW num
       PROVE  Open(req, v, Posted(k, kind), kind, num)
                = Open(l.req, u, Posted(g, kind), kind, num)
                    \cup (IF kind = "recv" /\ q.num = num THEN {h} ELSE {})
  <2> DEFINE P == {}
  <2>1. Completed(req, l.req, u, P)
    BY <1>9 DEF Completed
  <2>2. Open(req, v, Posted(k, kind), kind, num)
          = (Open(l.req, u, Posted(g, kind), kind, num) \ P)
              \cup Joins(h, e, req, Posted(k, kind), kind, num)
    <3>1. v = With(u, h, e)
      OBVIOUS
    <3>2. HeldOK(u, g) /\ Prolongs(k, g) /\ h \notin DOMAIN u
      BY <1>1, <1>2, <1>7
    <3> HIDE DEF e, v, P
    <3> QED BY <3>1, <3>2, <2>1, OpenPosted
  <2>3. CASE kind = "recv"
    <3>1. Posted(k, kind)[e.id].comm = q.num
      BY <2>3, <1>8, <1>12 DEF q
    <3> HIDE DEF e, v
    <3> QED BY <2>2, <2>3, <3>1, <1>5, <1>9, <1>12 DEF Joins
  <2>4. CASE kind # "recv"
    <3> HIDE DEF e, v
    <3> QED BY <2>2, <2>4, <1>12 DEF Joins
  <2> QED BY <2>3, <2>4
<1> HIDE DEF e, v
<1>14. ASSUME NEW d \in DOMAIN l.comm
       PROVE  /\ Queue(Data(l.comm[d].recvlist),
                       Open(l.req, u, g.recvs, "recv", l.comm[d].num), u)
              /\ Queue(Data(l.comm[d].sendlist),
                       Open(l.req, u, g.sends, "send", l.comm[d].num), u)
              /\ Open(l.req, u, g.recvs, "recv", l.comm[d].num) \subseteq DOMAIN u
              /\ Open(l.req, u, g.sends, "send", l.comm[d].num) \subseteq DOMAIN u
              /\ d # c => l.comm[d].num # q.num
  BY <1>1 DEF QueuesOK, Open, CommsOK, q
<1>15. ListOK(sl) /\ Queue(Data(sl), Open(l.req, u, g.recvs, "recv", q.num) \cup {h}, v)
  <2> DEFINE S == Open(l.req, u, g.recvs, "recv", q.num)
  <2>1. Queue(Data(q.recvlist), S, u)
    BY <1>14 DEF q
  <2>2. \A j \in S : v[j] = u[j] /\ u[j].id < v[h].id
    <3> SUFFICES ASSUME NEW j \in S PROVE v[j] = u[j] /\ u[j].id < v[h].id
      OBVIOUS
    <3>1. j \in DOMAIN u /\ u[j].kind = "recv"
      BY DEF Open
    <3>2. u[j].id \in 0 .. Len(g.recvs)
      BY <3>1, <1>1 DEF HeldOK, Posted
    <3>3. u[j].id < m
      BY <3>2, <1>5
    <3> QED BY <3>1, <3>3, <1>12
  <2> HIDE DEF S
  <2>3. ListOK(sl) /\ Queue(Data(sl), S \cup {h}, v)
    BY <2>1, <2>2, <1>3, QueueAppended DEF sl
  <2> QED BY <2>3 DEF S
<1>16. CommsOK(x)
  BY <1>1, <1>3, <1>10, <1>11, <1>15, RelistedOK
<1>17. QueuesOK(x, v, k)
  <2> SUFFICES ASSUME NEW d \in DOMAIN l.comm
               PROVE  /\ Queue(Data(comm[d].recvlist),
                               Open(req, v, k.recvs, "recv", comm[d].num), v)
                      /\ Queue(Data(comm[d].sendlist),
                               Open(req, v, k.sends, "send", comm[d].num), v)
    BY <1>10, <1>11 DEF QueuesOK, Relisted
  <2>1. comm[d].num = l.comm[d].num
    BY <1>10 DEF Relisted
  <2>2. /\ Open(req, v, k.recvs, "recv", comm[d].num)
             = Open(l.req, u, g.recvs, "recv", l.comm[d].num)
                 \cup (IF q.num = l.comm[d].num THEN {h} ELSE {})
        /\ Open(req, v, k.sends, "send", comm[d].num)
             = Open(l.req, u, g.sends, "send", l.comm[d].num)
    BY <2>1, <1>13 DEF Posted, Kinds
  <2>3. Queue(Data(comm[d].sendlist), Open(req, v, k.sends, "send", comm[d].num), v)
    <3>1. comm[d].sendlist = l.comm[d].sendlist
      BY <1>10 DEF Relisted, q
    <3> QED BY <3>1, <2>2, <1>12, <1>14, QueueKept
  <2>4. CASE d = c
    <3>1. comm[d].recvlist = sl /\ l.comm[d].num = q.num
      BY <2>4, <1>10 DEF Relisted, q
    <3>2. Queue(Data(comm[d].recvlist), Open(req, v, k.recvs, "recv", comm[d].num), v)
      BY <3>1, <2>2, <1>15
    <3> QED BY <3>2, <2>3
  <2>5. CASE d # c
    <3>1. comm[d].recvlist = l.comm[d].recvlist /\ l.comm[d].num # q.num
      BY <2>5, <1>10, <1>14 DEF Relisted
    <3>2. Open(req, v, k.recvs, "recv", comm[d].num) = Open(l.req, u, g.recvs, "recv", l.comm[d].num)
      BY <3>1, <2>2
    <3>3. Queue(Data(comm[d].recvlist), Open(req, v, k.recvs, "recv", comm[d].num), v)
      BY <3>1, <3>2, <1>12, <1>14, QueueKept
    <3> QED BY <3>3, <2>3
  <2> QED BY <2>4, <2>5
\* The rest.
<1>18. RequestsOK(x, v, k)
  BY <1>9, <1>11 DEF RequestsOK
<1>19. BuffersOK(x, k)
  BY <1>1, <1>7, <1>11, BuffersStep
<1>20. DOMAIN comm = DOMAIN l.comm
  BY <1>10 DEF Relisted
<1>21. /\ l.mem \in [1 .. MaxPosts -> 0 .. MaxPosts]
       /\ l.items \in [1 .. MaxPosts -> 0 .. SendCount + 1]
  BY <1>1 DEF TablesOK
<1>22. m = Len(Posted(g, "recv")) + 1
  BY DEF m, Posted
<1>23. "recv" \in Kinds
  BY DEF Kinds
<1>24. v = With(u, AllocatedHandle(l.pool), [kind |-> "recv", id |-> m])
  BY DEF v, h, e
<1>25. Sane(x, v, k) /\ x.initialized
  BY <1>4, <1>7, <1>8, <1>9, <1>16, <1>17, <1>18, <1>19, <1>20, <1>21, <1>22, <1>23, <1>24,
     PostSane
<1> QED BY <1>25 DEF x, v, m, k, h, e

-----------------------------------------------------------------------------
(* A send or receive that finds its partner.                               *)

\* What is known of an open request j of communicator num.
OpenRequest(l, u, g, kind, num, j) ==
  /\ j \in DOMAIN u /\ j \in AllItems /\ u[j].kind = kind
  /\ u[j].id \in 1 .. Len(Posted(g, kind)) /\ u[j].id \in 1 .. MaxPosts
  /\ Posted(g, kind)[u[j].id].comm = num
  /\ l.req[j].complete = 0 /\ l.req[j].buf = u[j].id
  /\ l.req[j].tag = Posted(g, kind)[u[j].id].tag
  /\ ~Moved(l.mem, u[j])

LEMMA OpenFacts ==
  ASSUME NEW l, NEW u, NEW g, Sane(l, u, g), NEW kind \in Kinds, NEW num,
         NEW j \in Open(l.req, u, Posted(g, kind), kind, num)
  PROVE  OpenRequest(l, u, g, kind, num, j)
<1>1. /\ j \in DOMAIN u /\ u[j].kind = kind /\ u[j].id # 0 /\ l.req[j].complete = 0
      /\ Posted(g, kind)[u[j].id].comm = num
  BY DEF Open
<1>2. /\ TablesOK(l) /\ LogOK(l, g) /\ HeldOK(u, g) /\ RequestsOK(l, u, g)
      /\ DOMAIN u \subseteq AllItems \ {NULL}
  BY DEF Sane, Kept
<1>3. u[j].id \in 0 .. Len(Posted(g, kind))
  BY <1>1, <1>2 DEF HeldOK
<1>4. /\ Len(Posted(g, kind)) \in Nat /\ Len(Posted(g, kind)) <= MaxPosts /\ MaxPosts \in Nat
  BY <1>2, LogTypes DEF Posted, Kinds
<1>5. RequestOK(l.req[j], u[j], l.mem, g)
  BY <1>1, <1>2 DEF RequestsOK
<1>6. /\ l.req[j].buf = u[j].id /\ l.req[j].tag = Posted(g, kind)[u[j].id].tag
      /\ ~Moved(l.mem, u[j])
  BY <1>1, <1>5 DEF RequestOK
<1>7. j \in AllItems /\ u[j].id \in 1 .. Len(Posted(g, kind)) /\ u[j].id \in 1 .. MaxPosts
  <2> DEFINE id == u[j].id
             n == Len(Posted(g, kind))
  <2>1. id \in 0 .. n /\ id # 0 /\ n \in Nat /\ n <= MaxPosts /\ MaxPosts \in Nat
    BY <1>1, <1>3, <1>4
  <2> HIDE DEF id, n
  <2>2. id \in 1 .. n /\ id \in 1 .. MaxPosts
    BY <2>1
  <2> QED BY <2>2, <1>1, <1>2 DEF id, n
<1> QED BY <1>1, <1>6, <1>7 DEF OpenRequest

\* The receive that a send finds.
RecvFound(l, u, g, c, tag, r, i) ==
  LET rl == l.comm[c].recvlist
      a == FindRecv(l, c, tag)
  IN  /\ i \in 1 .. Len(Data(rl))
      /\ r = Data(rl)[i] /\ r = rl.item[a].data /\ a = Visited(rl)[i]
      /\ r \in Open(l.req, u, g.recvs, "recv", l.comm[c].num)
      /\ l.req[r].tag \in {ANY_TAG, tag}

LEMMA RecvIsFound ==
  ASSUME NEW l, NEW u, NEW g, Sane(l, u, g), NEW c \in DOMAIN l.comm, NEW tag,
         FindRecv(l, c, tag) # NoItem
  PROVE  \E r, i : RecvFound(l, u, g, c, tag, r, i)
<1> DEFINE rl == l.comm[c].recvlist
           M == {r \in AllItems : l.req[r].tag \in {ANY_TAG, tag}}
           a == FindRecv(l, c, tag)
<1>1. /\ ListOK(rl)
      /\ Queue(Data(rl), Open(l.req, u, g.recvs, "recv", l.comm[c].num), u)
  BY DEF Sane, Kept, CommsOK, QueuesOK
<1>2. a = AP_list_search_func(rl, M)
  BY DEF FindRecv
<1> HIDE DEF rl, M, a
<1>3. PICK i \in 1 .. Len(Data(rl)) :
        a = Visited(rl)[i] /\ rl.item[a].data = Data(rl)[i] /\ Data(rl)[i] \in M
  BY <1>1, <1>2, SearchData DEF a
<1>4. Data(rl)[i] \in Open(l.req, u, g.recvs, "recv", l.comm[c].num)
  <2>1. i \in DOMAIN Data(rl)
    BY <1>1, DataOfList
  <2> QED BY <1>1, <2>1 DEF Queue, Range
<1>5. RecvFound(l, u, g, c, tag, Data(rl)[i], i)
  BY <1>3, <1>4 DEF RecvFound, rl, M, a
<1> QED BY <1>5

\* The send that a receive finds.
SendFound(l, u, g, c, tag, s, i) ==
  LET sl == l.comm[c].sendlist
      a == FindSend(l, c, tag)
  IN  /\ i \in 1 .. Len(Data(sl))
      /\ s = Data(sl)[i] /\ s = sl.item[a].data /\ a = Visited(sl)[i]
      /\ s \in Open(l.req, u, g.sends, "send", l.comm[c].num)
      /\ tag \in {ANY_TAG, l.req[s].tag}

LEMMA SendIsFound ==
  ASSUME NEW l, NEW u, NEW g, Sane(l, u, g), NEW c \in DOMAIN l.comm, NEW tag,
         FindSend(l, c, tag) # NoItem
  PROVE  \E s, i : SendFound(l, u, g, c, tag, s, i)
<1> DEFINE sl == l.comm[c].sendlist
           M == {r \in AllItems : tag \in {ANY_TAG, l.req[r].tag}}
           a == FindSend(l, c, tag)
<1>1. /\ ListOK(sl)
      /\ Queue(Data(sl), Open(l.req, u, g.sends, "send", l.comm[c].num), u)
  BY DEF Sane, Kept, CommsOK, QueuesOK
<1>2. a = AP_list_search_func(sl, M)
  BY DEF FindSend
<1> HIDE DEF sl, M, a
<1>3. PICK i \in 1 .. Len(Data(sl)) :
        a = Visited(sl)[i] /\ sl.item[a].data = Data(sl)[i] /\ Data(sl)[i] \in M
  BY <1>1, <1>2, SearchData DEF a
<1>4. Data(sl)[i] \in Open(l.req, u, g.sends, "send", l.comm[c].num)
  <2>1. i \in DOMAIN Data(sl)
    BY <1>1, DataOfList
  <2> QED BY <1>1, <2>1 DEF Queue, Range
<1>5. SendFound(l, u, g, c, tag, Data(sl)[i], i)
  BY <1>3, <1>4 DEF SendFound, sl, M, a
<1> QED BY <1>5

\* A message m that is copied to buffer b moves nothing else.
LEMMA MovedOnce ==
  ASSUME NEW mem \in [1 .. MaxPosts -> 0 .. MaxPosts], NEW b \in 1 .. MaxPosts, mem[b] = 0,
         NEW m \in 1 .. MaxPosts, NEW mem2, mem2 = [mem EXCEPT ![b] = m]
  PROVE  /\ mem2 \in [1 .. MaxPosts -> 0 .. MaxPosts]
         /\ mem2[b] = m /\ \A d \in 1 .. MaxPosts : d # b => mem2[d] = mem[d]
         /\ m \in Range(mem2)
         /\ \A i : i # 0 /\ i # m => (i \in Range(mem2) <=> i \in Range(mem))
<1>1. /\ mem2 \in [1 .. MaxPosts -> 0 .. MaxPosts]
      /\ mem2[b] = m /\ \A d \in 1 .. MaxPosts : d # b => mem2[d] = mem[d]
  OBVIOUS
<1>2. m \in Range(mem2)
  BY <1>1 DEF Range
<1>3. ASSUME NEW i, i # 0, i # m
      PROVE  i \in Range(mem2) <=> i \in Range(mem)
  BY <1>1, <1>3 DEF Range
<1> QED BY <1>1, <1>2, <1>3

\* In the request table req2 only the send s and the receive r differ from
\* req: both say that they are complete, and r has the tag of the message.
Met(req2, req, v, s, r, tag) ==
  /\ s \in DOMAIN v /\ r \in DOMAIN v
  /\ \A j \in DOMAIN v \ {s, r} : req2[j] = req[j]
  /\ req2[s].complete = 1
  /\ req2[r].complete = 1 /\ req2[r].source = 0 /\ req2[r].tag = tag

\* Message m of the send s is copied to buffer b of the receive r, one of
\* which is the new request h: all requests say what is so.
LEMMA MeetOK ==
  ASSUME NEW l, NEW u, NEW g, Sane(l, u, g), NEW k, Prolongs(k, g),
         NEW h, h \notin DOMAIN u, NEW e, NEW v, v = With(u, h, e), HeldOK(v, k),
         NEW s, NEW r, h \in {s, r}, v[s].kind = "send", v[r].kind = "recv",
         NEW m \in 1 .. MaxPosts, NEW b \in 1 .. MaxPosts, v[s].id = m, v[r].id = b,
         l.mem[b] = 0, NEW mem2, mem2 = [l.mem EXCEPT ![b] = m],
         NEW req2, Met(req2, l.req, v, s, r, k.sends[m].tag)
  PROVE  \A j \in DOMAIN v : RequestOK(req2[j], v[j], mem2, k)
<1>1. TablesOK(l) /\ LogOK(l, g) /\ HeldOK(u, g)
  BY DEF Sane, Kept
<1>2. /\ mem2 \in [1 .. MaxPosts -> 0 .. MaxPosts]
      /\ mem2[b] = m /\ \A d \in 1 .. MaxPosts : d # b => mem2[d] = l.mem[d]
      /\ m \in Range(mem2)
      /\ \A i : i # 0 /\ i # m => (i \in Range(mem2) <=> i \in Range(l.mem))
  <2>1. l.mem \in [1 .. MaxPosts -> 0 .. MaxPosts]
    BY <1>1 DEF TablesOK
  <2> QED BY <2>1, MovedOnce
<1>3. DOMAIN v = DOMAIN u \cup {h} /\ \A j \in DOMAIN u : v[j] = u[j]
  BY DEF With
<1>4. s \in DOMAIN v /\ r \in DOMAIN v /\ m # 0 /\ b # 0
  BY DEF Met
<1>5. RequestOK(req2[s], v[s], mem2, k)
  BY <1>2, <1>4 DEF RequestOK, Moved, Met
<1>6. RequestOK(req2[r], v[r], mem2, k)
  BY <1>2, <1>4 DEF RequestOK, Moved, Met
<1>7. ASSUME NEW j \in DOMAIN v, j # s, j # r
      PROVE  RequestOK(req2[j], v[j], mem2, k)
  <2>1. j \in DOMAIN u /\ v[j] = u[j] /\ req2[j] = l.req[j]
    BY <1>3, <1>7 DEF Met
  <2>2. u[j].kind \in Kinds /\ u[j].id \in 0 .. Len(Posted(g, u[j].kind))
    BY <1>1, <2>1 DEF HeldOK
  <2>3. /\ u[j].kind = "send" /\ u[j].id # 0 => u[j].id # m
        /\ u[j].kind = "recv" /\ u[j].id # 0 => u[j].id # b
    BY <1>4, <1>7, <2>1 DEF HeldOK
  <2>4. ASSUME u[j].kind = "recv", u[j].id # 0
        PROVE  mem2[u[j].id] = l.mem[u[j].id]
    <3>1. /\ Len(g.recvs) \in Nat /\ Len(g.recvs) <= MaxPosts /\ MaxPosts \in Nat
      BY <1>1, LogTypes
    <3>2. u[j].id \in 0 .. Len(g.recvs)
      BY <2>2, <2>4 DEF Posted
    <3>3. u[j].id \in 1 .. MaxPosts /\ u[j].id # b
      BY <3>1, <3>2, <2>3, <2>4
    <3> QED BY <3>3, <1>2
  <2>5. u[j].id # 0 => (Moved(mem2, u[j]) <=> Moved(l.mem, u[j]))
    BY <1>2, <2>2, <2>3, <2>4 DEF Moved, Kinds
  <2>6. RequestOK(l.req[j], u[j], mem2, k)
    BY <2>1, <2>4, <2>5, OtherRequest
  <2> QED BY <2>1, <2>6
<1> QED BY <1>5, <1>6, <1>7

\* From l to x the receive r is taken out of the list of its communicator c.
TakesRecv(x, l, u, g, c, r, i) ==
  LET q == l.comm[c].recvlist
      new == AP_list_delete_item(q, Visited(q)[i])
  IN  /\ i \in 1 .. Len(Data(q)) /\ r = Data(q)[i]
      /\ r \in Open(l.req, u, g.recvs, "recv", l.comm[c].num)
      /\ x.comm = [l.comm EXCEPT ![c] = [l.comm[c] EXCEPT !.recvlist = new]]
      /\ x.num = l.num /\ x.initialized = l.initialized
      /\ Completed(x.req, l.req, u, {r})

LEMMA RecvTaken ==
  ASSUME NEW l, NEW u, NEW g, Sane(l, u, g), NEW c \in DOMAIN l.comm,
         NEW x, NEW r, NEW i, TakesRecv(x, l, u, g, c, r, i),
         NEW k, Prolongs(k, g),
         NEW h, h \notin DOMAIN u, x.req[h].complete = 1, NEW e, NEW v, v = With(u, h, e)
  PROVE  CommsOK(x) /\ QueuesOK(x, v, k) /\ DOMAIN x.comm = DOMAIN l.comm
<1> DEFINE q == l.comm[c]
           rl == AP_list_delete_item(q.recvlist, Visited(q.recvlist)[i])
<1>0. /\ i \in 1 .. Len(Data(q.recvlist)) /\ r = Data(q.recvlist)[i]
      /\ r \in Open(l.req, u, g.recvs, "recv", q.num)
      /\ x.comm = [l.comm EXCEPT ![c] = [q EXCEPT !.recvlist = rl]]
      /\ x.num = l.num /\ x.initialized = l.initialized
      /\ Completed(x.req, l.req, u, {r})
  BY DEF TakesRecv
<1>1. CommsOK(l) /\ HeldOK(u, g) /\ QueuesOK(l, u, g)
  BY DEF Sane, Kept
<1>2. ListOK(q.sendlist) /\ ListOK(q.recvlist)
  BY <1>1 DEF CommsOK
<1>3. Relisted(x.comm, l.comm, c, q.sendlist, rl)
  BY <1>0, <1>1, SetRecvList
<1> HIDE DEF rl
<1>4. DOMAIN v = DOMAIN u \cup {h} /\ \A j \in DOMAIN u : v[j] = u[j]
  BY DEF With
<1>5. r \in DOMAIN u /\ u[r].kind = "recv" /\ g.recvs[u[r].id].comm = q.num
  BY <1>0 DEF Open
<1>6. ASSUME NEW kind \in Kinds, NEW num
      PROVE  Open(x.req, v, Posted(k, kind), kind, num)
               = Open(l.req, u, Posted(g, kind), kind, num) \ {r}
  <2> DEFINE P == {r}
  <2>1. Completed(x.req, l.req, u, P)
    BY <1>0
  <2> HIDE DEF P
  <2>2. Open(x.req, v, Posted(k, kind), kind, num)
          = (Open(l.req, u, Posted(g, kind), kind, num) \ P)
              \cup Joins(h, e, x.req, Posted(k, kind), kind, num)
    BY <1>1, <2>1, OpenPosted
  <2>3. Joins(h, e, x.req, Posted(k, kind), kind, num) = {}
    BY DEF Joins
  <2> QED BY <2>2, <2>3 DEF P
<1>7. ASSUME NEW d \in DOMAIN l.comm
      PROVE  /\ Queue(Data(l.comm[d].sendlist),
                      Open(l.req, u, g.sends, "send", l.comm[d].num), u)
             /\ Queue(Data(l.comm[d].recvlist),
                      Open(l.req, u, g.recvs, "recv", l.comm[d].num), u)
             /\ Open(l.req, u, g.sends, "send", l.comm[d].num) \subseteq DOMAIN u
             /\ Open(l.req, u, g.recvs, "recv", l.comm[d].num) \subseteq DOMAIN u
             /\ r \notin Open(l.req, u, g.sends, "send", l.comm[d].num)
             /\ d # c => r \notin Open(l.req, u, g.recvs, "recv", l.comm[d].num)
  <2>1. d # c => l.comm[d].num # q.num
    BY <1>1 DEF CommsOK
  <2> QED BY <1>1, <1>5, <2>1 DEF QueuesOK, Open
<1>8. ListOK(rl) /\ Queue(Data(rl), Open(l.req, u, g.recvs, "recv", q.num) \ {r}, v)
  <2> DEFINE S == Open(l.req, u, g.recvs, "recv", q.num)
             ql == l.comm[c].recvlist
  <2>1. ListOK(ql) /\ Queue(Data(ql), S, u) /\ i \in 1 .. Len(Data(ql)) /\ r = Data(ql)[i]
        /\ rl = AP_list_delete_item(ql, Visited(ql)[i])
    BY <1>0, <1>2, <1>7 DEF rl
  <2>2. Same(S, u, v)
    <3> SUFFICES ASSUME NEW j \in S PROVE u[j].id \in Nat /\ v[j] = u[j]
      BY DEF Same
    <3>1. j \in DOMAIN u /\ u[j].kind = "recv"
      BY DEF Open
    <3>2. u[j].id \in 0 .. Len(g.recvs)
      BY <3>1, <1>1 DEF HeldOK, Posted
    <3> QED BY <3>1, <3>2, <1>4
  <2> HIDE DEF S, ql
  <2>3. ListOK(rl) /\ Queue(Data(rl), S \ {Data(ql)[i]}, v)
    BY <2>1, <2>2, QueueDeleted
  <2>4. ListOK(rl) /\ Queue(Data(rl), S \ {r}, v)
    BY <2>1, <2>3
  <2> QED BY <2>4 DEF S
<1>9. CommsOK(x)
  BY <1>0, <1>1, <1>2, <1>3, <1>8, RelistedOK
<1>10. QueuesOK(x, v, k)
  <2> SUFFICES ASSUME NEW d \in DOMAIN l.comm
               PROVE  /\ Queue(Data(x.comm[d].sendlist),
                               Open(x.req, v, k.sends, "send", x.comm[d].num), v)
                      /\ Queue(Data(x.comm[d].recvlist),
                               Open(x.req, v, k.recvs, "recv", x.comm[d].num), v)
    BY <1>3 DEF QueuesOK, Relisted
  <2>1. x.comm[d].num = l.comm[d].num
    BY <1>3 DEF Relisted
  <2>2. /\ Open(x.req, v, k.sends, "send", x.comm[d].num)
             = Open(l.req, u, g.sends, "send", l.comm[d].num)
        /\ Open(x.req, v, k.recvs, "recv", x.comm[d].num)
             = Open(l.req, u, g.recvs, "recv", l.comm[d].num) \ {r}
    <3>1. Open(x.req, v, k.sends, "send", l.comm[d].num)
            = Open(l.req, u, g.sends, "send", l.comm[d].num) \ {r}
      BY <1>6 DEF Posted, Kinds
    <3>2. Open(x.req, v, k.recvs, "recv", l.comm[d].num)
            = Open(l.req, u, g.recvs, "recv", l.comm[d].num) \ {r}
      BY <1>6 DEF Posted, Kinds
    <3>3. r \notin Open(l.req, u, g.sends, "send", l.comm[d].num)
      BY <1>7
    <3>4. Open(x.req, v, k.sends, "send", l.comm[d].num)
            = Open(l.req, u, g.sends, "send", l.comm[d].num)
      BY <3>1, <3>3
    <3> QED BY <2>1, <3>2, <3>4
  <2>3. Queue(Data(x.comm[d].sendlist), Open(x.req, v, k.sends, "send", x.comm[d].num), v)
    <3>1. x.comm[d].sendlist = l.comm[d].sendlist
      BY <1>3 DEF Relisted
    <3> QED BY <3>1, <2>2, <1>4, <1>7, QueueKept
  <2>4. CASE d = c
    <3>1. x.comm[d].recvlist = rl /\ l.comm[d].num = q.num
      BY <2>4, <1>3 DEF Relisted
    <3>2. Queue(Data(x.comm[d].recvlist), Open(x.req, v, k.recvs, "recv", x.comm[d].num), v)
      BY <3>1, <2>2, <1>8
    <3> QED BY <3>2, <2>3
  <2>5. CASE d # c
    <3>1. x.comm[d].recvlist = l.comm[d].recvlist
      BY <2>5, <1>3 DEF Relisted
    <3>2. Open(x.req, v, k.recvs, "recv", x.comm[d].num)
            = Open(l.req, u, g.recvs, "recv", l.comm[d].num)
      BY <2>5, <2>2, <1>7
    <3>3. Queue(Data(x.comm[d].recvlist), Open(x.req, v, k.recvs, "recv", x.comm[d].num), v)
      BY <3>1, <3>2, <1>4, <1>7, QueueKept
    <3> QED BY <3>3, <2>3
  <2> QED BY <2>4, <2>5
<1>11. DOMAIN x.comm = DOMAIN l.comm
  BY <1>3 DEF Relisted
<1> QED BY <1>9, <1>10, <1>11

\* From l to x the send r is taken out of the list of its communicator c.
TakesSend(x, l, u, g, c, r, i) ==
  LET q == l.comm[c].sendlist
      new == AP_list_delete_item(q, Visited(q)[i])
  IN  /\ i \in 1 .. Len(Data(q)) /\ r = Data(q)[i]
      /\ r \in Open(l.req, u, g.sends, "send", l.comm[c].num)
      /\ x.comm = [l.comm EXCEPT ![c] = [l.comm[c] EXCEPT !.sendlist = new]]
      /\ x.num = l.num /\ x.initialized = l.initialized
      /\ Completed(x.req, l.req, u, {r})

LEMMA SendTaken ==
  ASSUME NEW l, NEW u, NEW g, Sane(l, u, g), NEW c \in DOMAIN l.comm,
         NEW x, NEW r, NEW i, TakesSend(x, l, u, g, c, r, i),
         NEW k, Prolongs(k, g),
         NEW h, h \notin DOMAIN u, x.req[h].complete = 1, NEW e, NEW v, v = With(u, h, e)
  PROVE  CommsOK(x) /\ QueuesOK(x, v, k) /\ DOMAIN x.comm = DOMAIN l.comm
<1> DEFINE q == l.comm[c]
           rl == AP_list_delete_item(q.sendlist, Visited(q.sendlist)[i])
<1>0. /\ i \in 1 .. Len(Data(q.sendlist)) /\ r = Data(q.sendlist)[i]
      /\ r \in Open(l.req, u, g.sends, "send", q.num)
      /\ x.comm = [l.comm EXCEPT ![c] = [q EXCEPT !.sendlist = rl]]
      /\ x.num = l.num /\ x.initialized = l.initialized
      /\ Completed(x.req, l.req, u, {r})
  BY DEF TakesSend
<1>1. CommsOK(l) /\ HeldOK(u, g) /\ QueuesOK(l, u, g)
  BY DEF Sane, Kept
<1>2. ListOK(q.recvlist) /\ ListOK(q.sendlist)
  BY <1>1 DEF CommsOK
<1>3. Relisted(x.comm, l.comm, c, rl, q.recvlist)
  BY <1>0, <1>1, SetSendList
<1> HIDE DEF rl
<1>4. DOMAIN v = DOMAIN u \cup {h} /\ \A j \in DOMAIN u : v[j] = u[j]
  BY DEF With
<1>5. r \in DOMAIN u /\ u[r].kind = "send" /\ g.sends[u[r].id].comm = q.num
  BY <1>0 DEF Open
<1>6. ASSUME NEW kind \in Kinds, NEW num
      PROVE  Open(x.req, v, Posted(k, kind), kind, num)
               = Open(l.req, u, Posted(g, kind), kind, num) \ {r}
  <2> DEFINE P == {r}
  <2>1. Completed(x.req, l.req, u, P)
    BY <1>0
  <2> HIDE DEF P
  <2>2. Open(x.req, v, Posted(k, kind), kind, num)
          = (Open(l.req, u, Posted(g, kind), kind, num) \ P)
              \cup Joins(h, e, x.req, Posted(k, kind), kind, num)
    BY <1>1, <2>1, OpenPosted
  <2>3. Joins(h, e, x.req, Posted(k, kind), kind, num) = {}
    BY DEF Joins
  <2> QED BY <2>2, <2>3 DEF P
<1>7. ASSUME NEW d \in DOMAIN l.comm
      PROVE  /\ Queue(Data(l.comm[d].recvlist),
                      Open(l.req, u, g.recvs, "recv", l.comm[d].num), u)
             /\ Queue(Data(l.comm[d].sendlist),
                      Open(l.req, u, g.sends, "send", l.comm[d].num), u)
             /\ Open(l.req, u, g.recvs, "recv", l.comm[d].num) \subseteq DOMAIN u
             /\ Open(l.req, u, g.sends, "send", l.comm[d].num) \subseteq DOMAIN u
             /\ r \notin Open(l.req, u, g.recvs, "recv", l.comm[d].num)
             /\ d # c => r \notin Open(l.req, u, g.sends, "send", l.comm[d].num)
  <2>1. d # c => l.comm[d].num # q.num
    BY <1>1 DEF CommsOK
  <2> QED BY <1>1, <1>5, <2>1 DEF QueuesOK, Open
<1>8. ListOK(rl) /\ Queue(Data(rl), Open(l.req, u, g.sends, "send", q.num) \ {r}, v)
  <2> DEFINE S == Open(l.req, u, g.sends, "send", q.num)
             ql == l.comm[c].sendlist
  <2>1. ListOK(ql) /\ Queue(Data(ql), S, u) /\ i \in 1 .. Len(Data(ql)) /\ r = Data(ql)[i]
        /\ rl = AP_list_delete_item(ql, Visited(ql)[i])
    BY <1>0, <1>2, <1>7 DEF rl
  <2>2. Same(S, u, v)
    <3> SUFFICES ASSUME NEW j \in S PROVE u[j].id \in Nat /\ v[j] = u[j]
      BY DEF Same
    <3>1. j \in DOMAIN u /\ u[j].kind = "send"
      BY DEF Open
    <3>2. u[j].id \in 0 .. Len(g.sends)
      BY <3>1, <1>1 DEF HeldOK, Posted
    <3> QED BY <3>1, <3>2, <1>4
  <2> HIDE DEF S, ql
  <2>3. ListOK(rl) /\ Queue(Data(rl), S \ {Data(ql)[i]}, v)
    BY <2>1, <2>2, QueueDeleted
  <2>4. ListOK(rl) /\ Queue(Data(rl), S \ {r}, v)
    BY <2>1, <2>3
  <2> QED BY <2>4 DEF S
<1>9. CommsOK(x)
  BY <1>0, <1>1, <1>2, <1>3, <1>8, RelistedOK
<1>10. QueuesOK(x, v, k)
  <2> SUFFICES ASSUME NEW d \in DOMAIN l.comm
               PROVE  /\ Queue(Data(x.comm[d].recvlist),
                               Open(x.req, v, k.recvs, "recv", x.comm[d].num), v)
                      /\ Queue(Data(x.comm[d].sendlist),
                               Open(x.req, v, k.sends, "send", x.comm[d].num), v)
    BY <1>3 DEF QueuesOK, Relisted
  <2>1. x.comm[d].num = l.comm[d].num
    BY <1>3 DEF Relisted
  <2>2. /\ Open(x.req, v, k.recvs, "recv", x.comm[d].num)
             = Open(l.req, u, g.recvs, "recv", l.comm[d].num)
        /\ Open(x.req, v, k.sends, "send", x.comm[d].num)
             = Open(l.req, u, g.sends, "send", l.comm[d].num) \ {r}
    <3>1. Open(x.req, v, k.recvs, "recv", l.comm[d].num)
            = Open(l.req, u, g.recvs, "recv", l.comm[d].num) \ {r}
      BY <1>6 DEF Posted, Kinds
    <3>2. Open(x.req, v, k.sends, "send", l.comm[d].num)
            = Open(l.req, u, g.sends, "send", l.comm[d].num) \ {r}
      BY <1>6 DEF Posted, Kinds
    <3>3. r \notin Open(l.req, u, g.recvs, "recv", l.comm[d].num)
      BY <1>7
    <3>4. Open(x.req, v, k.recvs, "recv", l.comm[d].num)
            = Open(l.req, u, g.recvs, "recv", l.comm[d].num)
      BY <3>1, <3>3
    <3> QED BY <2>1, <3>2, <3>4
  <2>3. Queue(Data(x.comm[d].recvlist), Open(x.req, v, k.recvs, "recv", x.comm[d].num), v)
    <3>1. x.comm[d].recvlist = l.comm[d].recvlist
      BY <1>3 DEF Relisted
    <3> QED BY <3>1, <2>2, <1>4, <1>7, QueueKept
  <2>4. CASE d = c
    <3>1. x.comm[d].sendlist = rl /\ l.comm[d].num = q.num
      BY <2>4, <1>3 DEF Relisted
    <3>2. Queue(Data(x.comm[d].sendlist), Open(x.req, v, k.sends, "send", x.comm[d].num), v)
      BY <3>1, <2>2, <1>8
    <3> QED BY <3>2, <2>3
  <2>5. CASE d # c
    <3>1. x.comm[d].sendlist = l.comm[d].sendlist
      BY <2>5, <1>3 DEF Relisted
    <3>2. Open(x.req, v, k.sends, "send", x.comm[d].num)
            = Open(l.req, u, g.sends, "send", l.comm[d].num)
      BY <2>5, <2>2, <1>7
    <3>3. Queue(Data(x.comm[d].sendlist), Open(x.req, v, k.sends, "send", x.comm[d].num), v)
      BY <3>1, <3>2, <1>4, <1>7, QueueKept
    <3> QED BY <3>3, <2>3
  <2> QED BY <2>4, <2>5
<1>11. DOMAIN x.comm = DOMAIN l.comm
  BY <1>3 DEF Relisted
<1> QED BY <1>9, <1>10, <1>11

LEMMA IsendCompletesSane ==
  ASSUME NEW l, NEW u, NEW g, Sane(l, u, g), l.initialized, ~Full(l.pool),
         NEW c \in DOMAIN l.comm, NEW tag \in Tags,
         Len(g.sends) + Len(g.recvs) + 1 <= MaxPosts,
         FindRecv(l, c, tag) # NoItem
  PROVE  LET m == Len(g.sends) + 1
             x == MPI_Isend(l, c, m, tag)
         IN  /\ Sane(x, With(u, AllocatedHandle(l.pool), [kind |-> "send", id |-> m]),
                     [g EXCEPT !.sends = Append(@, [comm |-> l.comm[c].num, tag |-> tag])])
             /\ x.initialized
<1> DEFINE m == Len(g.sends) + 1
           x == MPI_Isend(l, c, m, tag)
           h == AllocatedHandle(l.pool)
           e == [kind |-> "send", id |-> m]
           v == With(u, h, e)
           env == [comm |-> l.comm[c].num, tag |-> tag]
           k == [g EXCEPT !.sends = Append(@, env)]
           q == l.comm[c]
           a == FindRecv(l, c, tag)
           rl == AP_list_delete_item(q.recvlist, a)
           comm == [l.comm EXCEPT ![c] = [q EXCEPT !.recvlist = rl]]
<1>1. /\ TablesOK(l) /\ CommsOK(l) /\ LogOK(l, g) /\ BuffersOK(l, g) /\ HeldOK(u, g)
      /\ QueuesOK(l, u, g) /\ l.abort = ""
  BY DEF Sane, Kept
<1>2. h \in AllItems \ {NULL} /\ h \notin DOMAIN u /\ h \notin DOMAIN l.comm
  BY NewHandle
<1>3. Shape(l) /\ CommShape(q) /\ q.num \in 0 .. l.num - 1
  BY <1>1 DEF TablesOK, CommsOK
<1>4. PICK r, i : RecvFound(l, u, g, c, tag, r, i)
  BY RecvIsFound
<1> DEFINE b == l.req[r].buf
           req == [[l.req EXCEPT ![r] = Received(l.req[r], tag)] EXCEPT ![h].complete = 1]
           mem == [l.mem EXCEPT ![b] = m]
           items == [l.items EXCEPT ![b] = SendCount]
<1>5. /\ i \in 1 .. Len(Data(q.recvlist)) /\ r = Data(q.recvlist)[i]
      /\ r = q.recvlist.item[a].data /\ a = Visited(q.recvlist)[i]
      /\ r \in Open(l.req, u, g.recvs, "recv", q.num)
      /\ l.req[r].tag \in {ANY_TAG, tag}
  BY <1>4 DEF RecvFound
<1>6. Posts(x, l, comm, req, mem, items)
  <2> HIDE DEF a
  <2>1. r = q.recvlist.item[FindRecv(l, c, tag)].data
    BY <1>5 DEF a
  <2> QED BY <1>1, <1>3, <2>1, IsendCompletes, Zenon DEF a
<1>7. /\ m \in 1 .. MaxPosts /\ m > Len(g.sends) /\ Len(g.sends) \in Nat
  <2> DEFINE p == Len(g.sends)
             n == Len(g.recvs)
  <2>1. p \in Nat /\ n \in Nat /\ p + n + 1 <= MaxPosts /\ MaxPosts \in Nat
    BY <1>1, LogTypes
  <2> HIDE DEF p, n
  <2>2. p \in Nat /\ p + 1 \in 1 .. MaxPosts /\ p + 1 > p
    BY <2>1
  <2> QED BY <2>2 DEF p
<1>8. env \in [comm : 0 .. l.num - 1, tag : Tags]
  BY <1>3
<1>9. /\ r \in DOMAIN u /\ r \in AllItems /\ u[r].kind = "recv" /\ u[r].id = b
      /\ b \in 1 .. Len(g.recvs) /\ b \in 1 .. MaxPosts
      /\ l.req[r].complete = 0 /\ l.req[r].tag = g.recvs[b].tag
      /\ l.mem[b] = 0
  <2>1. r \in Open(l.req, u, Posted(g, "recv"), "recv", q.num)
    BY <1>5 DEF Posted
  <2>2. "recv" \in Kinds
    BY DEF Kinds
  <2> HIDE DEF q
  <2>3. /\ r \in DOMAIN u /\ r \in AllItems /\ u[r].kind = "recv"
        /\ u[r].id \in 1 .. Len(Posted(g, "recv")) /\ u[r].id \in 1 .. MaxPosts
        /\ l.req[r].complete = 0 /\ l.req[r].buf = u[r].id
        /\ l.req[r].tag = Posted(g, "recv")[u[r].id].tag
        /\ ~Moved(l.mem, u[r])
    <3>1. OpenRequest(l, u, g, "recv", q.num, r)
      BY <2>1, <2>2, OpenFacts, Zenon
    <3> QED BY <3>1 DEF OpenRequest
  <2> QED BY <2>3 DEF Posted, Moved
<1> HIDE DEF x, h, comm, rl, q, a, b
<1>10. LogOK(x, k) /\ Longer(k, g, "send", env) /\ Prolongs(k, g)
  <2>1. x.num = l.num
    BY <1>6 DEF Posts
  <2> HIDE DEF env
  <2> QED BY <2>1, <1>1, <1>8, LogSent
<1>11. /\ Posted(k, "send")[m] = env /\ k.sends[m] = env
       /\ Len(Posted(k, "send")) = Len(Posted(g, "send")) + 1
       /\ Len(k.sends) = m /\ k.recvs = g.recvs
  BY <1>10 DEF Longer, Posted, Kinds
<1> HIDE DEF k, m
<1>12. /\ DOMAIN v = DOMAIN u \cup {h} /\ v[h] = e /\ \A j \in DOMAIN u : v[j] = u[j]
       /\ e.kind = "send" /\ e.id = m /\ h # r
  BY <1>2, <1>9 DEF With
<1>13. v = With(u, h, e) /\ "send" \in Kinds /\ m = Len(Posted(g, "send")) + 1
  BY DEF m, Posted, Kinds
<1>14. HeldOK(v, k)
  BY <1>1, <1>2, <1>10, <1>11, <1>13, HeldPosted
<1> HIDE DEF v, e
\* The items of the two requests.
<1>15. /\ req \in [AllItems -> Reqs]
       /\ req[h].complete = 1 /\ req[r].complete = 1 /\ req[r].source = 0 /\ req[r].tag = tag
       /\ \A j \in AllItems : j # h /\ j # r => req[j] = l.req[j]
  <2>1. l.req \in [AllItems -> Reqs]
    BY <1>1 DEF TablesOK
  <2>2. l.req[r] \in Reqs /\ l.req[h] \in Reqs
    BY <2>1, <1>2, <1>9
  <2> DEFINE f == Received(l.req[r], tag)
             f2 == [l.req[h] EXCEPT !.complete = 1]
             req1 == [l.req EXCEPT ![r] = f]
  <2>3. f \in Reqs /\ f.complete = 1 /\ f.source = 0 /\ f.tag = tag
    BY <2>2 DEF Received, Reqs
  <2>4. f2 \in Reqs /\ f2.complete = 1
    BY <2>2 DEF Reqs
  <2>5. req1 \in [AllItems -> Reqs] /\ req1[h] = l.req[h] /\ req1[r] = f
        /\ \A j \in AllItems : j # r => req1[j] = l.req[j]
    BY <2>1, <2>3, <1>2, <1>9, <1>12
  <2>6. req = [req1 EXCEPT ![h] = f2]
    <3>1. req = [req1 EXCEPT ![h] = [req1[h] EXCEPT !.complete = 1]]
      OBVIOUS
    <3> QED BY <3>1, <2>5
  <2> HIDE DEF f, f2, req1, req
  <2> QED BY <2>3, <2>4, <2>5, <2>6, <1>2, <1>9, <1>12
<1> HIDE DEF req
<1>16. /\ x.num = l.num /\ x.initialized = l.initialized
       /\ x.comm = comm /\ x.req = req /\ x.mem = mem /\ x.items = items
  BY <1>6 DEF Posts
<1>17. DOMAIN u \subseteq AllItems
  BY DEF Sane, Kept
<1>18. \A j \in DOMAIN v : RequestOK(req[j], v[j], mem, k)
  <2>1. Met(req, l.req, v, h, r, k.sends[m].tag)
    BY <1>9, <1>11, <1>12, <1>15, <1>17 DEF Met
  <2>2. mem = [l.mem EXCEPT ![b] = m]
    OBVIOUS
  <2>3. /\ Prolongs(k, g) /\ h \notin DOMAIN u /\ HeldOK(v, k) /\ v = With(u, h, e)
        /\ h \in {h, r} /\ v[h].kind = "send" /\ v[r].kind = "recv"
        /\ v[h].id = m /\ v[r].id = b /\ m \in 1 .. MaxPosts /\ b \in 1 .. MaxPosts
        /\ l.mem[b] = 0
    BY <1>2, <1>7, <1>9, <1>10, <1>12, <1>13, <1>14
  <2> HIDE DEF mem, items
  <2> QED BY <2>1, <2>2, <2>3, MeetOK
<1>19. Completed(req, l.req, u, {r})
  BY <1>2, <1>9, <1>15, <1>17 DEF Completed
<1>20. CommsOK(x) /\ QueuesOK(x, v, k) /\ DOMAIN comm = DOMAIN l.comm
  <2>1. /\ comm = [l.comm EXCEPT ![c] = [l.comm[c] EXCEPT !.recvlist = rl]]
        /\ rl = AP_list_delete_item(l.comm[c].recvlist, Visited(l.comm[c].recvlist)[i])
        /\ i \in 1 .. Len(Data(l.comm[c].recvlist)) /\ r = Data(l.comm[c].recvlist)[i]
        /\ r \in Open(l.req, u, g.recvs, "recv", l.comm[c].num)
    BY <1>5 DEF comm, rl, q
  <2>2. /\ x.num = l.num /\ x.initialized = l.initialized
        /\ x.comm = [l.comm EXCEPT ![c] = [l.comm[c] EXCEPT !.recvlist = rl]]
        /\ Completed(x.req, l.req, u, {r}) /\ x.req[h].complete = 1
        /\ Prolongs(k, g) /\ h \notin DOMAIN u /\ v = With(u, h, e)
    BY <2>1, <1>2, <1>10, <1>13, <1>15, <1>16, <1>19
  <2> HIDE DEF mem, items, env
  <2>3. TakesRecv(x, l, u, g, c, r, i)
    BY <2>1, <2>2 DEF TakesRecv
  <2>4. CommsOK(x) /\ QueuesOK(x, v, k) /\ DOMAIN x.comm = DOMAIN l.comm
    BY <2>2, <2>3, RecvTaken
  <2> QED BY <2>4, <1>16
<1>21. RequestsOK(x, v, k)
  BY <1>16, <1>18 DEF RequestsOK
\* The buffer.
<1>22. /\ mem \in [1 .. MaxPosts -> 0 .. MaxPosts] /\ items \in [1 .. MaxPosts -> 0 .. SendCount + 1]
       /\ mem[b] = m /\ items[b] = SendCount
       /\ \A d \in 1 .. MaxPosts : d # b => mem[d] = l.mem[d] /\ items[d] = l.items[d]
  <2>1. /\ l.mem \in [1 .. MaxPosts -> 0 .. MaxPosts]
        /\ l.items \in [1 .. MaxPosts -> 0 .. SendCount + 1]
    BY <1>1 DEF TablesOK
  <2>2. SendCount \in 0 .. SendCount + 1 /\ m \in 0 .. MaxPosts
    BY <1>7, MessagesAssumption
  <2> QED BY <2>1, <2>2, <1>9
<1>23. BuffersOK(x, k)
  <2>1. SendCount \in SendCount .. RecvCount(k.recvs[b].tag)
    BY MessagesAssumption DEF RecvCount
  <2>2. m # 0 /\ b <= Len(k.recvs) /\ m <= Len(k.sends)
    BY <1>7, <1>9, <1>11, MessagesAssumption
  <2> HIDE DEF mem, items
  <2>3. ASSUME NEW d \in 1 .. MaxPosts
        PROVE  \/ x.mem[d] = l.mem[d] /\ x.items[d] = l.items[d]
               \/ /\ x.mem[d] # 0 /\ d <= Len(k.recvs) /\ x.mem[d] <= Len(k.sends)
                  /\ x.items[d] \in SendCount .. RecvCount(k.recvs[d].tag)
    BY <2>1, <2>2, <1>16, <1>22
  <2> QED BY <2>3, <1>1, <1>10, BuffersStep
<1>24. v = With(u, AllocatedHandle(l.pool), [kind |-> "send", id |-> m])
  BY DEF v, h, e
<1> HIDE DEF mem, items
<1>25. Sane(x, v, k) /\ x.initialized
  BY <1>6, <1>10, <1>11, <1>13, <1>15, <1>20, <1>21, <1>22, <1>23, <1>24, PostSane
<1> QED BY <1>25 DEF x, v, m, k, h, e

\* What is known of the send that a receive finds.
LEMMA OpenSend ==
  ASSUME NEW l, NEW u, NEW g, Sane(l, u, g), NEW num,
         NEW s \in Open(l.req, u, g.sends, "send", num)
  PROVE  /\ s \in DOMAIN u /\ s \in AllItems /\ u[s].kind = "send"
         /\ u[s].id \in 1 .. Len(g.sends) /\ u[s].id \in 1 .. MaxPosts
         /\ l.req[s].complete = 0 /\ l.req[s].buf = u[s].id
         /\ l.req[s].tag = g.sends[u[s].id].tag /\ l.req[s].tag \in Tags
<1>1. s \in Open(l.req, u, Posted(g, "send"), "send", num) /\ "send" \in Kinds
  BY DEF Posted, Kinds
<1>2. /\ s \in DOMAIN u /\ s \in AllItems /\ u[s].kind = "send"
      /\ u[s].id \in 1 .. Len(Posted(g, "send")) /\ u[s].id \in 1 .. MaxPosts
      /\ l.req[s].complete = 0 /\ l.req[s].buf = u[s].id
      /\ l.req[s].tag = Posted(g, "send")[u[s].id].tag
  <2>1. OpenRequest(l, u, g, "send", num, s)
    BY <1>1, OpenFacts, Zenon
  <2> QED BY <2>1 DEF OpenRequest
<1>3. u[s].id \in 1 .. Len(g.sends) /\ l.req[s].tag = g.sends[u[s].id].tag
  BY <1>2 DEF Posted
<1>4. g.sends[u[s].id] \in [comm : 0 .. l.num - 1, tag : Tags]
  BY <1>3, LogTypes DEF Sane, Kept
<1> QED BY <1>2, <1>3, <1>4

LEMMA IrecvCompletesSane ==
  ASSUME NEW l, NEW u, NEW g, Sane(l, u, g), l.initialized, ~Full(l.pool),
         NEW c \in DOMAIN l.comm, NEW tag \in Tags \cup {ANY_TAG},
         Len(g.sends) + Len(g.recvs) + 1 <= MaxPosts,
         FindSend(l, c, tag) # NoItem
  PROVE  LET m == Len(g.recvs) + 1
             x == MPI_Irecv(l, c, m, tag)
         IN  /\ Sane(x, With(u, AllocatedHandle(l.pool), [kind |-> "recv", id |-> m]),
                     [g EXCEPT !.recvs = Append(@, [comm |-> l.comm[c].num, tag |-> tag])])
             /\ x.initialized
<1> DEFINE m == Len(g.recvs) + 1
           x == MPI_Irecv(l, c, m, tag)
           h == AllocatedHandle(l.pool)
           e == [kind |-> "recv", id |-> m]
           v == With(u, h, e)
           env == [comm |-> l.comm[c].num, tag |-> tag]
           k == [g EXCEPT !.recvs = Append(@, env)]
           q == l.comm[c]
           a == FindSend(l, c, tag)
           sl == AP_list_delete_item(q.sendlist, a)
           comm == [l.comm EXCEPT ![c] = [q EXCEPT !.sendlist = sl]]
<1>1. /\ TablesOK(l) /\ CommsOK(l) /\ LogOK(l, g) /\ BuffersOK(l, g) /\ HeldOK(u, g)
      /\ QueuesOK(l, u, g) /\ l.abort = ""
  BY DEF Sane, Kept
<1>2. h \in AllItems \ {NULL} /\ h \notin DOMAIN u /\ h \notin DOMAIN l.comm
  BY NewHandle
<1>3. Shape(l) /\ CommShape(q) /\ q.num \in 0 .. l.num - 1
  BY <1>1 DEF TablesOK, CommsOK
<1>4. PICK s, i : SendFound(l, u, g, c, tag, s, i)
  BY SendIsFound
<1> DEFINE b == l.req[s].buf
           req == [[l.req EXCEPT ![h] = Received(l.req[h], l.req[s].tag)] EXCEPT ![s].complete = 1]
           mem == [l.mem EXCEPT ![m] = b]
           items == [l.items EXCEPT ![m] = RecvCount(tag)]
<1>5. /\ i \in 1 .. Len(Data(q.sendlist)) /\ s = Data(q.sendlist)[i]
      /\ s = q.sendlist.item[a].data /\ a = Visited(q.sendlist)[i]
      /\ s \in Open(l.req, u, g.sends, "send", q.num)
      /\ tag \in {ANY_TAG, l.req[s].tag}
  BY <1>4 DEF SendFound
<1>6. Posts(x, l, comm, req, mem, items)
  <2> HIDE DEF a
  <2>1. s = q.sendlist.item[FindSend(l, c, tag)].data
    BY <1>5 DEF a
  <2> QED BY <1>1, <1>3, <2>1, IrecvCompletes, Zenon DEF a
<1>7. /\ m \in 1 .. MaxPosts /\ m > Len(g.recvs) /\ Len(g.recvs) \in Nat
  <2> DEFINE p == Len(g.recvs)
             n == Len(g.sends)
  <2>1. p \in Nat /\ n \in Nat /\ n + p + 1 <= MaxPosts /\ MaxPosts \in Nat
    BY <1>1, LogTypes
  <2> HIDE DEF p, n
  <2>2. p \in Nat /\ p + 1 \in 1 .. MaxPosts /\ p + 1 > p
    BY <2>1
  <2> QED BY <2>2 DEF p
<1>8. env \in [comm : 0 .. l.num - 1, tag : Tags \cup {ANY_TAG}]
  BY <1>3
<1>9. /\ s \in DOMAIN u /\ s \in AllItems /\ u[s].kind = "send" /\ u[s].id = b
      /\ b \in 1 .. Len(g.sends) /\ b \in 1 .. MaxPosts
      /\ l.req[s].complete = 0 /\ l.req[s].tag = g.sends[b].tag
      /\ l.req[s].tag \in Tags /\ l.mem[m] = 0
  <2>1. /\ s \in DOMAIN u /\ s \in AllItems /\ u[s].kind = "send"
        /\ u[s].id \in 1 .. Len(g.sends) /\ u[s].id \in 1 .. MaxPosts
        /\ l.req[s].complete = 0 /\ l.req[s].buf = u[s].id
        /\ l.req[s].tag = g.sends[u[s].id].tag /\ l.req[s].tag \in Tags
    BY <1>5, OpenSend
  <2>2. l.mem[m] = 0
    <3> HIDE DEF m
    <3>1. l.mem[m] # 0 => m <= Len(g.recvs)
      BY <1>1, <1>7 DEF BuffersOK
    <3>2. ~(m <= Len(g.recvs))
      BY <1>7
    <3> QED BY <3>1, <3>2
  <2> QED BY <2>1, <2>2
<1> HIDE DEF x, h, comm, sl, q, a, b
<1>10. LogOK(x, k) /\ Longer(k, g, "recv", env) /\ Prolongs(k, g)
  <2>1. x.num = l.num
    BY <1>6 DEF Posts
  <2> HIDE DEF env
  <2> QED BY <2>1, <1>1, <1>8, LogReceived
<1>11. /\ Posted(k, "recv")[m] = env /\ k.recvs[m] = env
       /\ Len(Posted(k, "recv")) = Len(Posted(g, "recv")) + 1
       /\ Len(k.recvs) = m /\ k.sends = g.sends
  BY <1>10 DEF Longer, Posted, Kinds
<1> HIDE DEF k, m
<1>12. /\ DOMAIN v = DOMAIN u \cup {h} /\ v[h] = e /\ \A j \in DOMAIN u : v[j] = u[j]
       /\ e.kind = "recv" /\ e.id = m /\ h # s
  BY <1>2, <1>9 DEF With
<1>13. v = With(u, h, e) /\ "recv" \in Kinds /\ m = Len(Posted(g, "recv")) + 1
  BY DEF m, Posted, Kinds
<1>14. HeldOK(v, k)
  BY <1>1, <1>2, <1>10, <1>11, <1>13, HeldPosted
<1> HIDE DEF v, e
\* The items of the two requests.
<1>15. /\ req \in [AllItems -> Reqs]
       /\ req[s].complete = 1
       /\ req[h].complete = 1 /\ req[h].source = 0 /\ req[h].tag = l.req[s].tag
       /\ \A j \in AllItems : j # h /\ j # s => req[j] = l.req[j]
  <2>1. l.req \in [AllItems -> Reqs]
    BY <1>1 DEF TablesOK
  <2>2. l.req[s] \in Reqs /\ l.req[h] \in Reqs
    BY <2>1, <1>2, <1>9
  <2> DEFINE f == Received(l.req[h], l.req[s].tag)
             f2 == [l.req[s] EXCEPT !.complete = 1]
             req1 == [l.req EXCEPT ![h] = f]
  <2>3. f \in Reqs /\ f.complete = 1 /\ f.source = 0 /\ f.tag = l.req[s].tag
    BY <2>2, <1>9 DEF Received, Reqs
  <2>4. f2 \in Reqs /\ f2.complete = 1
    BY <2>2 DEF Reqs
  <2>5. req1 \in [AllItems -> Reqs] /\ req1[s] = l.req[s] /\ req1[h] = f
        /\ \A j \in AllItems : j # h => req1[j] = l.req[j]
    BY <2>1, <2>3, <1>2, <1>9, <1>12
  <2>6. req = [req1 EXCEPT ![s] = f2]
    <3>1. req = [req1 EXCEPT ![s] = [req1[s] EXCEPT !.complete = 1]]
      OBVIOUS
    <3> QED BY <3>1, <2>5
  <2> HIDE DEF f, f2, req1, req
  <2> QED BY <2>3, <2>4, <2>5, <2>6, <1>2, <1>9, <1>12
<1> HIDE DEF req
<1>16. /\ x.num = l.num /\ x.initialized = l.initialized
       /\ x.comm = comm /\ x.req = req /\ x.mem = mem /\ x.items = items
  BY <1>6 DEF Posts
<1>17. DOMAIN u \subseteq AllItems
  BY DEF Sane, Kept
<1>18. \A j \in DOMAIN v : RequestOK(req[j], v[j], mem, k)
  <2>1. Met(req, l.req, v, s, h, k.sends[b].tag)
    BY <1>9, <1>11, <1>12, <1>15, <1>17 DEF Met
  <2>2. mem = [l.mem EXCEPT ![m] = b]
    OBVIOUS
  <2>3. /\ Prolongs(k, g) /\ h \notin DOMAIN u /\ HeldOK(v, k) /\ v = With(u, h, e)
        /\ h \in {s, h} /\ v[s].kind = "send" /\ v[h].kind = "recv"
        /\ v[s].id = b /\ v[h].id = m /\ m \in 1 .. MaxPosts /\ b \in 1 .. MaxPosts
        /\ l.mem[m] = 0
    BY <1>2, <1>7, <1>9, <1>10, <1>12, <1>13, <1>14
  <2> HIDE DEF mem, items
  <2> QED BY <2>1, <2>2, <2>3, MeetOK
<1>19. Completed(req, l.req, u, {s})
  BY <1>2, <1>9, <1>15, <1>17 DEF Completed
<1>20. CommsOK(x) /\ QueuesOK(x, v, k) /\ DOMAIN comm = DOMAIN l.comm
  <2>1. /\ comm = [l.comm EXCEPT ![c] = [l.comm[c] EXCEPT !.sendlist = sl]]
        /\ sl = AP_list_delete_item(l.comm[c].sendlist, Visited(l.comm[c].sendlist)[i])
        /\ i \in 1 .. Len(Data(l.comm[c].sendlist)) /\ s = Data(l.comm[c].sendlist)[i]
        /\ s \in Open(l.req, u, g.sends, "send", l.comm[c].num)
    BY <1>5 DEF comm, sl, q
  <2>2. /\ x.num = l.num /\ x.initialized = l.initialized
        /\ x.comm = [l.comm EXCEPT ![c] = [l.comm[c] EXCEPT !.sendlist = sl]]
        /\ Completed(x.req, l.req, u, {s}) /\ x.req[h].complete = 1
        /\ Prolongs(k, g) /\ h \notin DOMAIN u /\ v = With(u, h, e)
    BY <2>1, <1>2, <1>10, <1>13, <1>15, <1>16, <1>19
  <2> HIDE DEF mem, items, env
  <2>3. TakesSend(x, l, u, g, c, s, i)
    BY <2>1, <2>2 DEF TakesSend
  <2>4. CommsOK(x) /\ QueuesOK(x, v, k) /\ DOMAIN x.comm = DOMAIN l.comm
    BY <2>2, <2>3, SendTaken
  <2> QED BY <2>4, <1>16
<1>21. RequestsOK(x, v, k)
  BY <1>16, <1>18 DEF RequestsOK
\* The buffer.
<1>22. /\ mem \in [1 .. MaxPosts -> 0 .. MaxPosts] /\ items \in [1 .. MaxPosts -> 0 .. SendCount + 1]
       /\ mem[m] = b /\ items[m] = RecvCount(tag)
       /\ \A d \in 1 .. MaxPosts : d # m => mem[d] = l.mem[d] /\ items[d] = l.items[d]
  <2>1. /\ l.mem \in [1 .. MaxPosts -> 0 .. MaxPosts]
        /\ l.items \in [1 .. MaxPosts -> 0 .. SendCount + 1]
    BY <1>1 DEF TablesOK
  <2>2. RecvCount(tag) \in 0 .. SendCount + 1 /\ b \in 0 .. MaxPosts
    BY <1>9, MessagesAssumption DEF RecvCount
  <2> QED BY <2>1, <2>2, <1>7
<1>23. BuffersOK(x, k)
  <2>1. RecvCount(tag) \in SendCount .. RecvCount(k.recvs[m].tag)
    BY <1>11, MessagesAssumption DEF RecvCount
  <2>2. b # 0 /\ m <= Len(k.recvs) /\ b <= Len(k.sends)
    BY <1>7, <1>9, <1>11, MessagesAssumption
  <2> HIDE DEF mem, items
  <2>3. ASSUME NEW d \in 1 .. MaxPosts
        PROVE  \/ x.mem[d] = l.mem[d] /\ x.items[d] = l.items[d]
               \/ /\ x.mem[d] # 0 /\ d <= Len(k.recvs) /\ x.mem[d] <= Len(k.sends)
                  /\ x.items[d] \in SendCount .. RecvCount(k.recvs[d].tag)
    BY <2>1, <2>2, <1>16, <1>22
  <2> QED BY <2>3, <1>1, <1>10, BuffersStep
<1>24. v = With(u, AllocatedHandle(l.pool), [kind |-> "recv", id |-> m])
  BY DEF v, h, e
<1> HIDE DEF mem, items
<1>25. Sane(x, v, k) /\ x.initialized
  BY <1>6, <1>10, <1>11, <1>13, <1>15, <1>20, <1>21, <1>22, <1>23, <1>24, PostSane
<1> QED BY <1>25 DEF x, v, m, k, h, e

-----------------------------------------------------------------------------
(* All posts together.                                                     *)

\* A request to MPI_PROC_NULL is complete, whatever else there is.
LEMMA NullSane ==
  ASSUME NEW l, NEW u, NEW g, Sane(l, u, g), l.initialized, ~Full(l.pool),
         NEW kind \in Kinds, NEW x, NEW q \in Reqs, q.complete = 1,
         kind = "recv" => q.source = PROC_NULL /\ q.tag = ANY_TAG,
         Posts(x, l, l.comm, [l.req EXCEPT ![AllocatedHandle(l.pool)] = q], l.mem, l.items)
  PROVE  /\ Sane(x, With(u, AllocatedHandle(l.pool), [kind |-> kind, id |-> 0]), g)
         /\ x.initialized
<1> DEFINE h == AllocatedHandle(l.pool)
           e == [kind |-> kind, id |-> 0]
           v == With(u, h, e)
           req == [l.req EXCEPT ![h] = q]
<1>1. /\ TablesOK(l) /\ CommsOK(l) /\ LogOK(l, g) /\ BuffersOK(l, g) /\ HeldOK(u, g)
      /\ RequestsOK(l, u, g) /\ QueuesOK(l, u, g) /\ l.abort = ""
      /\ DOMAIN u \subseteq AllItems \ {NULL}
  BY DEF Sane, Kept
<1>2. h \in AllItems \ {NULL} /\ h \notin DOMAIN u /\ h \notin DOMAIN l.comm
  BY NewHandle
<1>3. Posts(x, l, l.comm, req, l.mem, l.items)
  OBVIOUS
<1> HIDE DEF h
<1>4. req \in [AllItems -> Reqs] /\ req[h] = q /\ \A j \in AllItems : j # h => req[j] = l.req[j]
  BY <1>1, <1>2 DEF TablesOK
<1>5. Prolongs(g, g)
  <2>1. Len(g.sends) \in Nat /\ Len(g.recvs) \in Nat
    BY <1>1, LogTypes
  <2>2. \A n \in Kinds : Len(Posted(g, n)) \in Nat
    BY <2>1 DEF Posted
  <2> QED BY <2>2 DEF Prolongs
<1>6. v = With(u, h, e)
  OBVIOUS
<1>7. /\ DOMAIN v = DOMAIN u \cup {h} /\ v[h] = e /\ \A j \in DOMAIN u : v[j] = u[j]
      /\ e.kind = kind /\ e.id = 0
  BY <1>2 DEF With
<1>8. /\ x.num = l.num /\ x.initialized = l.initialized
      /\ x.comm = l.comm /\ x.req = req /\ x.mem = l.mem /\ x.items = l.items
  BY <1>3 DEF Posts
<1> HIDE DEF v, e, req
<1>9. RequestsOK(x, v, g)
  <2>1. RequestOK(q, e, l.mem, g)
    BY <1>7 DEF RequestOK
  <2> QED BY <2>1, <1>1, <1>2, <1>4, <1>7, <1>8 DEF RequestsOK
<1>10. QueuesOK(x, v, g)
  <2>1. Completed(req, l.req, u, {})
    BY <1>1, <1>2, <1>4 DEF Completed
  <2>2. ASSUME NEW other \in Kinds, NEW num
        PROVE  Open(req, v, Posted(g, other), other, num)
                 = Open(l.req, u, Posted(g, other), other, num)
    <3> DEFINE P == {}
    <3>1. Completed(req, l.req, u, P)
      BY <2>1
    <3> HIDE DEF P
    <3>2. Open(req, v, Posted(g, other), other, num)
            = (Open(l.req, u, Posted(g, other), other, num) \ P)
                \cup Joins(h, e, req, Posted(g, other), other, num)
      <4>1. HeldOK(u, g) /\ h \notin DOMAIN u
        BY <1>1, <1>2
      <4> QED BY <3>1, <4>1, <1>5, <1>6, OpenPosted
    <3>3. Joins(h, e, req, Posted(g, other), other, num) = {}
      BY <1>7 DEF Joins
    <3> QED BY <3>2, <3>3 DEF P
  <2> SUFFICES ASSUME NEW d \in DOMAIN l.comm
               PROVE  /\ Queue(Data(l.comm[d].sendlist),
                               Open(req, v, g.sends, "send", l.comm[d].num), v)
                      /\ Queue(Data(l.comm[d].recvlist),
                               Open(req, v, g.recvs, "recv", l.comm[d].num), v)
    BY <1>8 DEF QueuesOK
  <2>3. Open(req, v, g.sends, "send", l.comm[d].num)
          = Open(l.req, u, g.sends, "send", l.comm[d].num)
    BY <2>2 DEF Posted, Kinds
  <2>4. Open(req, v, g.recvs, "recv", l.comm[d].num)
          = Open(l.req, u, g.recvs, "recv", l.comm[d].num)
    BY <2>2 DEF Posted, Kinds
  <2>5. /\ Queue(Data(l.comm[d].sendlist), Open(l.req, u, g.sends, "send", l.comm[d].num), u)
        /\ Queue(Data(l.comm[d].recvlist), Open(l.req, u, g.recvs, "recv", l.comm[d].num), u)
        /\ Open(l.req, u, g.sends, "send", l.comm[d].num) \subseteq DOMAIN u
        /\ Open(l.req, u, g.recvs, "recv", l.comm[d].num) \subseteq DOMAIN u
    BY <1>1 DEF QueuesOK, Open
  <2>6. Queue(Data(l.comm[d].sendlist), Open(l.req, u, g.sends, "send", l.comm[d].num), v)
    BY <2>5, <1>7, QueueKept
  <2>7. Queue(Data(l.comm[d].recvlist), Open(l.req, u, g.recvs, "recv", l.comm[d].num), v)
    BY <2>5, <1>7, QueueKept
  <2> QED BY <2>3, <2>4, <2>6, <2>7
<1>11. CommsOK(x) /\ LogOK(x, g) /\ BuffersOK(x, g)
  BY <1>1, <1>8 DEF CommsOK, LogOK, BuffersOK
<1>12. /\ l.mem \in [1 .. MaxPosts -> 0 .. MaxPosts]
       /\ l.items \in [1 .. MaxPosts -> 0 .. SendCount + 1]
  BY <1>1 DEF TablesOK
<1>13. v = With(u, AllocatedHandle(l.pool), [kind |-> kind, id |-> 0])
  BY DEF v, h, e
<1>14. Sane(x, v, g) /\ x.initialized
  <2> DEFINE id == 0
  <2>1. id = 0 /\ v = With(u, AllocatedHandle(l.pool), [kind |-> kind, id |-> id])
    BY <1>13
  <2> HIDE DEF id
  <2> QED BY <2>1, <1>3, <1>4, <1>5, <1>9, <1>10, <1>11, <1>12, PostSane
<1> QED BY <1>13, <1>14

\* What a post leaves: the program aborted for want of a handle, or the
\* request is held.
Outcome(x, l, u, g, kind, id, k) ==
  LET h == AllocatedHandle(l.pool)
  IN  IF Full(l.pool) THEN x = [l EXCEPT !.abort = "handles"]
      ELSE /\ Sane(x, With(u, h, [kind |-> kind, id |-> id]), k) /\ x.initialized
           /\ h \notin DOMAIN u

LEMMA NullOutcome ==
  ASSUME NEW l, NEW u, NEW g, Sane(l, u, g), l.initialized
  PROVE  /\ Outcome(IsendNull(l), l, u, g, "send", 0, g)
         /\ Outcome(IrecvNull(l), l, u, g, "recv", 0, g)
<1>1. TablesOK(l) /\ l.abort = ""
  BY DEF Sane, Kept
<1>2. Shape(l) /\ l.req \in [AllItems -> Reqs]
  BY <1>1 DEF TablesOK
<1>3. CASE Full(l.pool)
  BY <1>1, <1>2, <1>3, NoHandle DEF Outcome
<1>4. CASE ~Full(l.pool)
  <2> DEFINE h == AllocatedHandle(l.pool)
             qs == [l.req[h] EXCEPT !.complete = 1]
             qr == [l.req[h] EXCEPT !.complete = 1, !.source = PROC_NULL, !.tag = ANY_TAG]
  <2>1. h \in AllItems /\ h \notin DOMAIN u
    BY <1>4, NewHandle
  <2>2. /\ qs \in Reqs /\ qs.complete = 1
        /\ qr \in Reqs /\ qr.complete = 1 /\ qr.source = PROC_NULL /\ qr.tag = ANY_TAG
    <3>1. l.req[h] \in Reqs
      BY <1>2, <2>1
    <3> HIDE DEF h
    <3> QED BY <3>1 DEF Reqs
  <2>3. /\ Posts(IsendNull(l), l, l.comm, [l.req EXCEPT ![h] = qs], l.mem, l.items)
        /\ Posts(IrecvNull(l), l, l.comm, [l.req EXCEPT ![h] = qr], l.mem, l.items)
    BY <1>1, <1>2, <1>4, NullPosts
  <2> HIDE DEF qs, qr
  <2>4. Sane(IsendNull(l), With(u, h, [kind |-> "send", id |-> 0]), g) /\ IsendNull(l).initialized
    BY <1>4, <2>2, <2>3, NullSane DEF Kinds
  <2>5. Sane(IrecvNull(l), With(u, h, [kind |-> "recv", id |-> 0]), g) /\ IrecvNull(l).initialized
    BY <1>4, <2>2, <2>3, NullSane DEF Kinds
  <2> QED BY <1>4, <2>1, <2>4, <2>5 DEF Outcome
<1> QED BY <1>3, <1>4

Sent(l, g, c, tag) == [g EXCEPT !.sends = Append(@, [comm |-> l.comm[c].num, tag |-> tag])]

Asked(l, g, c, tag) == [g EXCEPT !.recvs = Append(@, [comm |-> l.comm[c].num, tag |-> tag])]

LEMMA IsendOutcome ==
  ASSUME NEW l, NEW u, NEW g, Sane(l, u, g), l.initialized, NEW c \in DOMAIN l.comm,
         NEW tag \in Tags, Len(g.sends) + Len(g.recvs) + 1 <= MaxPosts,
         NEW m, m = Len(g.sends) + 1
  PROVE  Outcome(MPI_Isend(l, c, m, tag), l, u, g, "send", m, Sent(l, g, c, tag))
<1>1. Shape(l) /\ l.abort = ""
  BY DEF Sane, Kept, TablesOK
<1>2. CASE Full(l.pool)
  <2> DEFINE x == [l EXCEPT !.abort = "handles"]
  <2>1. x = [l EXCEPT !.abort = "handles"]
    OBVIOUS
  <2>2. mpi_alloc_handle(l) = x
    BY <1>1, <1>2, AllocCases
  <2>3. ~(x.abort = "")
    BY <1>1 DEF Shape
  <2> HIDE DEF x
  <2>4. MPI_Isend(l, c, m, tag) = x
    BY <2>2, <2>3, Zenon DEF MPI_Isend, Then
  <2> QED BY <1>2, <2>1, <2>4 DEF Outcome
<1>3. CASE ~Full(l.pool)
  <2>1. AllocatedHandle(l.pool) \notin DOMAIN u
    BY <1>3, NewHandle
  <2>2. /\ Sane(MPI_Isend(l, c, m, tag),
                With(u, AllocatedHandle(l.pool), [kind |-> "send", id |-> m]), Sent(l, g, c, tag))
        /\ MPI_Isend(l, c, m, tag).initialized
    <3>1. CASE FindRecv(l, c, tag) = NoItem
      BY <1>3, <3>1, IsendPendsSane, Zenon DEF Sent
    <3>2. CASE FindRecv(l, c, tag) # NoItem
      BY <1>3, <3>2, IsendCompletesSane, Zenon DEF Sent
    <3> QED BY <3>1, <3>2
  <2> QED BY <1>3, <2>1, <2>2 DEF Outcome
<1> QED BY <1>2, <1>3

LEMMA IrecvOutcome ==
  ASSUME NEW l, NEW u, NEW g, Sane(l, u, g), l.initialized, NEW c \in DOMAIN l.comm,
         NEW tag \in Tags \cup {ANY_TAG}, Len(g.sends) + Len(g.recvs) + 1 <= MaxPosts,
         NEW b, b = Len(g.recvs) + 1
  PROVE  Outcome(MPI_Irecv(l, c, b, tag), l, u, g, "recv", b, Asked(l, g, c, tag))
<1>1. Shape(l) /\ l.abort = ""
  BY DEF Sane, Kept, TablesOK
<1>2. CASE Full(l.pool)
  <2> DEFINE x == [l EXCEPT !.abort = "handles"]
  <2>1. x = [l EXCEPT !.abort = "handles"]
    OBVIOUS
  <2>2. mpi_alloc_handle(l) = x
    BY <1>1, <1>2, AllocCases
  <2>3. ~(x.abort = "")
    BY <1>1 DEF Shape
  <2> HIDE DEF x
  <2>4. MPI_Irecv(l, c, b, tag) = x
    BY <2>2, <2>3, Zenon DEF MPI_Irecv, Then
  <2> QED BY <1>2, <2>1, <2>4 DEF Outcome
<1>3. CASE ~Full(l.pool)
  <2>1. AllocatedHandle(l.pool) \notin DOMAIN u
    BY <1>3, NewHandle
  <2>2. /\ Sane(MPI_Irecv(l, c, b, tag),
                With(u, AllocatedHandle(l.pool), [kind |-> "recv", id |-> b]), Asked(l, g, c, tag))
        /\ MPI_Irecv(l, c, b, tag).initialized
    <3>1. CASE FindSend(l, c, tag) = NoItem
      BY <1>3, <3>1, IrecvPendsSane, Zenon DEF Asked
    <3>2. CASE FindSend(l, c, tag) # NoItem
      BY <1>3, <3>2, IrecvCompletesSane, Zenon DEF Asked
    <3> QED BY <3>1, <3>2
  <2> QED BY <1>3, <2>1, <2>2 DEF Outcome
<1> QED BY <1>2, <1>3

-----------------------------------------------------------------------------
(* Completing requests.                                                    *)

LEMMA SameTables ==
  ASSUME NEW l, NEW g, CommsOK(l), LogOK(l, g), BuffersOK(l, g), NEW x,
         x.comm = l.comm, x.mem = l.mem, x.items = l.items, x.num = l.num,
         x.initialized = l.initialized
  PROVE  CommsOK(x) /\ LogOK(x, g) /\ BuffersOK(x, g)
<1>1. CommsOK(x)
  BY DEF CommsOK
<1>2. LogOK(x, g)
  BY DEF LogOK
<1>3. BuffersOK(x, g)
  BY DEF BuffersOK
<1> QED BY <1>1, <1>2, <1>3

\* A request that is complete is freed: it was in no list.
LEMMA FreeSane ==
  ASSUME NEW l, NEW u, NEW g, Sane(l, u, g), l.initialized,
         NEW h \in DOMAIN u, l.req[h].complete = 1
  PROVE  /\ Sane(mpi_free_handle(l, h), Without(u, h), g)
         /\ mpi_free_handle(l, h).initialized
<1> DEFINE x == mpi_free_handle(l, h)
           v == Without(u, h)
<1>1. /\ TablesOK(l) /\ CommsOK(l) /\ LogOK(l, g) /\ BuffersOK(l, g) /\ HeldOK(u, g)
      /\ RequestsOK(l, u, g) /\ QueuesOK(l, u, g) /\ PoolOK(l, u) /\ l.abort = ""
      /\ DOMAIN u \subseteq AllItems \ {NULL} /\ DOMAIN u \cap DOMAIN l.comm = {}
  BY DEF Sane, Kept
<1>2. /\ Shape(x) /\ x.pool = FreeHandle(l.pool, h)
      /\ x.req = [l.req EXCEPT ![h] = StaleReq]
      /\ x.comm = l.comm /\ x.mem = l.mem /\ x.items = l.items /\ x.num = l.num
      /\ x.initialized = l.initialized /\ x.abort = l.abort
  BY <1>1, FreeEffect DEF TablesOK
<1>3. /\ DOMAIN v = DOMAIN u \ {h} /\ v = [j \in DOMAIN v |-> v[j]]
      /\ \A j \in DOMAIN v : v[j] = u[j]
  BY DEF Without
<1> HIDE DEF x, v
<1>4. /\ x.req \in [AllItems -> Reqs]
      /\ \A j \in DOMAIN v : x.req[j] = l.req[j]
  <2>1. StaleReq \in Reqs
    BY DEF StaleReq, Reqs
  <2>2. l.req \in [AllItems -> Reqs] /\ h \in AllItems
    BY <1>1 DEF TablesOK
  <2>3. x.req \in [AllItems -> Reqs]
    BY <2>1, <2>2, <1>2
  <2>4. \A j \in AllItems : j # h => x.req[j] = l.req[j]
    BY <2>2, <1>2
  <2>5. \A j \in DOMAIN v : j \in AllItems /\ j # h
    BY <1>1, <1>3
  <2> QED BY <2>3, <2>4, <2>5
<1>5. InUse(x.pool, DOMAIN v \cup DOMAIN x.comm) /\ x.pool \in Pools
  <2> DEFINE hd == DOMAIN u \cup DOMAIN l.comm
  <2>1. InUse(l.pool, hd) /\ h \in hd
    BY <1>1 DEF PoolOK
  <2>2. hd \ {h} = DOMAIN v \cup DOMAIN x.comm
    BY <1>1, <1>2, <1>3
  <2> HIDE DEF hd
  <2>3. InUse(x.pool, hd \ {h})
    BY <2>1, <1>2, FreeInUse
  <2>4. x.pool \in Pools
    BY <2>3, InUseItems
  <2> QED BY <2>2, <2>3, <2>4
<1>6. TablesOK(x)
  BY <1>1, <1>2, <1>4, <1>5 DEF TablesOK
<1>7. CommsOK(x) /\ LogOK(x, g) /\ BuffersOK(x, g)
  BY <1>1, <1>2, SameTables
<1>8. DOMAIN v \subseteq AllItems \ {NULL} /\ DOMAIN v \cap DOMAIN x.comm = {}
  BY <1>1, <1>2, <1>3
<1>9. HeldOK(v, g)
  <2>1. DOMAIN v \subseteq DOMAIN u
    BY <1>3
  <2>2. \A j \in DOMAIN v : /\ v[j] = [kind |-> v[j].kind, id |-> v[j].id]
                            /\ v[j].kind \in Kinds
                            /\ v[j].id \in 0 .. Len(Posted(g, v[j].kind))
    BY <2>1, <1>1, <1>3 DEF HeldOK
  <2>3. \A i, j \in DOMAIN v :
          v[i].kind = v[j].kind /\ v[i].id = v[j].id /\ v[i].id # 0 => i = j
    BY <2>1, <1>1, <1>3, ZenonT(30) DEF HeldOK
  <2> QED BY <2>2, <2>3, <1>3 DEF HeldOK
<1>10. RequestsOK(x, v, g)
  BY <1>1, <1>2, <1>3, <1>4 DEF RequestsOK
<1>11. QueuesOK(x, v, g)
  <2>1. ASSUME NEW posted, NEW kind, NEW num
        PROVE  /\ Open(x.req, v, posted, kind, num) = Open(l.req, u, posted, kind, num)
               /\ \A j \in Open(l.req, u, posted, kind, num) : v[j] = u[j]
    <3>1. \A j \in DOMAIN v : j \in Open(x.req, v, posted, kind, num)
                                <=> j \in Open(l.req, u, posted, kind, num)
      BY <1>3, <1>4 DEF Open
    <3>2. h \notin Open(l.req, u, posted, kind, num)
      BY DEF Open
    <3>3. /\ Open(x.req, v, posted, kind, num) \subseteq DOMAIN v
          /\ Open(l.req, u, posted, kind, num) \subseteq DOMAIN u
      BY DEF Open
    <3> QED BY <3>1, <3>2, <3>3, <1>3
  <2> SUFFICES ASSUME NEW d \in DOMAIN l.comm
               PROVE  /\ Queue(Data(l.comm[d].sendlist),
                               Open(x.req, v, g.sends, "send", l.comm[d].num), v)
                      /\ Queue(Data(l.comm[d].recvlist),
                               Open(x.req, v, g.recvs, "recv", l.comm[d].num), v)
    BY <1>2 DEF QueuesOK
  <2>2. /\ Queue(Data(l.comm[d].sendlist), Open(l.req, u, g.sends, "send", l.comm[d].num), u)
        /\ Queue(Data(l.comm[d].recvlist), Open(l.req, u, g.recvs, "recv", l.comm[d].num), u)
    BY <1>1 DEF QueuesOK
  <2>3. Queue(Data(l.comm[d].sendlist), Open(l.req, u, g.sends, "send", l.comm[d].num), v)
    BY <2>1, <2>2, QueueKept
  <2>4. Queue(Data(l.comm[d].recvlist), Open(l.req, u, g.recvs, "recv", l.comm[d].num), v)
    BY <2>1, <2>2, QueueKept
  <2> QED BY <2>1, <2>3, <2>4
<1>12. Kept(x, v, g) /\ PoolOK(x, v)
  BY <1>2, <1>5, <1>6, <1>7, <1>8 DEF Kept, PoolOK
<1>13. Sane(x, v, g) /\ x.initialized
  BY <1>1, <1>2, <1>9, <1>10, <1>11, <1>12 DEF Sane
<1> QED BY <1>13 DEF x, v

\* The tables of an aborted program stay what they were.
LEMMA AbortKept ==
  ASSUME NEW l, NEW u, NEW g, Kept(l, u, g), NEW why \in {"handles", "deadlock", "not ready"}
  PROVE  Kept([l EXCEPT !.abort = why], u, g) /\ [l EXCEPT !.abort = why].abort = why
<1> DEFINE x == [l EXCEPT !.abort = why]
<1>1. Shape(l)
  BY DEF Kept, TablesOK
<1>2. /\ Shape(x) /\ x.abort = why
      /\ x.pool = l.pool /\ x.req = l.req
      /\ x.comm = l.comm /\ x.mem = l.mem /\ x.items = l.items /\ x.num = l.num
      /\ x.initialized = l.initialized
  BY <1>1, AbortEffect
<1> HIDE DEF x
<1>3. TablesOK(x)
  BY <1>2 DEF Kept, TablesOK
<1>4. CommsOK(x) /\ LogOK(x, g) /\ BuffersOK(x, g)
  BY <1>2, SameTables DEF Kept
<1>5. Kept(x, u, g)
  BY <1>2, <1>3, <1>4 DEF Kept
<1> QED BY <1>2, <1>5 DEF x

\* A call either goes on, with the requests v, or the program has aborted.
Goes(x, u, v, g) == \/ Sane(x, v, g) /\ x.initialized
                    \/ Kept(x, u, g) /\ x.abort \in {"deadlock", "not ready"}

LEMMA TestGoes ==
  ASSUME NEW l, NEW u, NEW g, Sane(l, u, g), l.initialized,
         NEW h \in DOMAIN u \cup {MPI_REQUEST_NULL}
  PROVE  /\ Sane(MPI_Test(l, h), IF Flag(l, h) THEN Without(u, h) ELSE u, g)
         /\ MPI_Test(l, h).initialized
<1>1. 0 \notin DOMAIN u /\ HeldOK(u, g)
  BY DEF Sane, Kept, NULL
<1>2. CASE h = MPI_REQUEST_NULL
  <2>1. MPI_Test(l, h) = l /\ Flag(l, h)
    BY <1>2 DEF MPI_Test, Flag
  <2>2. u = [j \in DOMAIN u |-> u[j]]
    BY <1>1 DEF HeldOK
  <2>3. Without(u, h) = u
    <3>1. DOMAIN u \ {h} = DOMAIN u
      BY <1>1, <1>2 DEF MPI_REQUEST_NULL
    <3>2. Without(u, h) = [j \in DOMAIN u \ {h} |-> u[j]]
      BY DEF Without
    <3> QED BY <2>2, <3>1, <3>2
  <2> QED BY <2>1, <2>3
<1>3. CASE h # MPI_REQUEST_NULL /\ Flag(l, h)
  <2>1. MPI_Test(l, h) = mpi_free_handle(l, h) /\ l.req[h].complete = 1 /\ h \in DOMAIN u
    BY <1>3 DEF MPI_Test, Flag
  <2> QED BY <1>3, <2>1, FreeSane
<1>4. CASE h # MPI_REQUEST_NULL /\ ~Flag(l, h)
  <2>1. MPI_Test(l, h) = l
    BY <1>4 DEF MPI_Test
  <2> QED BY <1>4, <2>1
<1> QED BY <1>2, <1>3, <1>4

LEMMA WaitGoes ==
  ASSUME NEW l, NEW u, NEW g, Sane(l, u, g), l.initialized,
         NEW h \in DOMAIN u \cup {MPI_REQUEST_NULL}
  PROVE  Goes(MPI_Wait(l, h), u, Without(u, h), g)
<1>1. CASE Flag(l, h)
  <2>1. MPI_Wait(l, h) = MPI_Test(l, h)
    BY <1>1 DEF MPI_Wait
  <2> QED BY <1>1, <2>1, TestGoes DEF Goes
<1>2. CASE ~Flag(l, h)
  <2> DEFINE x == [l EXCEPT !.abort = "deadlock"]
  <2>1. MPI_Wait(l, h) = x
    BY <1>2 DEF MPI_Wait
  <2>2. Kept(x, u, g) /\ x.abort = "deadlock"
    BY AbortKept DEF Sane
  <2> HIDE DEF x
  <2> QED BY <2>1, <2>2 DEF Goes
<1> QED BY <1>1, <1>2

-----------------------------------------------------------------------------
(* The calls that post and complete.                                       *)

LEMMA WithoutWith ==
  ASSUME NEW u, u = [j \in DOMAIN u |-> u[j]], NEW h, h \notin DOMAIN u, NEW e
  PROVE  Without(With(u, h, e), h) = u
<1> DEFINE v == With(u, h, e)
           w == Without(v, h)
<1>1. DOMAIN v = DOMAIN u \cup {h} /\ \A j \in DOMAIN u : v[j] = u[j]
  BY DEF With
<1> HIDE DEF v
<1>2. w = [j \in DOMAIN v \ {h} |-> v[j]] /\ DOMAIN v \ {h} = DOMAIN u
  BY <1>1 DEF Without
<1>3. w = [j \in DOMAIN u |-> v[j]]
  BY <1>2
<1>4. [j \in DOMAIN u |-> v[j]] = [j \in DOMAIN u |-> u[j]]
  BY <1>1
<1> QED BY <1>3, <1>4 DEF v

LEMMA KeptFewer ==
  ASSUME NEW l, NEW v, NEW g, Kept(l, v, g), NEW u, DOMAIN u \subseteq DOMAIN v
  PROVE  Kept(l, u, g)
BY DEF Kept

\* A call of which v and k are the requests and the log when it goes on.
Ends(x, l, u, v, k) == IF Full(l.pool) THEN x = [l EXCEPT !.abort = "handles"]
                       ELSE Goes(x, u, v, k)

LEMMA SendGoes ==
  ASSUME NEW l, NEW u, NEW g, Sane(l, u, g), l.initialized, NEW c \in DOMAIN l.comm,
         NEW tag \in Tags, Len(g.sends) + Len(g.recvs) + 1 <= MaxPosts,
         NEW m, m = Len(g.sends) + 1
  PROVE  Ends(MPI_Send(l, c, m, tag), l, u, u, Sent(l, g, c, tag))
<1> DEFINE h == AllocatedHandle(l.pool)
           e == [kind |-> "send", id |-> m]
           v == With(u, h, e)
           k == Sent(l, g, c, tag)
           x == MPI_Isend(l, c, m, tag)
           y == MPI_Send(l, c, m, tag)
<1>1. Outcome(x, l, u, g, "send", m, k)
  BY IsendOutcome
<1>2. y = Then(x, LAMBDA z : MPI_Wait(z, h))
  BY DEF MPI_Send
<1>3. CASE Full(l.pool)
  <2>1. x = [l EXCEPT !.abort = "handles"]
    BY <1>1, <1>3 DEF Outcome
  <2>2. ~(x.abort = "")
    BY <2>1 DEF Sane, Kept, TablesOK, Shape
  <2>3. y = x
    <3> HIDE DEF x, y, h
    <3> QED BY <1>2, <2>2, Zenon DEF Then
  <2> HIDE DEF x, y
  <2> QED BY <1>3, <2>1, <2>3 DEF y, Ends
<1>4. CASE ~Full(l.pool)
  <2>1. Sane(x, v, k) /\ x.initialized /\ h \notin DOMAIN u
    BY <1>1, <1>4 DEF Outcome
  <2> HIDE DEF k, x, e
  <2>2. y = MPI_Wait(x, h)
    <3>1. x.abort = ""
      BY <2>1 DEF Sane
    <3> HIDE DEF y, h
    <3> QED BY <1>2, <3>1, Zenon DEF Then
  <2>3. DOMAIN v = DOMAIN u \cup {h}
    BY DEF With
  <2>4. Without(v, h) = u
    <3>1. u = [j \in DOMAIN u |-> u[j]]
      BY DEF Sane, HeldOK
    <3> QED BY <2>1, <3>1, WithoutWith
  <2> HIDE DEF v, h
  <2>5. Goes(y, v, u, k)
    <3>1. Goes(y, v, Without(v, h), k)
      BY <2>1, <2>2, <2>3, WaitGoes
    <3> QED BY <3>1, <2>4
  <2> HIDE DEF y
  <2>6. Goes(y, u, u, k)
    BY <2>3, <2>5, KeptFewer DEF Goes
  <2> QED BY <1>4, <2>6 DEF y, k, Ends
<1> QED BY <1>3, <1>4

LEMMA RecvGoes ==
  ASSUME NEW l, NEW u, NEW g, Sane(l, u, g), l.initialized, NEW c \in DOMAIN l.comm,
         NEW tag \in Tags \cup {ANY_TAG}, Len(g.sends) + Len(g.recvs) + 1 <= MaxPosts,
         NEW b, b = Len(g.recvs) + 1
  PROVE  Ends(MPI_Recv(l, c, b, tag), l, u, u, Asked(l, g, c, tag))
<1> DEFINE h == AllocatedHandle(l.pool)
           e == [kind |-> "recv", id |-> b]
           v == With(u, h, e)
           k == Asked(l, g, c, tag)
           x == MPI_Irecv(l, c, b, tag)
           y == MPI_Recv(l, c, b, tag)
<1>1. Outcome(x, l, u, g, "recv", b, k)
  BY IrecvOutcome
<1>2. y = Then(x, LAMBDA z : MPI_Wait(z, h))
  BY DEF MPI_Recv
<1>3. CASE Full(l.pool)
  <2>1. x = [l EXCEPT !.abort = "handles"]
    BY <1>1, <1>3 DEF Outcome
  <2>2. ~(x.abort = "")
    BY <2>1 DEF Sane, Kept, TablesOK, Shape
  <2>3. y = x
    <3> HIDE DEF x, y, h
    <3> QED BY <1>2, <2>2, Zenon DEF Then
  <2> HIDE DEF x, y
  <2> QED BY <1>3, <2>1, <2>3 DEF y, Ends
<1>4. CASE ~Full(l.pool)
  <2>1. Sane(x, v, k) /\ x.initialized /\ h \notin DOMAIN u
    BY <1>1, <1>4 DEF Outcome
  <2> HIDE DEF k, x, e
  <2>2. y = MPI_Wait(x, h)
    <3>1. x.abort = ""
      BY <2>1 DEF Sane
    <3> HIDE DEF y, h
    <3> QED BY <1>2, <3>1, Zenon DEF Then
  <2>3. DOMAIN v = DOMAIN u \cup {h}
    BY DEF With
  <2>4. Without(v, h) = u
    <3>1. u = [j \in DOMAIN u |-> u[j]]
      BY DEF Sane, HeldOK
    <3> QED BY <2>1, <3>1, WithoutWith
  <2> HIDE DEF v, h
  <2>5. Goes(y, v, u, k)
    <3>1. Goes(y, v, Without(v, h), k)
      BY <2>1, <2>2, <2>3, WaitGoes
    <3> QED BY <3>1, <2>4
  <2> HIDE DEF y
  <2>6. Goes(y, u, u, k)
    BY <2>3, <2>5, KeptFewer DEF Goes
  <2> QED BY <1>4, <2>6 DEF y, k, Ends
<1> QED BY <1>3, <1>4

\* A ready send that finds no receive gives up.
LEMMA IrsendGoes ==
  ASSUME NEW l, NEW u, NEW g, Sane(l, u, g), l.initialized, NEW c \in DOMAIN l.comm,
         NEW tag \in Tags, Len(g.sends) + Len(g.recvs) + 1 <= MaxPosts,
         NEW m, m = Len(g.sends) + 1
  PROVE  Ends(MPI_Irsend(l, c, m, tag), l, u,
              With(u, AllocatedHandle(l.pool), [kind |-> "send", id |-> m]),
              Sent(l, g, c, tag))
<1> DEFINE h == AllocatedHandle(l.pool)
           e == [kind |-> "send", id |-> m]
           v == With(u, h, e)
           k == Sent(l, g, c, tag)
           x == MPI_Isend(l, c, m, tag)
           y == MPI_Irsend(l, c, m, tag)
<1>1. Outcome(x, l, u, g, "send", m, k)
  BY IsendOutcome
<1>2. y = Then(x, LAMBDA z : IF z.req[h].complete = 1 THEN z ELSE [z EXCEPT !.abort = "not ready"])
  BY DEF MPI_Irsend
<1>3. CASE Full(l.pool)
  <2>1. x = [l EXCEPT !.abort = "handles"]
    BY <1>1, <1>3 DEF Outcome
  <2>2. ~(x.abort = "")
    BY <2>1 DEF Sane, Kept, TablesOK, Shape
  <2>3. y = x
    <3> HIDE DEF x, y, h
    <3> QED BY <1>2, <2>2, Zenon DEF Then
  <2> HIDE DEF x, y
  <2> QED BY <1>3, <2>1, <2>3 DEF y, Ends
<1>4. CASE ~Full(l.pool)
  <2>1. Sane(x, v, k) /\ x.initialized /\ h \notin DOMAIN u
    BY <1>1, <1>4 DEF Outcome
  <2> HIDE DEF k, x, e
  <2>2. y = IF x.req[h].complete = 1 THEN x ELSE [x EXCEPT !.abort = "not ready"]
    <3>1. x.abort = ""
      BY <2>1 DEF Sane
    <3> HIDE DEF y, h
    <3> QED BY <1>2, <3>1, Zenon DEF Then
  <2>3. DOMAIN v = DOMAIN u \cup {h}
    BY DEF With
  <2> HIDE DEF v, h, y
  <2>4. Goes(y, v, v, k)
    <3>1. CASE x.req[h].complete = 1
      BY <2>1, <2>2, <3>1 DEF Goes
    <3>2. CASE x.req[h].complete # 1
      <4>1. Kept([x EXCEPT !.abort = "not ready"], v, k)
            /\ [x EXCEPT !.abort = "not ready"].abort = "not ready"
        BY <2>1, AbortKept DEF Sane
      <4> QED BY <2>2, <3>2, <4>1 DEF Goes
    <3> QED BY <3>1, <3>2
  <2>5. Goes(y, u, v, k)
    BY <2>3, <2>4, KeptFewer DEF Goes
  <2> QED BY <1>4, <2>5 DEF y, k, v, h, e, Ends
<1> QED BY <1>3, <1>4

\* The communicators and their numbers are the same.
SameComms(x, l) == /\ DOMAIN x.comm = DOMAIN l.comm
                   /\ \A d \in DOMAIN l.comm : x.comm[d].num = l.comm[d].num

LEMMA IrecvSameComms ==
  ASSUME NEW l, NEW u, NEW g, Sane(l, u, g), ~Full(l.pool), NEW c \in DOMAIN l.comm,
         NEW b, NEW tag
  PROVE  SameComms(MPI_Irecv(l, c, b, tag), l)
<1> DEFINE q == l.comm[c]
           h == AllocatedHandle(l.pool)
           x == MPI_Irecv(l, c, b, tag)
<1>1. Shape(l) /\ CommShape(q) /\ CommsOK(l) /\ l.abort = ""
  BY DEF Sane, Kept, TablesOK, CommsOK
<1>2. CASE FindSend(l, c, tag) = NoItem
  <2> DEFINE new == AP_list_append(q.recvlist, Malloc(q.recvlist), h)
             comm == [l.comm EXCEPT ![c] = [q EXCEPT !.recvlist = new]]
             req == [l.req EXCEPT ![h] = Pending(l.req[h], b, tag)]
  <2>1. Posts(x, l, comm, req, l.mem, l.items)
    BY <1>1, <1>2, IrecvPends, Zenon
  <2> HIDE DEF new, x, req
  <2>2. Relisted(comm, l.comm, c, q.sendlist, new)
    BY <1>1, SetRecvList DEF comm, q
  <2>3. x.comm = comm
    BY <2>1 DEF Posts
  <2> HIDE DEF comm
  <2>4. SameComms(x, l)
    BY <2>2, <2>3 DEF Relisted, SameComms
  <2> QED BY <2>4 DEF x
<1>3. CASE FindSend(l, c, tag) # NoItem
  <2> DEFINE a == FindSend(l, c, tag)
             s == q.sendlist.item[a].data
             new == AP_list_delete_item(q.sendlist, a)
             comm == [l.comm EXCEPT ![c] = [q EXCEPT !.sendlist = new]]
             req == [[l.req EXCEPT ![h] = Received(l.req[h], l.req[s].tag)] EXCEPT ![s].complete = 1]
             mem == [l.mem EXCEPT ![b] = l.req[s].buf]
             items == [l.items EXCEPT ![b] = RecvCount(tag)]
  <2>1. Posts(x, l, comm, req, mem, items)
    <3>1. s = q.sendlist.item[FindSend(l, c, tag)].data
      OBVIOUS
    <3> QED BY <1>1, <1>3, <3>1, IrecvCompletes, Zenon
  <2> HIDE DEF new, x, req, mem, items
  <2>2. Relisted(comm, l.comm, c, new, q.recvlist)
    BY <1>1, SetSendList DEF comm, q
  <2>3. x.comm = comm
    BY <2>1 DEF Posts
  <2> HIDE DEF comm
  <2>4. SameComms(x, l)
    BY <2>2, <2>3 DEF Relisted, SameComms
  <2> QED BY <2>4 DEF x
<1> QED BY <1>2, <1>3

\* The send of a sendrecv that finds no item leaves its receive posted, in k;
\* k2 is the log when both were posted.
EndsTwice(x, l, u, k, k2) == IF Full(l.pool) THEN x = [l EXCEPT !.abort = "handles"]
                             ELSE \/ Kept(x, u, k) /\ x.abort = "handles"
                                  \/ Goes(x, u, u, k2)

LEMMA SendrecvGoes ==
  ASSUME NEW l, NEW u, NEW g, Sane(l, u, g), l.initialized, NEW c \in DOMAIN l.comm,
         NEW tag \in Tags, NEW recvtag \in Tags \cup {ANY_TAG},
         Len(g.sends) + Len(g.recvs) + 2 <= MaxPosts,
         NEW m, m = Len(g.sends) + 1, NEW b, b = Len(g.recvs) + 1
  PROVE  EndsTwice(MPI_Sendrecv(l, c, m, tag, b, recvtag), l, u,
                   Asked(l, g, c, recvtag), Sent(l, Asked(l, g, c, recvtag), c, tag))
<1> DEFINE h == AllocatedHandle(l.pool)
           e == [kind |-> "recv", id |-> b]
           v == With(u, h, e)
           k == Asked(l, g, c, recvtag)
           k2 == Sent(l, k, c, tag)
           x == MPI_Irecv(l, c, b, recvtag)
           x2 == Then(x, LAMBDA z : MPI_Send(z, c, m, tag))
           y == MPI_Sendrecv(l, c, m, tag, b, recvtag)
<1>0. /\ Len(g.sends) \in Nat /\ Len(g.recvs) \in Nat
      /\ g \in [sends : {g.sends}, recvs : {g.recvs}] /\ g.recvs \in Seq(
            [comm : 0 .. l.num - 1, tag : Tags \cup {ANY_TAG}])
      /\ Len(g.sends) + Len(g.recvs) + 1 <= MaxPosts
  <2>1. LogOK(l, g) /\ TablesOK(l)
    BY DEF Sane, Kept
  <2>2. Len(g.sends) \in Nat /\ Len(g.recvs) \in Nat /\ MaxPosts \in Nat
    BY <2>1, LogTypes
  <2> DEFINE p == Len(g.sends)
             n == Len(g.recvs)
  <2>3. p \in Nat /\ n \in Nat /\ p + n + 2 <= MaxPosts
    BY <2>2
  <2> HIDE DEF p, n
  <2>4. p + n + 1 <= MaxPosts
    BY <2>2, <2>3
  <2> QED BY <2>1, <2>2, <2>4 DEF LogOK, p, n
<1>1. Outcome(x, l, u, g, "recv", b, k)
  BY <1>0, IrecvOutcome
<1>2. y = Then(x2, LAMBDA z : MPI_Wait(z, h))
  BY DEF MPI_Sendrecv
<1>3. CASE Full(l.pool)
  <2>1. x = [l EXCEPT !.abort = "handles"]
    BY <1>1, <1>3 DEF Outcome
  <2>2. ~(x.abort = "")
    BY <2>1 DEF Sane, Kept, TablesOK, Shape
  <2>3. x2 = x
    <3> HIDE DEF x
    <3> QED BY <2>2, Zenon DEF Then
  <2>4. y = x
    <3> HIDE DEF x, x2, y, h
    <3> QED BY <1>2, <2>2, <2>3, Zenon DEF Then
  <2> HIDE DEF x, x2, y
  <2> QED BY <1>3, <2>1, <2>4 DEF y, EndsTwice
<1>4. CASE ~Full(l.pool)
  <2>1. Sane(x, v, k) /\ x.initialized /\ h \notin DOMAIN u /\ SameComms(x, l) /\ x.abort = ""
    <3>1. Sane(x, v, k) /\ x.initialized /\ h \notin DOMAIN u
      BY <1>1, <1>4 DEF Outcome
    <3>2. SameComms(x, l)
      BY <1>4, IrecvSameComms
    <3>3. x.abort = ""
      BY <3>1 DEF Sane
    <3> QED BY <3>1, <3>2, <3>3
  <2>2. /\ m = Len(k.sends) + 1 /\ Len(k.sends) + Len(k.recvs) + 1 <= MaxPosts
    <3>1. k.sends = g.sends /\ Len(k.recvs) = Len(g.recvs) + 1
      BY <1>0 DEF Asked
    <3> HIDE DEF k
    <3> DEFINE p == Len(g.sends)
               n == Len(g.recvs)
    <3>2. p \in Nat /\ n \in Nat /\ p + n + 2 <= MaxPosts /\ MaxPosts \in Nat
      BY <1>0, MessagesAssumption
    <3> HIDE DEF p, n
    <3>3. p + (n + 1) + 1 <= MaxPosts
      BY <3>2
    <3> QED BY <3>1, <3>3 DEF p, n
  <2>3. DOMAIN v = DOMAIN u \cup {h}
    BY DEF With
  <2>4. Without(v, h) = u
    <3>1. u = [j \in DOMAIN u |-> u[j]]
      BY DEF Sane, HeldOK
    <3> HIDE DEF e
    <3> QED BY <2>1, <3>1, WithoutWith
  <2>5. k2 = Sent(x, k, c, tag) /\ c \in DOMAIN x.comm
    <3>1. c \in DOMAIN x.comm /\ x.comm[c].num = l.comm[c].num
      BY <2>1 DEF SameComms
    <3> HIDE DEF k, x
    <3> QED BY <3>1 DEF Sent
  <2>6. x2 = MPI_Send(x, c, m, tag)
    <3> HIDE DEF x
    <3> QED BY <2>1, Zenon DEF Then
  <2> HIDE DEF k, k2, x, e, x2, v, h
  <2>7. IF Full(x.pool) THEN x2 = [x EXCEPT !.abort = "handles"]
        ELSE Goes(x2, v, v, k2)
    <3> HIDE DEF y
    <3>1. Sane(x, v, k)
      BY <2>1
    <3>2. x.initialized
      BY <2>1
    <3>3. c \in DOMAIN x.comm
      BY <2>5
    <3>4. m = Len(k.sends) + 1
      BY <2>2
    <3>5. Len(k.sends) + Len(k.recvs) + 1 <= MaxPosts
      BY <2>2
    <3>6. Ends(MPI_Send(x, c, m, tag), x, v, v, Sent(x, k, c, tag))
      BY <3>1, <3>2, <3>3, <3>4, <3>5, SendGoes
    <3> QED BY <2>5, <2>6, <3>6 DEF Ends
  <2>8. CASE x2.abort # ""
    <3>1. y = x2
      <4> HIDE DEF y
      <4> QED BY <1>2, <2>8, Zenon DEF Then
    <3>2. Kept(x, v, k)
      BY <2>1 DEF Sane
    <3>3. \/ Kept(x2, v, k) /\ x2.abort = "handles"
          \/ Kept(x2, v, k2) /\ x2.abort \in {"deadlock", "not ready"}
      <4>1. CASE Full(x.pool)
        <5>1. Kept([x EXCEPT !.abort = "handles"], v, k)
              /\ [x EXCEPT !.abort = "handles"].abort = "handles"
          BY <3>2, AbortKept
        <5> QED BY <2>7, <4>1, <5>1
      <4>2. CASE ~Full(x.pool)
        <5>1. ~Sane(x2, v, k2)
          BY <2>8 DEF Sane
        <5> QED BY <2>7, <4>2, <5>1 DEF Goes
      <4> QED BY <4>1, <4>2
    <3> HIDE DEF y
    <3>4. \/ Kept(y, u, k) /\ y.abort = "handles"
          \/ Goes(y, u, u, k2)
      BY <3>1, <3>3, <2>3, KeptFewer DEF Goes
    <3> QED BY <1>4, <3>4 DEF y, k, k2, EndsTwice
  <2>9. CASE x2.abort = ""
    <3>1. y = MPI_Wait(x2, h)
      <4> HIDE DEF y
      <4> QED BY <1>2, <2>9, Zenon DEF Then
    <3>2. Sane(x2, v, k2) /\ x2.initialized
      <4>1. CASE Full(x.pool)
        <5>1. Kept(x, v, k)
          BY <2>1 DEF Sane
        <5>2. [x EXCEPT !.abort = "handles"].abort = "handles"
          BY <5>1, AbortKept
        <5> QED BY <2>7, <4>1, <5>2, <2>9
      <4>2. CASE ~Full(x.pool)
        BY <2>7, <2>9, <4>2 DEF Goes
      <4> QED BY <4>1, <4>2
    <3> HIDE DEF y
    <3>3. Goes(y, v, Without(v, h), k2)
      BY <3>1, <3>2, <2>3, WaitGoes
    <3>4. Goes(y, v, u, k2)
      BY <3>3, <2>4
    <3>5. Goes(y, u, u, k2)
      BY <3>4, <2>3, KeptFewer DEF Goes
    <3> QED BY <1>4, <3>5 DEF y, k, k2, EndsTwice
  <2> QED BY <2>8, <2>9
<1> QED BY <1>3, <1>4

-----------------------------------------------------------------------------
(* Waiting for several requests.                                           *)

\* A wait that follows other calls.
ThenWait(l, h) == IF l.abort = "" THEN MPI_Wait(l, h) ELSE l

LEMMA WaitallOfTwo ==
  ASSUME NEW l, NEW hs, Len(hs) = 2
  PROVE  MPI_Waitall(l, hs) = ThenWait(ThenWait(l, hs[1]), hs[2])
<1> DEFINE a1 == ThenWait(l, hs[1])
           a2 == ThenWait(a1, hs[2])
           step(f) == [i \in 0 .. Len(hs) |->
                         IF i = 0 THEN l ELSE Then(f[i - 1], LAMBDA x : MPI_Wait(x, hs[i]))]
           w == [i \in 0 .. 2 |-> IF i = 0 THEN l ELSE IF i = 1 THEN a1 ELSE a2]
<1>1. ASSUME NEW y, NEW h
      PROVE  Then(y, LAMBDA x : MPI_Wait(x, h)) = ThenWait(y, h)
  BY Zenon DEF Then, ThenWait
<1>2. ASSUME NEW f
      PROVE  step(f) = [i \in 0 .. 2 |-> IF i = 0 THEN l ELSE ThenWait(f[i - 1], hs[i])]
  BY <1>1
<1>3. MPI_Waitall(l, hs) = (CHOOSE f : f = step(f))[Len(hs)]
  BY Zenon DEF MPI_Waitall
<1> HIDE DEF step
<1>4. step(w) = w
  <2>1. w[0] = l /\ w[1] = a1 /\ w[2] = a2
    OBVIOUS
  <2>2. step(w) = [i \in 0 .. 2 |-> IF i = 0 THEN l ELSE ThenWait(w[i - 1], hs[i])]
    BY <1>2
  <2>3. ASSUME NEW i \in 0 .. 2
        PROVE  (IF i = 0 THEN l ELSE ThenWait(w[i - 1], hs[i]))
                 = (IF i = 0 THEN l ELSE IF i = 1 THEN a1 ELSE a2)
    <3> HIDE DEF w
    <3>1. CASE i = 0
      BY <3>1
    <3>2. CASE i = 1
      BY <3>2, <2>1
    <3>3. CASE i = 2
      BY <3>3, <2>1
    <3> QED BY <3>1, <3>2, <3>3
  <2> QED BY <2>2, <2>3
<1> DEFINE f == CHOOSE f : f = step(f)
<1>5. f = step(f)
  BY <1>4, Zenon
<1> HIDE DEF f, w
<1>6. f[0] = l /\ f[1] = ThenWait(f[0], hs[1]) /\ f[2] = ThenWait(f[1], hs[2])
  BY <1>5, <1>2
<1> QED BY <1>3, <1>6 DEF f

\* The requests an array of two entries leaves.
LEMMA ArrayOfTwo ==
  ASSUME NEW S, NEW hs \in [{1, 2} -> S]
  PROVE  /\ hs \in Seq(S) /\ Len(hs) = 2 /\ hs[1] \in S /\ hs[2] \in S
         /\ Range(hs) = {hs[1], hs[2]}
<1>1. hs \in [1 .. 2 -> S]
  OBVIOUS
<1>2. hs \in Seq(S)
  <2>1. 2 \in Nat
    OBVIOUS
  <2>2. \E n \in Nat : hs \in [1 .. n -> S]
    BY <1>1, <2>1, Zenon
  <2> QED BY <2>2, SeqDef, Zenon
<1>3. Len(hs) \in Nat /\ 1 .. 2 = 1 .. Len(hs)
  BY <1>1, <1>2, LenProperties
<1>4. Len(hs) = 2
  BY <1>3, 2 \in 1 .. 2
<1> QED BY <1>2, <1>4 DEF Range

LeftOf(u, S) == [h \in DOMAIN u \ S |-> u[h]]

LEMMA WithoutTwo ==
  ASSUME NEW u, NEW a, NEW b
  PROVE  Without(Without(u, a), b) = LeftOf(u, {a, b})
<1> DEFINE v == Without(u, a)
<1>1. DOMAIN v = DOMAIN u \ {a} /\ \A h \in DOMAIN v : v[h] = u[h]
  BY DEF Without
<1>2. Without(v, b) = [h \in DOMAIN v \ {b} |-> v[h]]
  BY DEF Without
<1> HIDE DEF v
<1>3. DOMAIN v \ {b} = DOMAIN u \ {a, b}
  BY <1>1
<1>4. \A h \in DOMAIN u \ {a, b} : v[h] = u[h]
  BY <1>1
<1> QED BY <1>2, <1>3, <1>4 DEF v, LeftOf

\* Waiting moves no message and leaves the communicators as they are.
Quiet(x, l) == x.mem = l.mem /\ x.comm = l.comm

LEMMA WaitQuiet ==
  ASSUME NEW l, TablesOK(l), NEW h \in AllItems \cup {MPI_REQUEST_NULL}
  PROVE  Quiet(MPI_Wait(l, h), l) /\ Quiet(MPI_Test(l, h), l)
<1>1. Shape(l)
  BY DEF TablesOK
<1>2. Quiet([l EXCEPT !.abort = "deadlock"], l)
  BY <1>1, AbortEffect DEF Quiet
<1>3. Quiet(mpi_free_handle(l, h), l)
  BY <1>1, FreeEffect DEF Quiet
<1>4. Quiet(l, l)
  BY DEF Quiet
<1> QED BY <1>2, <1>3, <1>4 DEF MPI_Wait, MPI_Test

LEMMA AbortQuiet ==
  ASSUME NEW l, TablesOK(l), NEW why, NEW x, x = [l EXCEPT !.abort = why]
  PROVE  Quiet(x, l) /\ x.abort = why
<1>1. Shape(l)
  BY DEF TablesOK
<1> QED BY <1>1, AbortEffect DEF Quiet

LEMMA WaitallGoes ==
  ASSUME NEW l, NEW u, NEW g, Sane(l, u, g), l.initialized,
         NEW hs \in [{1, 2} -> DOMAIN u \cup {MPI_REQUEST_NULL}], hs[1] # hs[2]
  PROVE  Goes(MPI_Waitall(l, hs), u, LeftOf(u, Range(hs)), g)
<1> DEFINE x == MPI_Wait(l, hs[1])
           v == Without(u, hs[1])
           w == Without(v, hs[2])
           y == MPI_Waitall(l, hs)
<1>1. /\ Len(hs) = 2 /\ Range(hs) = {hs[1], hs[2]}
      /\ hs[1] \in DOMAIN u \cup {MPI_REQUEST_NULL} /\ hs[2] \in DOMAIN u \cup {MPI_REQUEST_NULL}
  BY ArrayOfTwo
<1>2. w = LeftOf(u, Range(hs))
  <2>1. w = LeftOf(u, {hs[1], hs[2]})
    <3>1. ASSUME NEW i, NEW j
          PROVE  Without(Without(u, i), j) = LeftOf(u, {i, j})
      BY WithoutTwo
    <3> QED BY <3>1, Zenon
  <2>2. {hs[1], hs[2]} = Range(hs)
    BY <1>1
  <2> HIDE DEF w
  <2> QED BY <2>1, <2>2
<1>3. DOMAIN v = DOMAIN u \ {hs[1]}
  BY DEF Without
<1>4. l.abort = "" /\ Goes(x, u, v, g)
  BY <1>1, WaitGoes DEF Sane
<1>5. y = ThenWait(x, hs[2])
  BY <1>1, <1>4, WaitallOfTwo DEF ThenWait
<1> HIDE DEF x, v, y, w
<1>6. CASE Sane(x, v, g) /\ x.initialized
  <2>1. y = MPI_Wait(x, hs[2])
    BY <1>5, <1>6 DEF ThenWait, Sane
  <2>2. hs[2] \in DOMAIN v \cup {MPI_REQUEST_NULL}
    BY <1>1, <1>3
  <2>3. Goes(y, v, w, g)
    BY <1>6, <2>1, <2>2, WaitGoes DEF w
  <2>4. Goes(y, u, w, g)
    <3>1. CASE Sane(y, w, g) /\ y.initialized
      BY <3>1 DEF Goes
    <3>2. CASE Kept(y, v, g) /\ y.abort \in {"deadlock", "not ready"}
      <4>1. DOMAIN u \subseteq AllItems \ {NULL} /\ DOMAIN u \cap DOMAIN l.comm = {}
            /\ TablesOK(l)
        BY DEF Sane, Kept
      <4>2. hs[1] \in AllItems \cup {MPI_REQUEST_NULL} /\ hs[2] \in AllItems \cup {MPI_REQUEST_NULL}
        BY <1>1, <4>1
      <4>3. x.comm = l.comm
        BY <4>1, <4>2, WaitQuiet DEF x, Quiet
      <4>4. TablesOK(x)
        BY <1>6 DEF Sane, Kept
      <4>5. y.comm = x.comm
        BY <2>1, <4>2, <4>4, WaitQuiet DEF Quiet
      <4>6. Kept(y, u, g)
        BY <3>2, <4>1, <4>3, <4>5 DEF Kept
      <4> QED BY <3>2, <4>6 DEF Goes
    <3> QED BY <2>3, <3>1, <3>2 DEF Goes
  <2> QED BY <1>2, <2>4 DEF y, w, v
<1>7. CASE Kept(x, u, g) /\ x.abort \in {"deadlock", "not ready"}
  <2>1. y = x
    BY <1>5, <1>7 DEF ThenWait
  <2> QED BY <1>2, <1>7, <2>1 DEF Goes, y, w, v
<1> QED BY <1>4, <1>6, <1>7 DEF Goes

LEMMA WaitanyGoes ==
  ASSUME NEW l, NEW u, NEW g, Sane(l, u, g), l.initialized,
         NEW hs \in [{1, 2} -> DOMAIN u \cup {MPI_REQUEST_NULL}]
  PROVE  Goes(MPI_Waitany(l, hs), u, Without(u, hs[FirstComplete(l, hs)]), g)
<1> DEFINE I == {i \in 1 .. Len(hs) : Flag(l, hs[i])}
           i == FirstComplete(l, hs)
           x == [l EXCEPT !.abort = "deadlock"]
<1>1. i = IF I # {} THEN Min(I) ELSE 0
  BY DEF FirstComplete, SelectInSeq
<1>2. Len(hs) = 2
  BY ArrayOfTwo
<1>3. CASE I = {}
  <2>1. MPI_Waitany(l, hs) = x
    BY <1>1, <1>3 DEF MPI_Waitany
  <2>2. Kept(x, u, g) /\ x.abort = "deadlock"
    BY AbortKept DEF Sane
  <2> HIDE DEF x
  <2> QED BY <2>1, <2>2 DEF Goes
<1>4. CASE I # {}
  <2>1. \E x1 \in I : \A x2 \in I : x1 <= x2
    <3>1. I \subseteq Nat
      BY <1>2
    <3> HIDE DEF I
    <3> QED BY <3>1, <1>4, LeastNumber
  <2>2. Min(I) \in I
    <3> HIDE DEF I
    <3> QED BY <2>1, Zenon DEF Min
  <2>3. i \in {1, 2} /\ Flag(l, hs[i])
    BY <1>1, <1>2, <1>4, <2>2
  <2> HIDE DEF i, I
  <2>4. MPI_Waitany(l, hs) = MPI_Test(l, hs[i])
    BY <2>3 DEF MPI_Waitany, i
  <2>5. hs[i] \in DOMAIN u \cup {MPI_REQUEST_NULL}
    BY <2>3
  <2>6. Sane(MPI_Test(l, hs[i]), Without(u, hs[i]), g) /\ MPI_Test(l, hs[i]).initialized
    BY <2>3, <2>5, TestGoes
  <2> QED BY <2>4, <2>6 DEF Goes, i
<1> QED BY <1>3, <1>4

-----------------------------------------------------------------------------
(* Communicators.                                                          *)

LEMMA LargerSeq ==
  ASSUME NEW S, NEW T, S \subseteq T, NEW s \in Seq(S)
  PROVE  s \in Seq(T)
<1>1. Len(s) \in Nat /\ s \in [1 .. Len(s) -> S]
  BY LenProperties
<1>2. s \in [1 .. Len(s) -> T]
  BY <1>1
<1>3. \E n \in Nat : s \in [1 .. n -> T]
  BY <1>1, <1>2, Zenon
<1> QED BY <1>3, SeqDef, ZenonT(30)

NewComm(l) == [sendlist |-> AP_list_new, recvlist |-> AP_list_new, num |-> l.num]

\* x is l with a new communicator h, and initialised.
Opened(x, l, h) ==
  /\ Shape(x) /\ x.num = l.num + 1 /\ x.abort = "" /\ x.initialized = TRUE
  /\ x.pool = AllocHandle(l.pool) /\ x.comm = With(l.comm, h, NewComm(l))
  /\ x.req = l.req /\ x.mem = l.mem /\ x.items = l.items

\* The next number belongs to nothing that was posted.
LEMMA NoneOpen ==
  ASSUME NEW l, NEW u, NEW g, LogOK(l, g), HeldOK(u, g), NEW kind \in Kinds
  PROVE  Open(l.req, u, Posted(g, kind), kind, l.num) = {}
<1> SUFFICES ASSUME NEW h \in DOMAIN u, u[h].kind = kind, u[h].id # 0,
                    Posted(g, kind)[u[h].id].comm = l.num
             PROVE  FALSE
  BY DEF Open
<1> DEFINE i == u[h].id
           s == Posted(g, kind)
           n == l.num
<1>1. i \in 0 .. Len(s) /\ i # 0
  BY DEF HeldOK
<1>2. s \in Seq([comm : 0 .. n - 1, tag : Tags \cup {ANY_TAG}])
  <2>1. [comm : 0 .. n - 1, tag : Tags] \subseteq [comm : 0 .. n - 1, tag : Tags \cup {ANY_TAG}]
    OBVIOUS
  <2>2. g.sends \in Seq([comm : 0 .. n - 1, tag : Tags \cup {ANY_TAG}])
    <3>1. g.sends \in Seq([comm : 0 .. n - 1, tag : Tags])
      BY DEF LogOK
    <3> QED BY <2>1, <3>1, LargerSeq
  <2> QED BY <2>2 DEF LogOK, Posted
<1>3. s[i].comm = n
  OBVIOUS
<1> HIDE DEF i, s, n
<1>4. i \in 1 .. Len(s)
  BY <1>1, <1>2
<1>5. s[i].comm \in 0 .. n - 1
  <2> DEFINE R == [comm : 0 .. n - 1, tag : Tags \cup {ANY_TAG}]
  <2>1. s \in Seq(R)
    BY <1>2
  <2> HIDE DEF R
  <2>2. s[i] \in R
    BY <2>1, <1>4
  <2> QED BY <2>2 DEF R
<1> QED BY <1>3, <1>5

LEMMA OpenedSane ==
  ASSUME NEW l, NEW u, NEW g, Sane(l, u, g), l.num < MaxComms, NEW x, NEW h, Opened(x, l, h),
         h \in AllItems \ {NULL}, h \notin DOMAIN u, h \notin DOMAIN l.comm,
         InUse(AllocHandle(l.pool), (DOMAIN u \cup DOMAIN l.comm) \cup {h}),
         l.initialized \/ h = MPI_COMM_WORLD
  PROVE  Sane(x, u, g)
<1>1. /\ TablesOK(l) /\ CommsOK(l) /\ LogOK(l, g) /\ BuffersOK(l, g) /\ HeldOK(u, g)
      /\ RequestsOK(l, u, g) /\ QueuesOK(l, u, g)
      /\ DOMAIN u \subseteq AllItems \ {NULL} /\ DOMAIN u \cap DOMAIN l.comm = {}
  BY DEF Sane, Kept
<1> DEFINE n == l.num
<1>2. n \in Nat /\ n + 1 \in 0 .. MaxComms /\ x.num = n + 1
  <2>1. n \in 0 .. MaxComms /\ n < MaxComms /\ MaxComms \in Nat
    BY <1>1, MessagesAssumption DEF TablesOK
  <2>2. x.num = n + 1
    BY DEF Opened
  <2> HIDE DEF n
  <2> QED BY <2>1, <2>2
<1>3. /\ DOMAIN x.comm = DOMAIN l.comm \cup {h} /\ x.comm[h] = NewComm(l)
      /\ \A d \in DOMAIN l.comm : d # h /\ x.comm[d] = l.comm[d]
  BY DEF Opened, With
<1>4. x.pool \in Pools
  BY InUseItems DEF Opened
<1>5. TablesOK(x)
  BY <1>1, <1>2, <1>4 DEF TablesOK, Opened
<1>6. /\ CommShape(NewComm(l)) /\ NewComm(l).num = n
      /\ NewComm(l).sendlist = AP_list_new /\ NewComm(l).recvlist = AP_list_new
  BY DEF NewComm, CommShape
<1>7. CommsOK(x)
  <2>1. DOMAIN x.comm \subseteq AllItems \ {NULL}
    BY <1>1, <1>3 DEF CommsOK
  <2>2. MPI_COMM_WORLD \in DOMAIN x.comm
    BY <1>1, <1>3 DEF CommsOK
  <2>3. ASSUME NEW c \in DOMAIN x.comm
        PROVE  /\ CommShape(x.comm[c])
               /\ ListOK(x.comm[c].sendlist) /\ ListOK(x.comm[c].recvlist)
               /\ x.comm[c].num \in 0 .. x.num - 1
    <3>1. CASE c = h
      <4>1. CommShape(x.comm[c]) /\ ListOK(x.comm[c].sendlist) /\ ListOK(x.comm[c].recvlist)
        BY <3>1, <1>3, <1>6, NewListOK
      <4>2. x.comm[c].num = n
        BY <3>1, <1>3, <1>6
      <4> HIDE DEF n
      <4>3. n \in 0 .. x.num - 1
        BY <1>2
      <4> QED BY <4>1, <4>2, <4>3
    <3>2. CASE c \in DOMAIN l.comm
      <4>1. /\ CommShape(l.comm[c])
            /\ ListOK(l.comm[c].sendlist) /\ ListOK(l.comm[c].recvlist)
            /\ l.comm[c].num \in 0 .. n - 1
        BY <3>2, <1>1 DEF CommsOK
      <4> HIDE DEF n
      <4> QED BY <3>2, <4>1, <1>2, <1>3
    <3> QED BY <3>1, <3>2, <1>3
  <2>4. \A c \in DOMAIN l.comm : l.comm[c].num # n
    <3>1. \A c \in DOMAIN l.comm : l.comm[c].num \in 0 .. n - 1
      BY <1>1 DEF CommsOK
    <3> HIDE DEF n
    <3> QED BY <3>1, <1>2
  <2>5. \A c, d \in DOMAIN l.comm : l.comm[c].num = l.comm[d].num => c = d
    BY <1>1 DEF CommsOK
  <2>6. \A c, d \in DOMAIN x.comm : x.comm[c].num = x.comm[d].num => c = d
    <3> HIDE DEF n
    <3> QED BY <2>4, <2>5, <1>3, <1>6
  <2> QED BY <2>1, <2>2, <2>3, <2>6 DEF CommsOK
<1>8. LogOK(x, g)
  <2>1. /\ g.sends \in Seq([comm : 0 .. n - 1, tag : Tags])
        /\ g.recvs \in Seq([comm : 0 .. n - 1, tag : Tags \cup {ANY_TAG}])
        /\ g = [sends |-> g.sends, recvs |-> g.recvs]
    BY <1>1 DEF LogOK
  <2>2. Len(g.sends) + Len(g.recvs) <= MaxPosts
    BY <1>1 DEF LogOK
  <2> HIDE DEF n
  <2>3. 0 .. n - 1 \subseteq 0 .. x.num - 1
    BY <1>2
  <2>4. g.sends \in Seq([comm : 0 .. x.num - 1, tag : Tags])
    <3> DEFINE S == [comm : 0 .. n - 1, tag : Tags]
               T == [comm : 0 .. x.num - 1, tag : Tags]
    <3>1. S \subseteq T /\ g.sends \in Seq(S)
      BY <2>1, <2>3
    <3> HIDE DEF S, T
    <3>2. g.sends \in Seq(T)
      BY <3>1, LargerSeq
    <3> QED BY <3>2 DEF T
  <2>5. g.recvs \in Seq([comm : 0 .. x.num - 1, tag : Tags \cup {ANY_TAG}])
    <3> DEFINE S == [comm : 0 .. n - 1, tag : Tags \cup {ANY_TAG}]
               T == [comm : 0 .. x.num - 1, tag : Tags \cup {ANY_TAG}]
    <3>1. S \subseteq T /\ g.recvs \in Seq(S)
      BY <2>1, <2>3
    <3> HIDE DEF S, T
    <3>2. g.recvs \in Seq(T)
      BY <3>1, LargerSeq
    <3> QED BY <3>2 DEF T
  <2>6. g \in [sends : Seq([comm : 0 .. x.num - 1, tag : Tags]),
               recvs : Seq([comm : 0 .. x.num - 1, tag : Tags \cup {ANY_TAG}])]
    BY <2>1, <2>4, <2>5
  <2> QED BY <2>2, <2>6 DEF LogOK
<1>9. BuffersOK(x, g) /\ RequestsOK(x, u, g)
  BY <1>1 DEF Opened, BuffersOK, RequestsOK
<1>10. QueuesOK(x, u, g)
  <2>1. ASSUME NEW kind \in Kinds, NEW q, Len(Data(q)) = 0, DOMAIN Data(q) = 1 .. Len(Data(q))
        PROVE  Queue(Data(q), Open(l.req, u, Posted(g, kind), kind, n), u)
    <3>1. Open(l.req, u, Posted(g, kind), kind, n) = {}
      BY <1>1, NoneOpen
    <3>2. DOMAIN Data(q) = {}
      BY <2>1
    <3> HIDE DEF n
    <3> QED BY <3>1, <3>2 DEF Queue, Range
  <2>2. Len(Data(AP_list_new)) = 0 /\ DOMAIN Data(AP_list_new) = 1 .. Len(Data(AP_list_new))
    BY NewListOK, DataOfList
  <2>3. /\ Queue(Data(AP_list_new), Open(l.req, u, g.sends, "send", n), u)
        /\ Queue(Data(AP_list_new), Open(l.req, u, g.recvs, "recv", n), u)
    <3> HIDE DEF n
    <3>1. "send" \in Kinds /\ "recv" \in Kinds
          /\ Posted(g, "send") = g.sends /\ Posted(g, "recv") = g.recvs
      BY DEF Kinds, Posted
    <3> QED BY <2>1, <2>2, <3>1
  <2> SUFFICES ASSUME NEW d \in DOMAIN x.comm
               PROVE  /\ Queue(Data(x.comm[d].sendlist),
                               Open(x.req, u, g.sends, "send", x.comm[d].num), u)
                      /\ Queue(Data(x.comm[d].recvlist),
                               Open(x.req, u, g.recvs, "recv", x.comm[d].num), u)
    BY DEF QueuesOK
  <2>4. x.req = l.req
    BY DEF Opened
  <2>5. CASE d = h
    <3> HIDE DEF n
    <3> QED BY <2>3, <2>4, <2>5, <1>3, <1>6
  <2>6. CASE d \in DOMAIN l.comm
    BY <2>4, <2>6, <1>1, <1>3 DEF QueuesOK
  <2> QED BY <2>5, <2>6, <1>3
<1>11. PoolOK(x, u)
  <2>1. (DOMAIN u \cup DOMAIN l.comm) \cup {h} = DOMAIN u \cup DOMAIN x.comm
    BY <1>3
  <2> QED BY <2>1 DEF PoolOK, Opened
<1>12. Kept(x, u, g)
  BY <1>1, <1>3, <1>5, <1>7, <1>8, <1>9 DEF Kept
<1> QED BY <1>1, <1>9, <1>10, <1>11, <1>12 DEF Sane, Opened

\* MPI_Comm_dup makes one or the program aborts for want of a handle.
LEMMA NewOpens ==
  ASSUME NEW l, NEW u, NEW g, Sane(l, u, g), l.initialized, ~Full(l.pool)
  PROVE  Opened(mpi_comm_new(l), l, AllocatedHandle(l.pool))
<1> DEFINE x == mpi_comm_new(l)
           h == AllocatedHandle(l.pool)
<1>1. Shape(l) /\ l.abort = "" /\ l.initialized = TRUE
  BY DEF Sane, Kept, TablesOK
<1>2. /\ Shape(x) /\ x.num = l.num + 1
      /\ x.initialized = l.initialized /\ x.abort = "" /\ x.pool = AllocHandle(l.pool)
      /\ x.comm = With(l.comm, h, NewComm(l))
      /\ x.req = l.req /\ x.mem = l.mem /\ x.items = l.items
  BY <1>1, NewCommPosts, Zenon DEF NewComm
<1> HIDE DEF x, h
<1> QED BY <1>1, <1>2 DEF Opened, x, h

LEMMA CommNewGoes ==
  ASSUME NEW l, NEW u, NEW g, Sane(l, u, g), l.initialized, l.num < MaxComms
  PROVE  \/ Sane(mpi_comm_new(l), u, g)
         \/ Kept(mpi_comm_new(l), u, g) /\ mpi_comm_new(l).abort = "handles"
<1> DEFINE x == mpi_comm_new(l)
           h == AllocatedHandle(l.pool)
<1>1. Shape(l) /\ l.abort = "" /\ l.initialized = TRUE
  BY DEF Sane, Kept, TablesOK
<1>2. CASE Full(l.pool)
  <2> DEFINE y == [l EXCEPT !.abort = "handles"]
  <2>1. Kept(y, u, g) /\ y.abort = "handles"
    BY AbortKept DEF Sane
  <2>2. y = [l EXCEPT !.abort = "handles"]
    OBVIOUS
  <2> HIDE DEF y
  <2>3. x = y
    BY <1>1, <1>2, <2>2, NoHandle
  <2> HIDE DEF x
  <2>4. Kept(x, u, g) /\ x.abort = "handles"
    BY <2>1, <2>3
  <2> QED BY <2>4 DEF x
<1>3. CASE ~Full(l.pool)
  <2>1. Opened(x, l, h)
    BY <1>3, NewOpens
  <2>2. /\ h \in AllItems \ {NULL} /\ h \notin DOMAIN u /\ h \notin DOMAIN l.comm
        /\ InUse(AllocHandle(l.pool), (DOMAIN u \cup DOMAIN l.comm) \cup {h})
    BY <1>3, NewHandle
  <2> HIDE DEF x, h
  <2>3. Sane(x, u, g)
    BY <2>1, <2>2, OpenedSane
  <2> QED BY <2>3 DEF x
<1> QED BY <1>2, <1>3

\* MPI_Init, the first time and after MPI_Finalize, makes MPI_COMM_WORLD.
LEMMA InitOpens ==
  ASSUME NEW l, NEW u, NEW g, Sane(l, u, g), ~l.initialized
  PROVE  Opened(MPI_Init(l), l, AllocatedHandle(l.pool))
<1> DEFINE y == mpi_comm_new(l)
           h == AllocatedHandle(l.pool)
           x == [y EXCEPT !.initialized = TRUE]
<1>1. Shape(l) /\ l.abort = "" /\ l.pool \in Pools /\ ~l.pool.ready
  BY DEF Sane, Kept, TablesOK, PoolOK
<1>2. ~Full(l.pool) /\ h = 1
  BY <1>1, FirstInUse
<1>3. /\ Shape(y) /\ y.num = l.num + 1
      /\ y.abort = "" /\ y.pool = AllocHandle(l.pool)
      /\ y.comm = With(l.comm, h, NewComm(l))
      /\ y.req = l.req /\ y.mem = l.mem /\ y.items = l.items
  BY <1>1, <1>2, NewCommPosts, Zenon DEF NewComm
<1>4. MPI_Init(l) = Then(y, LAMBDA z : IF h # MPI_COMM_WORLD THEN [z EXCEPT !.abort = "world"]
                                       ELSE [z EXCEPT !.initialized = TRUE])
  BY DEF MPI_Init
<1> HIDE DEF y, h
<1>5. MPI_Init(l) = x
  <2>1. ~(h # MPI_COMM_WORLD)
    BY <1>2 DEF MPI_COMM_WORLD
  <2> QED BY <1>3, <1>4, <2>1, Zenon DEF Then
<1>6. Opened(x, l, h)
  BY <1>3 DEF Opened, Shape
<1> QED BY <1>5, <1>6 DEF h

LEMMA InitGoes ==
  ASSUME NEW l, NEW u, NEW g, Sane(l, u, g), ~l.initialized, l.num < MaxComms
  PROVE  Sane(MPI_Init(l), u, g)
<1> DEFINE h == AllocatedHandle(l.pool)
           x == MPI_Init(l)
<1>1. l.pool \in Pools /\ ~l.pool.ready /\ DOMAIN u = {} /\ DOMAIN l.comm = {}
  BY DEF Sane, Kept, TablesOK, PoolOK
<1>2. h = 1 /\ InUse(AllocHandle(l.pool), {1})
  BY <1>1, FirstInUse
<1>3. Opened(x, l, h)
  BY InitOpens
<1> HIDE DEF h
<1>4. h \in AllItems \ {NULL}
  <2>1. {1} \subseteq Items(MAX_BLOCKS) \ {NULL}
    BY <1>2, InUseItems
  <2> QED BY <2>1, <1>2 DEF AllItems
<1>5. InUse(AllocHandle(l.pool), (DOMAIN u \cup DOMAIN l.comm) \cup {h})
  <2>1. (DOMAIN u \cup DOMAIN l.comm) \cup {h} = {1}
    BY <1>1, <1>2
  <2> QED BY <2>1, <1>2
<1>6. h \notin DOMAIN u /\ h \notin DOMAIN l.comm /\ h = MPI_COMM_WORLD
  BY <1>1, <1>2 DEF MPI_COMM_WORLD
<1> HIDE DEF x
<1>7. Sane(x, u, g)
  BY <1>3, <1>4, <1>5, <1>6, OpenedSane
<1> QED BY <1>7 DEF x

\* MPI_Finalize forgets the requests and communicators that are left.
LEMMA FinalizeGoes ==
  ASSUME NEW l, NEW u, NEW g, Sane(l, u, g)
  PROVE  Sane(MPI_Finalize(l), <<>>, g)
<1> DEFINE x == MPI_Finalize(l)
           v == <<>>
<1>1. /\ TablesOK(l) /\ LogOK(l, g) /\ BuffersOK(l, g) /\ l.abort = ""
  BY DEF Sane, Kept
<1>2. /\ Shape(x) /\ x.pool = DestroyHandles(l.pool) /\ x.comm = v /\ x.initialized = FALSE
      /\ x.req = [h \in AllItems |-> StaleReq]
      /\ x.num = l.num /\ x.mem = l.mem /\ x.items = l.items /\ x.abort = l.abort
  BY <1>1 DEF TablesOK, Shape, MPI_Finalize
<1>3. DOMAIN v = {} /\ v = [h \in DOMAIN v |-> v[h]]
  OBVIOUS
<1> HIDE DEF x, v
<1>4. StaleReq \in Reqs
  BY DEF StaleReq, Reqs
<1>5. x.pool \in Pools /\ ~x.pool.ready
  BY <1>1, <1>2, DestroyType DEF TablesOK
<1>6. TablesOK(x)
  BY <1>1, <1>2, <1>4, <1>5 DEF TablesOK
<1>7. CommsOK(x)
  BY <1>2, <1>3 DEF CommsOK
<1>8. LogOK(x, g)
  BY <1>1, <1>2 DEF LogOK
<1>9. BuffersOK(x, g)
  BY <1>1, <1>2 DEF BuffersOK
<1>10. HeldOK(v, g) /\ RequestsOK(x, v, g) /\ QueuesOK(x, v, g) /\ PoolOK(x, v)
  BY <1>2, <1>3, <1>5 DEF HeldOK, RequestsOK, QueuesOK, PoolOK
<1>11. Kept(x, v, g)
  BY <1>2, <1>3, <1>6, <1>7, <1>8, <1>9 DEF Kept
<1>12. Sane(x, v, g)
  BY <1>1, <1>2, <1>10, <1>11 DEF Sane
<1> QED BY <1>12 DEF x, v

\* The lists of a communicator can be freed, whatever is still in them.
LEMMA CommFreeGoes ==
  ASSUME NEW l, NEW u, NEW g, Sane(l, u, g), l.initialized,
         NEW c \in DOMAIN l.comm, c # MPI_COMM_WORLD
  PROVE  Sane(MPI_Comm_free(l, c), u, g)
<1> DEFINE x == MPI_Comm_free(l, c)
           y == mpi_free_handle(l, c)
<1>1. /\ TablesOK(l) /\ CommsOK(l) /\ LogOK(l, g) /\ BuffersOK(l, g) /\ HeldOK(u, g)
      /\ RequestsOK(l, u, g) /\ QueuesOK(l, u, g) /\ PoolOK(l, u) /\ l.abort = ""
      /\ DOMAIN u \subseteq AllItems \ {NULL} /\ DOMAIN u \cap DOMAIN l.comm = {}
  BY DEF Sane, Kept
<1>2. /\ Shape(y) /\ y.pool = FreeHandle(l.pool, c)
      /\ y.req = [l.req EXCEPT ![c] = StaleReq]
      /\ y.comm = l.comm /\ y.mem = l.mem /\ y.items = l.items /\ y.num = l.num
      /\ y.initialized = l.initialized /\ y.abort = l.abort
  BY <1>1, FreeEffect DEF TablesOK
<1>3. Freeable(l.comm[c].sendlist) /\ Freeable(l.comm[c].recvlist)
  <2>1. ListOK(l.comm[c].sendlist) /\ ListOK(l.comm[c].recvlist)
    BY <1>1 DEF CommsOK
  <2> QED BY <2>1 DEF ListOK, IsList, Freeable
<1>4. x = [y EXCEPT !.comm = Without(@, c)]
  BY <1>3 DEF MPI_Comm_free
<1> HIDE DEF x, y
<1>5. /\ Shape(x) /\ x.pool = y.pool /\ x.req = y.req /\ x.comm = Without(l.comm, c)
      /\ x.mem = l.mem /\ x.items = l.items /\ x.num = l.num
      /\ x.initialized = l.initialized /\ x.abort = l.abort
  BY <1>2, <1>4 DEF Shape
<1>6. /\ DOMAIN x.comm = DOMAIN l.comm \ {c}
      /\ \A d \in DOMAIN x.comm : x.comm[d] = l.comm[d]
  BY <1>5 DEF Without
<1>7. c \in AllItems
  BY <1>1 DEF CommsOK
<1>8. /\ x.req \in [AllItems -> Reqs] /\ \A j \in DOMAIN u : x.req[j] = l.req[j]
  <2>1. StaleReq \in Reqs
    BY DEF StaleReq, Reqs
  <2>2. \A j \in DOMAIN u : j \in AllItems /\ j # c
    BY <1>1
  <2>3. l.req \in [AllItems -> Reqs] /\ x.req = [l.req EXCEPT ![c] = StaleReq]
    BY <1>1, <1>2, <1>5 DEF TablesOK
  <2>4. x.req \in [AllItems -> Reqs]
    BY <2>1, <2>3, <1>7
  <2>5. \A j \in AllItems : j # c => x.req[j] = l.req[j]
    BY <2>3, <1>7
  <2> QED BY <2>2, <2>4, <2>5
<1>9. InUse(x.pool, DOMAIN u \cup DOMAIN x.comm) /\ x.pool \in Pools
  <2> DEFINE hd == DOMAIN u \cup DOMAIN l.comm
  <2>1. InUse(l.pool, hd) /\ c \in hd
    BY <1>1 DEF PoolOK
  <2>2. hd \ {c} = DOMAIN u \cup DOMAIN x.comm
    BY <1>1, <1>6
  <2> HIDE DEF hd
  <2>3. InUse(x.pool, hd \ {c})
    BY <2>1, <1>2, <1>5, FreeInUse
  <2>4. x.pool \in Pools
    BY <2>3, InUseItems
  <2> QED BY <2>2, <2>3, <2>4
<1>10. TablesOK(x)
  BY <1>1, <1>5, <1>8, <1>9 DEF TablesOK
<1>11. CommsOK(x)
  <2>1. DOMAIN x.comm \subseteq DOMAIN l.comm /\ x.num = l.num /\ x.initialized = l.initialized
    BY <1>5, <1>6
  <2>2. DOMAIN x.comm \subseteq AllItems \ {NULL} /\ MPI_COMM_WORLD \in DOMAIN x.comm
    BY <1>1, <1>6 DEF CommsOK
  <2>3. \A d \in DOMAIN x.comm : /\ CommShape(x.comm[d])
                                 /\ ListOK(x.comm[d].sendlist) /\ ListOK(x.comm[d].recvlist)
                                 /\ x.comm[d].num \in 0 .. x.num - 1
    <3>1. \A d \in DOMAIN l.comm : /\ CommShape(l.comm[d])
                                   /\ ListOK(l.comm[d].sendlist) /\ ListOK(l.comm[d].recvlist)
                                   /\ l.comm[d].num \in 0 .. l.num - 1
      BY <1>1 DEF CommsOK
    <3> QED BY <3>1, <2>1, <1>6
  <2>4. \A d, f \in DOMAIN x.comm : x.comm[d].num = x.comm[f].num => d = f
    <3>1. \A d, f \in DOMAIN l.comm : l.comm[d].num = l.comm[f].num => d = f
      BY <1>1 DEF CommsOK
    <3> QED BY <3>1, <2>1, <1>6
  <2> QED BY <2>2, <2>3, <2>4 DEF CommsOK
<1>12. LogOK(x, g)
  BY <1>1, <1>5 DEF LogOK
<1>13. BuffersOK(x, g)
  BY <1>1, <1>5 DEF BuffersOK
<1>14. RequestsOK(x, u, g)
  BY <1>1, <1>5, <1>8 DEF RequestsOK
<1>15. QueuesOK(x, u, g)
  <2>1. ASSUME NEW posted, NEW kind, NEW num
        PROVE  Open(x.req, u, posted, kind, num) = Open(l.req, u, posted, kind, num)
    BY <1>8 DEF Open
  <2> SUFFICES ASSUME NEW d \in DOMAIN x.comm
               PROVE  /\ Queue(Data(x.comm[d].sendlist),
                               Open(l.req, u, g.sends, "send", x.comm[d].num), u)
                      /\ Queue(Data(x.comm[d].recvlist),
                               Open(l.req, u, g.recvs, "recv", x.comm[d].num), u)
    BY <2>1 DEF QueuesOK
  <2>2. d \in DOMAIN l.comm /\ x.comm[d] = l.comm[d]
    BY <1>6
  <2> QED BY <2>2, <1>1 DEF QueuesOK
<1>16. PoolOK(x, u)
  BY <1>5, <1>9 DEF PoolOK
<1>17. Kept(x, u, g)
  BY <1>1, <1>6, <1>10, <1>11, <1>12, <1>13 DEF Kept
<1>18. Sane(x, u, g)
  BY <1>1, <1>5, <1>14, <1>15, <1>16, <1>17 DEF Sane
<1> QED BY <1>18 DEF x

-----------------------------------------------------------------------------
(* Initially and in every step.                                            *)

LEMMA InitInv == Init => MessagesInv
<1> SUFFICES ASSUME Init PROVE MessagesInv
  OBVIOUS
<1> DEFINE u == <<>>
           g == [sends |-> <<>>, recvs |-> <<>>]
<1>1. DOMAIN u = {} /\ u = [h \in DOMAIN u |-> u[h]]
  OBVIOUS
<1>2. /\ Shape(lib) /\ lib.pool = UninitPool /\ lib.comm = u
      /\ lib.req = [h \in AllItems |-> StaleReq] /\ lib.num = 0 /\ lib.initialized = FALSE
      /\ lib.mem = [r \in 1 .. MaxPosts |-> 0] /\ lib.items = [r \in 1 .. MaxPosts |-> 0]
      /\ lib.abort = "" /\ user = u /\ log = g
  BY DEF Init, Shape
<1> HIDE DEF u
<1>3. UninitPool \in Pools /\ ~UninitPool.ready
  <2>1. Items(0) = {} /\ 0 \in 0 .. MAX_BLOCKS
    BY PoolAssumption DEF Items, Handle
  <2>2. NULL \in Items(MAX_BLOCKS)
    <3> DEFINE p == Handle(MAX_BLOCKS, 0)
    <3>1. p \in Nat /\ p > 0
      BY PoolAssumption DEF Handle
    <3>2. Items(MAX_BLOCKS) = 0 .. p - 1
      BY DEF Items
    <3> HIDE DEF p
    <3>3. 0 \in 0 .. p - 1
      BY <3>1
    <3> QED BY <3>2, <3>3 DEF NULL
  <2>3. u \in [Items(0) -> Items(0)]
    BY <1>1, <2>1
  <2>4. u \in UNION {[Items(n) -> Items(n)] : n \in 0 .. MAX_BLOCKS}
    BY <2>1, <2>3
  <2>5. UninitPool = [ready |-> FALSE, nblocks |-> 0, next |-> u, nextfree |-> NULL]
    BY DEF UninitPool, u
  <2> QED BY <2>1, <2>2, <2>4, <2>5 DEF Pools
<1>4. StaleReq \in Reqs
  BY DEF StaleReq, Reqs
<1>5. TablesOK(lib)
  <2>1. 0 \in 0 .. MaxPosts /\ 0 \in 0 .. SendCount + 1 /\ 0 \in 0 .. MaxComms
    BY MessagesAssumption
  <2>2. /\ lib.mem \in [1 .. MaxPosts -> 0 .. MaxPosts]
        /\ lib.items \in [1 .. MaxPosts -> 0 .. SendCount + 1]
    BY <1>2, <2>1
  <2>3. lib.req \in [AllItems -> Reqs] /\ lib.pool \in Pools
    BY <1>2, <1>3, <1>4
  <2> QED BY <1>2, <2>1, <2>2, <2>3 DEF TablesOK
<1>6. LogOK(lib, g) /\ BuffersOK(lib, g)
  <2>1. LogOK(lib, g)
    <3>1. Len(g.sends) + Len(g.recvs) <= MaxPosts
      BY MessagesAssumption
    <3>2. /\ g.sends \in Seq([comm : 0 .. lib.num - 1, tag : Tags])
          /\ g.recvs \in Seq([comm : 0 .. lib.num - 1, tag : Tags \cup {ANY_TAG}])
      OBVIOUS
    <3>3. g = [sends |-> g.sends, recvs |-> g.recvs]
      OBVIOUS
    <3> HIDE DEF g
    <3> QED BY <3>1, <3>2, <3>3 DEF LogOK
  <2>2. BuffersOK(lib, g)
    BY <1>2 DEF BuffersOK
  <2> QED BY <2>1, <2>2
<1>7. CommsOK(lib)
  BY <1>1, <1>2 DEF CommsOK
<1>8. HeldOK(u, g) /\ RequestsOK(lib, u, g) /\ QueuesOK(lib, u, g) /\ PoolOK(lib, u)
  BY <1>1, <1>2, <1>3 DEF HeldOK, RequestsOK, QueuesOK, PoolOK
<1> HIDE DEF g
<1>9. Kept(lib, u, g)
  BY <1>1, <1>2, <1>5, <1>6, <1>7 DEF Kept
<1>10. Sane(lib, u, g)
  BY <1>2, <1>8, <1>9 DEF Sane
<1> QED BY <1>2, <1>9, <1>10 DEF MessagesInv

\* A call that gets no handle changes nothing else.
LEMMA HandlesInv ==
  ASSUME Kept(lib, user, log), lib' = [lib EXCEPT !.abort = "handles"],
         user' = user, log' = log
  PROVE  MessagesInv'
<1> DEFINE x == [lib EXCEPT !.abort = "handles"]
<1>1. Kept(x, user, log) /\ x.abort = "handles"
  BY AbortKept
<1>2. lib' = x
  OBVIOUS
<1> HIDE DEF x
<1>3. Kept(lib', user', log') /\ lib'.abort # ""
  BY <1>1, <1>2
<1> QED BY <1>3 DEF MessagesInv

LEMMA SaneInv ==
  ASSUME Sane(lib', user', log')
  PROVE  MessagesInv'
BY DEF MessagesInv, Sane

LEMMA GoesInv ==
  ASSUME NEW VARIABLE v, Goes(lib', user, v, log'), user' = IF lib'.abort = "" THEN v ELSE user
  PROVE  MessagesInv' /\ lib'.abort # "handles"
<1>1. CASE Sane(lib', v, log')
  <2>1. lib'.abort = ""
    BY <1>1 DEF Sane
  <2>2. Sane(lib', user', log')
    BY <1>1, <2>1
  <2> QED BY <2>1, <2>2, SaneInv
<1>2. CASE Kept(lib', user, log') /\ lib'.abort \in {"deadlock", "not ready"}
  <2>1. Kept(lib', user', log') /\ lib'.abort # ""
    BY <1>2
  <2> QED BY <1>2, <2>1 DEF MessagesInv
<1> QED BY <1>1, <1>2 DEF Goes

\* A nonblocking post of which k is the new log.
LEMMA OutcomeInv ==
  ASSUME Kept(lib, user, log), NEW CONSTANT kind, NEW id, NEW k,
         Outcome(lib', lib, user, log, kind, id, k), Holds(kind, id),
         log' = IF lib'.abort = "handles" THEN log ELSE k
  PROVE  MessagesInv'
<1> DEFINE h == AllocatedHandle(lib.pool)
           v == With(user, h, [kind |-> kind, id |-> id])
<1>1. CASE Full(lib.pool)
  <2>1. lib' = [lib EXCEPT !.abort = "handles"]
    BY <1>1 DEF Outcome
  <2>2. [lib EXCEPT !.abort = "handles"].abort = "handles"
    BY AbortKept
  <2> QED BY <2>1, <2>2, HandlesInv DEF Holds
<1>2. CASE ~Full(lib.pool)
  <2>1. Sane(lib', v, k)
    BY <1>2 DEF Outcome
  <2>2. user' = IF lib'.abort = "" THEN v ELSE user
    BY DEF Holds
  <2> HIDE DEF v
  <2>3. lib'.abort = ""
    BY <2>1 DEF Sane
  <2>4. Sane(lib', user', log')
    BY <2>1, <2>2, <2>3
  <2> QED BY <2>4, SaneInv
<1> QED BY <1>1, <1>2

\* What the log says of a post.
LEMMA LogsPosts ==
  ASSUME NEW c, NEW tag
  PROVE  /\ LogSend(c, tag)
              => log' = IF lib'.abort = "handles" THEN log ELSE Sent(lib, log, c, tag)
         /\ LogRecv(c, tag)
              => log' = IF lib'.abort = "handles" THEN log ELSE Asked(lib, log, c, tag)
BY DEF LogSend, LogRecv, Envelope, Sent, Asked

\* A call that gets no handle or goes on, of which k is the new log.
LEMMA EndsInv ==
  ASSUME Kept(lib, user, log), NEW v, NEW k,
         Ends(lib', lib, user, v, k),
         user' = IF lib'.abort = "" THEN v ELSE user,
         log' = IF lib'.abort = "handles" THEN log ELSE k
  PROVE  MessagesInv'
<1>1. CASE Full(lib.pool)
  <2>1. [lib EXCEPT !.abort = "handles"].abort = "handles"
    BY AbortKept
  <2>2. lib' = [lib EXCEPT !.abort = "handles"]
    BY <1>1 DEF Ends
  <2>3. lib'.abort = "handles"
    BY <2>1, <2>2
  <2> QED BY <2>2, <2>3, HandlesInv
<1>2. CASE ~Full(lib.pool)
  <2>1. Goes(lib', user, v, k)
    BY <1>2 DEF Ends
  <2>2. lib'.abort # "handles"
    BY <2>1 DEF Goes, Sane
  <2>3. Goes(lib', user, v, log')
    BY <2>1, <2>2
  <2> QED BY <2>3, GoesInv
<1> QED BY <1>1, <1>2

\* The posts of two requests of MPI_PROC_NULL and of a message.
LEMMA NullInv ==
  ASSUME Sane(lib, user, log), lib.initialized, SendNull \/ RecvNull
  PROVE  MessagesInv'
<1>1. Kept(lib, user, log) /\ log' = IF lib'.abort = "handles" THEN log ELSE log
  BY DEF Sane, SendNull, RecvNull
<1>2. CASE SendNull
  <2>1. Outcome(lib', lib, user, log, "send", 0, log) /\ Holds("send", 0)
    BY <1>2, NullOutcome DEF SendNull
  <2> QED BY <1>1, <2>1, OutcomeInv
<1>3. CASE RecvNull
  <2>1. Outcome(lib', lib, user, log, "recv", 0, log) /\ Holds("recv", 0)
    BY <1>3, NullOutcome DEF RecvNull
  <2> QED BY <1>1, <2>1, OutcomeInv
<1> QED BY <1>2, <1>3

LEMMA SendInv ==
  ASSUME Sane(lib, user, log), lib.initialized, NEW c \in DOMAIN lib.comm, NEW tag \in Tags,
         CanPost(1), Isend(c, tag) \/ Irsend(c, tag) \/ Send(c, tag)
  PROVE  MessagesInv'
<1> DEFINE m == NextMessage
           h == AllocatedHandle(lib.pool)
           v == With(user, h, [kind |-> "send", id |-> m])
           k == Sent(lib, log, c, tag)
<1>1. /\ Kept(lib, user, log) /\ m = Len(log.sends) + 1
      /\ Len(log.sends) + Len(log.recvs) + 1 <= MaxPosts
  BY DEF Sane, CanPost, NextMessage
<1>2. log' = IF lib'.abort = "handles" THEN log ELSE k
  BY LogsPosts DEF Isend, Irsend, Send
<1> HIDE DEF m, k
<1>3. CASE Isend(c, tag)
  <2>1. lib' = MPI_Isend(lib, c, m, tag) /\ Holds("send", m)
    BY <1>3 DEF Isend, m
  <2>2. Outcome(MPI_Isend(lib, c, m, tag), lib, user, log, "send", m, k)
    BY <1>1, IsendOutcome DEF k
  <2> QED BY <1>1, <1>2, <2>1, <2>2, OutcomeInv
<1>4. CASE Irsend(c, tag)
  <2>1. lib' = MPI_Irsend(lib, c, m, tag) /\ Holds("send", m)
    BY <1>4 DEF Irsend, m
  <2>2. Ends(MPI_Irsend(lib, c, m, tag), lib, user, v, k)
    BY <1>1, IrsendGoes DEF k
  <2>3. user' = IF lib'.abort = "" THEN v ELSE user
    BY <2>1 DEF Holds
  <2> HIDE DEF v
  <2> QED BY <1>1, <1>2, <2>1, <2>2, <2>3, EndsInv
<1>5. CASE Send(c, tag)
  <2>1. lib' = MPI_Send(lib, c, m, tag) /\ user' = user
    BY <1>5 DEF Send, m
  <2>2. Ends(MPI_Send(lib, c, m, tag), lib, user, user, k)
    BY <1>1, SendGoes DEF k
  <2> QED BY <1>1, <1>2, <2>1, <2>2, EndsInv
<1> QED BY <1>3, <1>4, <1>5

LEMMA RecvInv ==
  ASSUME Sane(lib, user, log), lib.initialized, NEW c \in DOMAIN lib.comm,
         NEW tag \in Tags \cup {ANY_TAG}, CanPost(1), Irecv(c, tag) \/ Recv(c, tag)
  PROVE  MessagesInv'
<1> DEFINE b == NextBuffer
           k == Asked(lib, log, c, tag)
<1>1. /\ Kept(lib, user, log) /\ b = Len(log.recvs) + 1
      /\ Len(log.sends) + Len(log.recvs) + 1 <= MaxPosts
  BY DEF Sane, CanPost, NextBuffer
<1>2. log' = IF lib'.abort = "handles" THEN log ELSE k
  BY LogsPosts DEF Irecv, Recv
<1> HIDE DEF b, k
<1>3. CASE Irecv(c, tag)
  <2>1. lib' = MPI_Irecv(lib, c, b, tag) /\ Holds("recv", b)
    BY <1>3 DEF Irecv, b
  <2>2. Outcome(MPI_Irecv(lib, c, b, tag), lib, user, log, "recv", b, k)
    BY <1>1, IrecvOutcome DEF k
  <2> QED BY <1>1, <1>2, <2>1, <2>2, OutcomeInv
<1>4. CASE Recv(c, tag)
  <2>1. lib' = MPI_Recv(lib, c, b, tag) /\ user' = user
    BY <1>4 DEF Recv, b
  <2>2. Ends(MPI_Recv(lib, c, b, tag), lib, user, user, k)
    BY <1>1, RecvGoes DEF k
  <2> QED BY <1>1, <1>2, <2>1, <2>2, EndsInv
<1> QED BY <1>3, <1>4

LEMMA SendrecvInv ==
  ASSUME Sane(lib, user, log), lib.initialized, NEW c \in DOMAIN lib.comm,
         NEW tag \in Tags, NEW recvtag \in Tags \cup {ANY_TAG}, CanPost(2),
         Sendrecv(c, tag, recvtag)
  PROVE  MessagesInv'
<1> DEFINE m == NextMessage
           b == NextBuffer
           k == Asked(lib, log, c, recvtag)
           k2 == Sent(lib, k, c, tag)
           x == [lib EXCEPT !.abort = "handles"]
<1>1. /\ Kept(lib, user, log) /\ m = Len(log.sends) + 1 /\ b = Len(log.recvs) + 1
      /\ Len(log.sends) + Len(log.recvs) + 2 <= MaxPosts
  BY DEF Sane, CanPost, NextMessage, NextBuffer
<1>2. /\ lib' = MPI_Sendrecv(lib, c, m, tag, b, recvtag) /\ user' = user
      /\ log' = IF Full(lib.pool) THEN log ELSE IF lib'.abort = "handles" THEN k ELSE k2
  BY DEF Sendrecv, Envelope, Asked, Sent
<1> HIDE DEF m, b
<1>3. IF Full(lib.pool) THEN lib' = x
      ELSE \/ Kept(lib', user, k) /\ lib'.abort = "handles"
           \/ Goes(lib', user, user, k2)
  <2>1. EndsTwice(lib', lib, user, k, k2)
    BY <1>1, <1>2, SendrecvGoes
  <2> QED BY <2>1 DEF EndsTwice
<1> HIDE DEF k, k2
<1>4. CASE Full(lib.pool)
  BY <1>1, <1>2, <1>3, <1>4, HandlesInv
<1>5. CASE ~Full(lib.pool) /\ Kept(lib', user, k) /\ lib'.abort = "handles"
  BY <1>2, <1>5 DEF MessagesInv
<1>6. CASE ~Full(lib.pool) /\ Goes(lib', user, user, k2)
  <2>1. lib'.abort # "handles"
    BY <1>6 DEF Goes, Sane
  <2>2. Goes(lib', user, user, log')
    BY <1>2, <1>6, <2>1
  <2>3. user' = IF lib'.abort = "" THEN user ELSE user
    BY <1>2
  <2> QED BY <2>2, <2>3, GoesInv
<1> QED BY <1>3, <1>4, <1>5, <1>6

LEMMA FinishInv ==
  ASSUME Sane(lib, user, log), Finish
  PROVE  MessagesInv'
<1>1. lib.initialized /\ log' = log
  BY DEF Finish, Running
<1>2. CASE \E h \in DOMAIN user : Test(h)
  <2>1. PICK h \in DOMAIN user : Test(h)
    BY <1>2
  <2> DEFINE v == IF Flag(lib, h) THEN Without(user, h) ELSE user
  <2>2. Sane(MPI_Test(lib, h), v, log)
    BY <1>1, TestGoes
  <2>3. lib' = MPI_Test(lib, h) /\ user' = v
    BY <2>1 DEF Test
  <2> HIDE DEF v
  <2>4. Sane(lib', user', log')
    BY <1>1, <2>2, <2>3
  <2> QED BY <2>4, SaneInv
<1>3. CASE \E h \in DOMAIN user : Wait(h)
  <2>1. PICK h \in DOMAIN user : Wait(h)
    BY <1>3
  <2> DEFINE v == Without(user, h)
  <2>2. Goes(MPI_Wait(lib, h), user, v, log)
    BY <1>1, WaitGoes
  <2>3. lib' = MPI_Wait(lib, h) /\ user' = IF lib'.abort = "" THEN v ELSE user
    BY <2>1 DEF Wait
  <2> HIDE DEF v
  <2>4. Goes(lib', user, v, log')
    BY <1>1, <2>2, <2>3
  <2> QED BY <2>3, <2>4, GoesInv
<1>4. CASE \E hs \in Arrays : Waitall(hs)
  <2>1. PICK hs \in Arrays : Waitall(hs)
    BY <1>4
  <2>2. hs \in [{1, 2} -> DOMAIN user \cup {MPI_REQUEST_NULL}] /\ hs[1] # hs[2]
    BY DEF Arrays
  <2> DEFINE v == LeftOf(user, Range(hs))
  <2>3. Goes(MPI_Waitall(lib, hs), user, v, log)
    BY <1>1, <2>2, WaitallGoes
  <2>4. lib' = MPI_Waitall(lib, hs) /\ user' = IF lib'.abort = "" THEN v ELSE user
    BY <2>1 DEF Waitall, LeftOf
  <2> HIDE DEF v
  <2>5. Goes(lib', user, v, log')
    BY <1>1, <2>3, <2>4
  <2> QED BY <2>4, <2>5, GoesInv
<1>5. CASE \E hs \in Arrays : Waitany(hs)
  <2>1. PICK hs \in Arrays : Waitany(hs)
    BY <1>5
  <2>2. hs \in [{1, 2} -> DOMAIN user \cup {MPI_REQUEST_NULL}]
    BY DEF Arrays
  <2> DEFINE v == Without(user, hs[FirstComplete(lib, hs)])
  <2>3. Goes(MPI_Waitany(lib, hs), user, v, log)
    BY <1>1, <2>2, WaitanyGoes
  <2>4. lib' = MPI_Waitany(lib, hs) /\ user' = IF lib'.abort = "" THEN v ELSE user
    BY <2>1 DEF Waitany
  <2> HIDE DEF v
  <2>5. Goes(lib', user, v, log')
    BY <1>1, <2>3, <2>4
  <2> QED BY <2>4, <2>5, GoesInv
<1> QED BY <1>2, <1>3, <1>4, <1>5 DEF Finish

LEMMA PostInv ==
  ASSUME Sane(lib, user, log), Post
  PROVE  MessagesInv'
<1>1. lib.initialized
  BY DEF Post, Running
<1>2. CASE SendNull \/ RecvNull
  BY <1>1, <1>2, NullInv
<1>3. ASSUME NEW c \in DOMAIN lib.comm, NEW tag \in Tags, NEW recvtag \in Tags \cup {ANY_TAG},
             CanPost(2), Sendrecv(c, tag, recvtag)
      PROVE  MessagesInv'
  BY <1>1, <1>3, SendrecvInv
<1>4. ASSUME NEW c \in DOMAIN lib.comm, NEW tag \in Tags, CanPost(1),
             Isend(c, tag) \/ Irsend(c, tag) \/ Send(c, tag)
      PROVE  MessagesInv'
  BY <1>1, <1>4, SendInv
<1>5. ASSUME NEW c \in DOMAIN lib.comm, NEW tag \in Tags \cup {ANY_TAG}, CanPost(1),
             Irecv(c, tag) \/ Recv(c, tag)
      PROVE  MessagesInv'
  BY <1>1, <1>5, RecvInv
<1> QED BY <1>2, <1>3, <1>4, <1>5 DEF Post

LEMMA CommInv ==
  ASSUME Sane(lib, user, log), CommDup
  PROVE  MessagesInv'
<1>1. /\ lib.initialized /\ lib.num < MaxComms
      /\ lib' = mpi_comm_new(lib) /\ user' = user /\ log' = log
  BY DEF CommDup, Running
<1>2. \/ Sane(mpi_comm_new(lib), user, log)
      \/ Kept(mpi_comm_new(lib), user, log) /\ mpi_comm_new(lib).abort = "handles"
  BY <1>1, CommNewGoes
<1>3. \/ Sane(lib', user', log')
      \/ Kept(lib', user', log') /\ lib'.abort = "handles"
  BY <1>1, <1>2
<1> QED BY <1>3, SaneInv DEF MessagesInv

\* No step leaves the invariant; after an abort there is none.
LEMMA NextInv == MessagesInv /\ [Next]_vars => MessagesInv'
<1> SUFFICES ASSUME MessagesInv, [Next]_vars PROVE MessagesInv'
  OBVIOUS
<1>1. CASE UNCHANGED vars
  BY <1>1 DEF vars, MessagesInv
<1>2. lib.abort = "" => Sane(lib, user, log)
  BY DEF MessagesInv
<1>3. CASE InitLib
  <2>1. Sane(lib, user, log) /\ ~lib.initialized /\ lib.num < MaxComms
    BY <1>2, <1>3 DEF InitLib
  <2>2. Sane(MPI_Init(lib), user, log)
    BY <2>1, InitGoes
  <2>3. Sane(lib', user', log')
    BY <1>3, <2>2 DEF InitLib
  <2> QED BY <2>3, SaneInv
<1>4. CASE Finalize
  <2>1. Sane(lib, user, log)
    BY <1>2, <1>4 DEF Finalize, Running
  <2>2. Sane(MPI_Finalize(lib), <<>>, log)
    BY <2>1, FinalizeGoes
  <2>3. Sane(lib', user', log')
    BY <1>4, <2>2 DEF Finalize
  <2> QED BY <2>3, SaneInv
<1>5. CASE CommDup
  BY <1>2, <1>5, CommInv DEF CommDup, Running
<1>6. CASE \E group \in {MPI_GROUP_NULL, MPI_GROUP_EMPTY, MPI_GROUP_ONE} :
             Running /\ CommCreate(group)
  BY <1>1, <1>5, <1>6 DEF CommCreate
<1>7. CASE \E color \in {MPI_UNDEFINED, 0} : Running /\ CommSplit(color)
  BY <1>1, <1>5, <1>7 DEF CommSplit
<1>8. CASE \E c \in DOMAIN lib.comm : CommFree(c)
  <2>1. PICK c \in DOMAIN lib.comm : CommFree(c)
    BY <1>8
  <2>2. /\ Sane(lib, user, log) /\ lib.initialized /\ c # MPI_COMM_WORLD
        /\ lib' = MPI_Comm_free(lib, c) /\ user' = user /\ log' = log
    BY <1>2, <2>1 DEF CommFree, Running
  <2>3. Sane(MPI_Comm_free(lib, c), user, log)
    BY <2>2, CommFreeGoes
  <2>4. Sane(lib', user', log')
    BY <2>2, <2>3
  <2> QED BY <2>4, SaneInv
<1>9. CASE Post
  BY <1>2, <1>9, PostInv DEF Post, Running
<1>10. CASE Finish
  BY <1>2, <1>10, FinishInv DEF Finish, Running
<1> QED BY <1>1, <1>3, <1>4, <1>5, <1>6, <1>7, <1>8, <1>9, <1>10 DEF Next

\* The calls of the library (send.c, recv.c, req.c, comm.c) keep MessagesInv,
\* in any order and also when one of them aborts.
THEOREM Invariant == Spec => []MessagesInv
<1>1. Init => MessagesInv
  BY InitInv
<1>2. MessagesInv /\ [Next]_vars => MessagesInv'
  BY NextInv
<1> QED BY <1>1, <1>2, PTL DEF Spec

-----------------------------------------------------------------------------
(* What the invariant says to the program.                                 *)

\* Following the free list from its head gives the free items.
LEMMA FreeSeqOfPool ==
  ASSUME NEW p, NEW fr, NEW hd, Sound(p, fr, hd)
  PROVE  Reached(p.nextfree, p.next) = fr
<1> DEFINE n == Handle(p.nblocks, 0)
           k == Len(fr)
           D == DOMAIN p.next
           f == [i \in 1 .. k |-> fr[i]]
<1>1. /\ p.nblocks \in Nat /\ p.next \in [Items(p.nblocks) -> Items(p.nblocks)]
      /\ fr \in Seq(Usable(p)) /\ Chained(p, fr)
  BY PoolAssumption DEF Sound, ShapeOK, Pools
<1>2. n \in Nat
  BY <1>1, PoolAssumption DEF Handle
<1>3. D = 0 .. n - 1
  BY <1>1 DEF Items
<1>4. Usable(p) \subseteq Nat \ {NoItem} /\ Usable(p) \subseteq D
  <2>1. Usable(p) = (0 .. n - 1) \ {0}
    BY DEF Usable, Items, NULL
  <2> HIDE DEF n, D
  <2> QED BY <2>1, <1>2, <1>3 DEF NoItem
<1>5. fr \in Seq(Nat) /\ k \in Nat
  BY <1>1, <1>4, LargerSeq
<1>6. \A i \in 1 .. k : fr[i] \in Usable(p)
  BY <1>1
<1>7. /\ p.nextfree = IF fr = <<>> THEN NULL ELSE fr[1]
      /\ \A i \in 1 .. k : p.next[fr[i]] = IF i = k THEN NULL ELSE fr[i + 1]
      /\ \A i, j \in 1 .. k : fr[i] = fr[j] => i = j
  BY <1>1 DEF Chained
<1>8. fr = <<>> <=> k = 0
  BY <1>5
<1> HIDE DEF k, D, n
<1>9. IsFiniteSet(D) /\ Cardinality(D) \in Nat
  <2>1. IsFiniteSet(D)
    BY <1>2, <1>3, FS_Interval
  <2> QED BY <2>1, FS_CardinalityType
<1>10. k <= Cardinality(D)
  <2>1. f \in [1 .. k -> D] /\ \A i \in 1 .. k : f[i] = fr[i]
    BY <1>4, <1>6
  <2>2. DOMAIN f = 1 .. k
    OBVIOUS
  <2> HIDE DEF f
  <2>3. f \in Injection(1 .. k, D)
    BY <2>1, <2>2, <1>7 DEF Injection, IsInjective
  <2>4. Cardinality(1 .. k) <= Cardinality(D)
    BY <2>3, <1>9, FS_Injection DEF ExistsInjection
  <2> QED BY <2>4, <1>5, FS_Interval
<1>11. Follows(p.nextfree, p.next, fr)
  BY <1>4, <1>6, <1>7, <1>8, <1>9, <1>10 DEF Follows, NULL, NoItem, k, D
<1> QED BY <1>5, <1>11, FollowsReached

\* Each table has its type at all times.
THEOREM TypeCorrectMessages == Spec => []TypeOK
<1>1. MessagesInv => TypeOK
  <2> SUFFICES ASSUME Kept(lib, user, log) PROVE TypeOK
    BY DEF MessagesInv
  <2>1. TablesOK(lib) /\ CommsOK(lib) /\ DOMAIN user \subseteq AllItems \ {NULL}
        /\ DOMAIN user \cap DOMAIN lib.comm = {}
    BY DEF Kept
  <2>2. DOMAIN lib.comm \subseteq AllItems \ {NULL}
    BY <2>1 DEF CommsOK
  <2> QED BY <2>1, <2>2 DEF TablesOK, TypeOK
<1> QED BY <1>1, Invariant, PTL

\* AP_list_free never finds another number of items than were counted, and
\* every list reads the same in both directions (list.c).
THEOREM ListsAreSound == Spec => []ListsSound
<1>1. MessagesInv => ListsSound
  BY DEF MessagesInv, Kept, CommsOK, ListOK, ListsSound
<1> QED BY <1>1, Invariant, PTL

\* The two lists of a communicator hold what was posted on it and is not
\* complete, in the order it was posted (send.c, recv.c).
THEOREM PendingAreListed == Spec => []PendingListed
<1>1. MessagesInv => PendingListed
  <2> SUFFICES ASSUME Sane(lib, user, log), NEW c \in DOMAIN lib.comm
               PROVE  /\ Queue(Data(lib.comm[c].sendlist),
                               Open(lib.req, user, log.sends, "send", lib.comm[c].num), user)
                      /\ Queue(Data(lib.comm[c].recvlist),
                               Open(lib.req, user, log.recvs, "recv", lib.comm[c].num), user)
    BY DEF MessagesInv, PendingListed, Queue, Open
  <2> QED BY DEF Sane, QueuesOK
<1> QED BY <1>1, Invariant, PTL

\* A request says complete exactly when its message has moved (send.c, recv.c).
THEOREM CompletionIsTruthful == Spec => []CompletionTruthful
<1>1. MessagesInv => CompletionTruthful
  <2> SUFFICES ASSUME Sane(lib, user, log), NEW h \in DOMAIN user
               PROVE  lib.req[h].complete
                        = IF user[h].id = 0 \/ Moved(lib.mem, user[h]) THEN 1 ELSE 0
    BY DEF MessagesInv, CompletionTruthful, Moved
  <2> QED BY DEF Sane, RequestsOK, RequestOK
<1> QED BY <1>1, Invariant, PTL

\* A receive buffer has all items of its message, at most those asked for.
THEOREM MessagesAreWhole == Spec => []WholeMessage
<1>1. MessagesInv => WholeMessage
  <2> SUFFICES ASSUME Kept(lib, user, log) PROVE WholeMessage
    BY DEF MessagesInv
  <2>1. DOMAIN lib.mem = 1 .. MaxPosts /\ BuffersOK(lib, log)
    BY DEF Kept, TablesOK
  <2> QED BY <2>1 DEF BuffersOK, WholeMessage
<1> QED BY <1>1, Invariant, PTL

\* A test or wait reports the source and tag of the message that was received.
THEOREM StatusIsTruthful == Spec => []StatusTruthful
<1>1. MessagesInv => StatusTruthful
  <2> SUFFICES ASSUME Sane(lib, user, log), NEW h \in DOMAIN user, user[h].kind = "recv"
               PROVE  LET id == user[h].id
                          m == lib.mem[id]
                      IN  /\ id = 0 => lib.req[h].source = PROC_NULL /\ lib.req[h].tag = ANY_TAG
                          /\ id # 0 /\ m # 0 => lib.req[h].source = 0
                                                /\ lib.req[h].tag = log.sends[m].tag
    BY DEF MessagesInv, StatusTruthful
  <2> QED BY DEF Sane, RequestsOK, RequestOK
<1> QED BY <1>1, Invariant, PTL

\* No order of the calls loses an item of the pool or gives one out twice
\* (handles.c): the items are free, a communicator or a held request.
THEOREM HandlesAreAccounted == Spec => []HandlesAccounted
<1>1. MessagesInv => HandlesAccounted
  <2> SUFFICES ASSUME Sane(lib, user, log), lib.initialized
               PROVE  /\ Chained(lib.pool, FreeSeq)
                      /\ Partitioned(lib.pool, FreeSeq, DOMAIN user \cup DOMAIN lib.comm)
    BY DEF MessagesInv, HandlesAccounted
  <2>1. InUse(lib.pool, DOMAIN user \cup DOMAIN lib.comm)
    BY DEF Sane, PoolOK
  <2>2. PICK fr : Sound(lib.pool, fr, DOMAIN user \cup DOMAIN lib.comm)
    BY <2>1 DEF InUse
  <2>3. FreeSeq = fr
    BY <2>2, FreeSeqOfPool DEF FreeSeq
  <2> QED BY <2>2, <2>3 DEF Sound
<1> QED BY <1>1, Invariant, PTL

\* MPI_COMM_WORLD is item 1 in every life of the library (mpi.c).
THEOREM WorldIsKept == Spec => []WorldKept
<1>1. MessagesInv => WorldKept
  BY DEF MessagesInv, Kept, TablesOK, CommsOK, WorldKept
<1> QED BY <1>1, Invariant, PTL

-----------------------------------------------------------------------------
(* The library implements the matching that MPI promises.                  *)

\* Every message that was posted on a communicator there is and has not moved
\* has a request that the program holds.
Awaited(l, u, g) ==
  \A kind \in Kinds : \A i \in 1 .. Len(Posted(g, kind)) : \A c \in DOMAIN l.comm :
    Posted(g, kind)[i].comm = l.comm[c].num /\ ~Moved(l.mem, [kind |-> kind, id |-> i])
      => \E h \in DOMAIN u : u[h].kind = kind /\ u[h].id = i

\* What is open of a kind on the communicator num, with a tag of T.
Fitting(l, g, kind, num, T) ==
  {i \in 1 .. Len(Posted(g, kind)) : /\ Posted(g, kind)[i].comm = num
                                     /\ Posted(g, kind)[i].tag \in T
                                     /\ ~Moved(l.mem, [kind |-> kind, id |-> i])}

LeastOf(S, m) == m \in S /\ \A n \in S : m <= n

\* The requests of S that are in M are those with a tag of T.
TagsIn(S, M, req, T) == \A h \in S : h \in M <=> req[h].tag \in T

\* A search in the list q for what is in F gave the item a.
Finds(a, q, F, u) == /\ a = NoItem => F = {}
                     /\ a # NoItem => LeastOf(F, u[q.item[a].data].id)

\* A search in the list q finds the oldest that fits, and nothing when none does.
LEMMA SearchFits ==
  ASSUME NEW l, NEW u, NEW g, Sane(l, u, g), Awaited(l, u, g), NEW kind \in Kinds,
         NEW c \in DOMAIN l.comm, NEW num, num = l.comm[c].num, NEW q, ListOK(q),
         NEW S, S = Open(l.req, u, Posted(g, kind), kind, num), Queue(Data(q), S, u),
         NEW M, NEW T, TagsIn(S, M, l.req, T),
         NEW F, F = Fitting(l, g, kind, num, T),
         NEW a, a = AP_list_search_func(q, M)
  PROVE  Finds(a, q, F, u)
<1> DEFINE n == Len(Data(q))
           d(i) == Data(q)[i]
<1>1. /\ \A i \in 1 .. n : d(i) \in S
      /\ \A h \in S : \E i \in 1 .. n : d(i) = h
      /\ \A i, j \in 1 .. n : i < j => u[d(i)].id < u[d(j)].id
      /\ n \in Nat
  <2>1. DOMAIN Data(q) = 1 .. n /\ n \in Nat
    BY DataOfList
  <2> QED BY <2>1 DEF Queue, Range
<1>2. ASSUME NEW h \in S
      PROVE  /\ h \in DOMAIN u /\ u[h].id \in 1 .. Len(Posted(g, kind)) /\ u[h].id \in Nat
             /\ Posted(g, kind)[u[h].id].comm = num
             /\ l.req[h].tag = Posted(g, kind)[u[h].id].tag
             /\ ~Moved(l.mem, [kind |-> kind, id |-> u[h].id])
  <2>1. OpenRequest(l, u, g, kind, num, h)
    BY OpenFacts
  <2>2. HeldOK(u, g)
    BY DEF Sane
  <2>3. u[h] = [kind |-> kind, id |-> u[h].id]
    BY <2>1, <2>2 DEF OpenRequest, HeldOK
  <2> QED BY <2>1, <2>3 DEF OpenRequest
<1>3. ASSUME NEW i \in F
      PROVE  \E h \in S : u[h].id = i
  <2>1. /\ i \in 1 .. Len(Posted(g, kind)) /\ Posted(g, kind)[i].comm = num
        /\ ~Moved(l.mem, [kind |-> kind, id |-> i])
    BY <1>3 DEF Fitting
  <2>2. PICK h \in DOMAIN u : u[h].kind = kind /\ u[h].id = i
    BY <2>1 DEF Awaited
  <2>3. HeldOK(u, g) /\ RequestOK(l.req[h], u[h], l.mem, g)
    BY DEF Sane, RequestsOK
  <2>4. u[h] = [kind |-> kind, id |-> i]
    BY <2>2, <2>3 DEF HeldOK
  <2>5. i # 0
    BY <2>1
  <2>6. l.req[h].complete = 0
    BY <2>1, <2>2, <2>3, <2>4, <2>5 DEF RequestOK
  <2>7. h \in S
    BY <2>1, <2>2, <2>5, <2>6 DEF Open
  <2> QED BY <2>2, <2>7
<1>4. ASSUME NEW h \in S
      PROVE  h \in M <=> u[h].id \in F
  BY <1>2 DEF Fitting, TagsIn
<1>5. \/ a = NoItem /\ \A i \in 1 .. n : d(i) \notin M
      \/ /\ a # NoItem
         /\ \E k \in 1 .. n : /\ q.item[a].data = d(k) /\ d(k) \in M
                              /\ \A i \in 1 .. k - 1 : d(i) \notin M
  BY SearchData, Zenon
<1> HIDE DEF n, d
<1>6. CASE a = NoItem
  <2>1. \A i \in 1 .. n : d(i) \notin M
    BY <1>5, <1>6
  <2>2. ASSUME NEW i \in F
        PROVE  FALSE
    <3>1. PICK h \in S : u[h].id = i
      BY <1>3
    <3>2. h \in M
      BY <1>4, <3>1
    <3> QED BY <1>1, <2>1, <3>2
  <2> QED BY <1>6, <2>2 DEF Finds
<1>7. CASE a # NoItem
  <2>1. PICK k \in 1 .. n : /\ q.item[a].data = d(k) /\ d(k) \in M
                            /\ \A i \in 1 .. k - 1 : d(i) \notin M
    BY <1>5, <1>7
  <2>2. d(k) \in S /\ u[d(k)].id \in F
    BY <1>1, <1>4, <2>1
  <2>3. ASSUME NEW i \in F
        PROVE  u[d(k)].id <= i
    <3>1. PICK h \in S : u[h].id = i
      BY <1>3
    <3>2. PICK j \in 1 .. n : d(j) = h
      BY <1>1
    <3>3. d(j) \in M
      BY <1>4, <3>1, <3>2
    <3>4. ~(j < k)
      <4>1. j < k => j \in 1 .. k - 1
        BY <1>1
      <4> QED BY <2>1, <3>3, <4>1
    <3>5. k = j \/ k < j
      BY <1>1, <3>4
    <3>6. CASE k < j
      <4>1. u[d(k)].id < u[d(j)].id
        BY <1>1, <3>6
      <4>2. u[d(k)].id \in Nat /\ u[d(j)].id \in Nat
        BY <1>2, <2>2, <3>2
      <4> QED BY <3>1, <3>2, <4>1, <4>2
    <3>7. CASE k = j
      <4>1. u[d(k)].id = i
        BY <3>1, <3>2, <3>7
      <4>2. u[d(k)].id \in Nat
        BY <1>2, <2>2
      <4> QED BY <4>1, <4>2
    <3> QED BY <3>5, <3>6, <3>7
  <2> QED BY <1>7, <2>1, <2>2, <2>3 DEF LeastOf, Finds
<1> QED BY <1>6, <1>7

\* The messages that have moved by mem have moved by mem2.
Gains(mem2, mem) == \A q : q.id \in 1 .. MaxPosts /\ Moved(mem, q) => Moved(mem2, q)

\* The communicators of x are some of those of l, or new.
FewerComms(x, l) ==
  \A d \in DOMAIN x.comm : \/ x.comm[d].num = l.num
                           \/ \E c \in DOMAIN l.comm : x.comm[d].num = l.comm[c].num

\* A request of u is still in v, or its message has moved.
Keeps(v, u, mem) == \A h \in DOMAIN u : \/ u[h].id = 0 \/ Moved(mem, u[h])
                                        \/ h \in DOMAIN v /\ v[h] = u[h]

\* What is in the log k was in g, or has a request in v.
HasNew(k, g, v) ==
  \A kind \in Kinds : \A i \in 1 .. Len(Posted(k, kind)) :
    \/ i \in 1 .. Len(Posted(g, kind)) /\ Posted(k, kind)[i] = Posted(g, kind)[i]
    \/ \E h \in DOMAIN v : v[h].kind = kind /\ v[h].id = i

LEMMA AwaitedStep ==
  ASSUME NEW l, NEW u, NEW g, Sane(l, u, g), Awaited(l, u, g), NEW x, NEW v, NEW k,
         Gains(x.mem, l.mem), FewerComms(x, l), Keeps(v, u, x.mem), HasNew(k, g, v)
  PROVE  Awaited(x, v, k)
<1> SUFFICES ASSUME NEW kind \in Kinds, NEW i \in 1 .. Len(Posted(k, kind)),
                    NEW d \in DOMAIN x.comm, Posted(k, kind)[i].comm = x.comm[d].num,
                    ~Moved(x.mem, [kind |-> kind, id |-> i])
             PROVE  \E h \in DOMAIN v : v[h].kind = kind /\ v[h].id = i
  BY DEF Awaited
<1>1. LogOK(l, g) /\ TablesOK(l) /\ HeldOK(u, g)
  BY DEF Sane, Kept
<1>2. CASE i \in 1 .. Len(Posted(g, kind)) /\ Posted(k, kind)[i] = Posted(g, kind)[i]
  <2>1. Posted(g, kind)[i].comm # l.num
    <3>1. l.num \in Nat /\ Posted(g, kind)[i].comm \in 0 .. l.num - 1
      <4>1. CASE kind = "send"
        <5>1. g.sends[i] \in [comm : 0 .. l.num - 1, tag : Tags] /\ l.num \in Nat
          BY <1>1, <1>2, <4>1, LogTypes DEF Posted
        <5> QED BY <4>1, <5>1 DEF Posted
      <4>2. CASE kind = "recv"
        <5>1. g.recvs[i] \in [comm : 0 .. l.num - 1, tag : Tags \cup {ANY_TAG}] /\ l.num \in Nat
          BY <1>1, <1>2, <4>2, LogTypes DEF Posted
        <5> QED BY <4>2, <5>1 DEF Posted
      <4> QED BY <4>1, <4>2 DEF Kinds
    <3> DEFINE n == l.num
               e == Posted(g, kind)[i].comm
    <3>2. n \in Nat /\ e \in 0 .. n - 1
      BY <3>1
    <3> HIDE DEF n, e
    <3>3. e # n
      BY <3>2
    <3> QED BY <3>3 DEF n, e
  <2>2. PICK c \in DOMAIN l.comm : Posted(g, kind)[i].comm = l.comm[c].num
    BY <1>2, <2>1 DEF FewerComms
  <2>3. ~Moved(l.mem, [kind |-> kind, id |-> i])
    <3> DEFINE n == Len(Posted(g, kind))
    <3>1. n \in Nat /\ n <= MaxPosts /\ MaxPosts \in Nat
      BY <1>1, LogTypes DEF Posted
    <3>2. i \in 1 .. n
      BY <1>2
    <3> HIDE DEF n
    <3>3. i \in 1 .. MaxPosts
      BY <3>1, <3>2
    <3> QED BY <3>3 DEF Gains
  <2>4. PICK h \in DOMAIN u : u[h].kind = kind /\ u[h].id = i
    BY <1>2, <2>2, <2>3 DEF Awaited
  <2>5. u[h] = [kind |-> kind, id |-> i]
    BY <1>1, <2>4 DEF HeldOK
  <2>6. i # 0
    BY <1>2
  <2>7. h \in DOMAIN v /\ v[h] = u[h]
    BY <2>5, <2>6, <2>4 DEF Keeps
  <2> QED BY <2>4, <2>7
<1>3. CASE \E h \in DOMAIN v : v[h].kind = kind /\ v[h].id = i
  BY <1>3
<1> QED BY <1>2, <1>3 DEF HasNew

\* One more request and one more envelope in the log.
LEMMA AwaitedPosted ==
  ASSUME NEW l, NEW u, NEW g, Sane(l, u, g), Awaited(l, u, g), NEW x, NEW k,
         NEW kind \in Kinds, NEW e, Longer(k, g, kind, e), NEW h, h \notin DOMAIN u,
         NEW id, id = Len(Posted(g, kind)) + 1,
         NEW v, v = With(u, h, [kind |-> kind, id |-> id]),
         Gains(x.mem, l.mem), SameComms(x, l)
  PROVE  Awaited(x, v, k)
<1>1. /\ DOMAIN v = DOMAIN u \cup {h} /\ v[h] = [kind |-> kind, id |-> id]
      /\ \A j \in DOMAIN u : v[j] = u[j]
  BY DEF With
<1>2. FewerComms(x, l)
  BY DEF SameComms, FewerComms
<1>3. Keeps(v, u, x.mem)
  BY <1>1 DEF Keeps
<1>4. HasNew(k, g, v)
  <2> SUFFICES ASSUME NEW n \in Kinds, NEW i \in 1 .. Len(Posted(k, n))
               PROVE  \/ i \in 1 .. Len(Posted(g, n)) /\ Posted(k, n)[i] = Posted(g, n)[i]
                      \/ \E j \in DOMAIN v : v[j].kind = n /\ v[j].id = i
    BY DEF HasNew
  <2>1. CASE n = kind
    <3>1. LogOK(l, g) /\ TablesOK(l)
      BY DEF Sane, Kept
    <3>2. Len(Posted(g, kind)) \in Nat
      BY <3>1, LogTypes DEF Posted
    <3>3. i \in 1 .. id
      BY <2>1 DEF Longer
    <3>4. i \in 1 .. Len(Posted(g, kind)) \/ i = id
      BY <3>2, <3>3
    <3>5. CASE i = id
      <4>1. h \in DOMAIN v /\ v[h].kind = n /\ v[h].id = i
        BY <2>1, <1>1, <3>5
      <4> QED BY <4>1
    <3>6. CASE i \in 1 .. Len(Posted(g, kind))
      BY <2>1, <3>6 DEF Longer
    <3> QED BY <3>4, <3>5, <3>6
  <2>2. CASE n # kind
    BY <2>2 DEF Longer
  <2> QED BY <2>1, <2>2
<1> QED BY <1>2, <1>3, <1>4, AwaitedStep

\* What the abstract specification sees of the library and the log.
Pairs(mem) == {<<mem[r], r>> : r \in {b \in DOMAIN mem : mem[b] # 0}}

Seen(l, g) == [sends |-> g.sends, recvs |-> g.recvs, pairs |-> Pairs(l.mem)]

LEMMA PairsGrow ==
  ASSUME NEW mem \in [1 .. MaxPosts -> 0 .. MaxPosts], NEW b \in 1 .. MaxPosts, mem[b] = 0,
         NEW m \in 1 .. MaxPosts, NEW mem2, mem2 = [mem EXCEPT ![b] = m]
  PROVE  Pairs(mem2) = Pairs(mem) \cup {<<m, b>>}
<1>1. /\ DOMAIN mem = 1 .. MaxPosts /\ DOMAIN mem2 = 1 .. MaxPosts
      /\ mem2[b] = m /\ m # 0 /\ \A d \in 1 .. MaxPosts : d # b => mem2[d] = mem[d]
  OBVIOUS
<1>2. ASSUME NEW p
      PROVE  p \in Pairs(mem2) <=> p \in Pairs(mem) \/ p = <<m, b>>
  <2>1. p \in Pairs(mem2) <=> \E r \in 1 .. MaxPosts : mem2[r] # 0 /\ p = <<mem2[r], r>>
    BY <1>1 DEF Pairs
  <2>2. p \in Pairs(mem) <=> \E r \in 1 .. MaxPosts : mem[r] # 0 /\ p = <<mem[r], r>>
    BY <1>1 DEF Pairs
  <2> QED BY <1>1, <2>1, <2>2
<1> QED BY <1>2

\* The tags of the sends that a receive with this tag takes.
TakenBy(tag) == {t \in Tags : tag \in {ANY_TAG, t}}

Posting(num, tag) == [comm |-> num, tag |-> tag]

FitRecvs(c, e) == {j \in Matching!OpenRecvs(c) : Matching!Fits(e, c.recvs[j])}

FitSends(c, e) == {i \in Matching!OpenSends(c) : Matching!Fits(c.sends[i], e)}

\* What fits a send or a receive in the abstract specification is what the
\* library's requests say.
SameFits(l, g, num, tag) ==
  /\ FitRecvs(Seen(l, g), Posting(num, tag)) = Fitting(l, g, "recv", num, {ANY_TAG, tag})
  /\ FitSends(Seen(l, g), Posting(num, tag)) = Fitting(l, g, "send", num, TakenBy(tag))

LEMMA FitsSeen ==
  ASSUME NEW l, NEW g, TablesOK(l), LogOK(l, g), NEW num, NEW tag
  PROVE  SameFits(l, g, num, tag)
<1> DEFINE e == Posting(num, tag)
           mem == l.mem
           c == Seen(l, g)
<1>1. mem \in [1 .. MaxPosts -> 0 .. MaxPosts] /\ DOMAIN mem = 1 .. MaxPosts
  BY DEF TablesOK
<1>2. /\ Len(g.sends) \in Nat /\ Len(g.recvs) \in Nat
      /\ Len(g.sends) <= MaxPosts /\ Len(g.recvs) <= MaxPosts /\ MaxPosts \in Nat
  BY LogTypes
<1>3. /\ DOMAIN g.sends = 1 .. Len(g.sends) /\ DOMAIN g.recvs = 1 .. Len(g.recvs)
  BY DEF LogOK
<1>4. c.sends = g.sends /\ c.recvs = g.recvs /\ c.pairs = Pairs(mem)
  BY DEF Seen
<1>5. e.comm = num /\ e.tag = tag
  BY DEF Posting
<1> HIDE DEF c, mem, e
<1>6. ASSUME NEW j \in 1 .. Len(g.recvs)
      PROVE  (\A p \in Pairs(mem) : p[2] # j) <=> mem[j] = 0
  <2>1. j \in 1 .. MaxPosts
    BY <1>2
  <2>2. mem[j] # 0 => <<mem[j], j>> \in Pairs(mem)
    BY <1>1, <2>1 DEF Pairs
  <2>3. \A p \in Pairs(mem) : p[2] = j => mem[j] # 0
    BY <1>1 DEF Pairs
  <2> QED BY <2>2, <2>3
<1>7. ASSUME NEW i \in 1 .. Len(g.sends)
      PROVE  (\A p \in Pairs(mem) : p[1] # i) <=> i \notin Range(mem)
  <2>1. i # 0
    BY <1>2
  <2>2. \A d \in 1 .. MaxPosts : mem[d] = i => <<i, d>> \in Pairs(mem)
    BY <1>1, <2>1 DEF Pairs
  <2>3. \A p \in Pairs(mem) : \E d \in 1 .. MaxPosts : p[1] = mem[d]
    BY <1>1 DEF Pairs
  <2>4. i \in Range(mem) <=> \E d \in 1 .. MaxPosts : mem[d] = i
    BY <1>1 DEF Range
  <2>5. ASSUME NEW d \in 1 .. MaxPosts, mem[d] = i
        PROVE  \E p \in Pairs(mem) : p[1] = i
    <3>1. <<i, d>> \in Pairs(mem) /\ <<i, d>>[1] = i
      BY <2>2, <2>5
    <3> QED BY <3>1
  <2> QED BY <2>3, <2>4, <2>5
<1>8. ASSUME NEW j
      PROVE  j \in {i \in Matching!OpenRecvs(c) : Matching!Fits(e, g.recvs[i])}
               <=> j \in Fitting(l, g, "recv", num, {ANY_TAG, tag})
  <2>1. j \in Matching!OpenRecvs(c)
          <=> j \in 1 .. Len(g.recvs) /\ \A p \in Pairs(mem) : p[2] # j
    BY <1>3, <1>4 DEF Matching!OpenRecvs
  <2>2. Matching!Fits(e, g.recvs[j])
          <=> g.recvs[j].comm = num /\ g.recvs[j].tag \in {ANY_TAG, tag}
    BY <1>5 DEF Matching!Fits
  <2>3. j \in Fitting(l, g, "recv", num, {ANY_TAG, tag})
          <=> /\ j \in 1 .. Len(g.recvs) /\ g.recvs[j].comm = num
              /\ g.recvs[j].tag \in {ANY_TAG, tag} /\ mem[j] = 0
    BY DEF Fitting, Posted, Moved, mem
  <2> QED BY <1>6, <2>1, <2>2, <2>3
<1>9. ASSUME NEW i
      PROVE  i \in {j \in Matching!OpenSends(c) : Matching!Fits(g.sends[j], e)}
               <=> i \in Fitting(l, g, "send", num, TakenBy(tag))
  <2>1. i \in Matching!OpenSends(c)
          <=> i \in 1 .. Len(g.sends) /\ \A p \in Pairs(mem) : p[1] # i
    BY <1>3, <1>4 DEF Matching!OpenSends
  <2>2. Matching!Fits(g.sends[i], e)
          <=> g.sends[i].comm = num /\ tag \in {g.sends[i].tag, ANY_TAG}
    BY <1>5 DEF Matching!Fits
  <2>3. i \in Fitting(l, g, "send", num, TakenBy(tag))
          <=> /\ i \in 1 .. Len(g.sends) /\ g.sends[i].comm = num
              /\ g.sends[i].tag \in TakenBy(tag) /\ i \notin Range(mem)
    BY DEF Fitting, Posted, Moved, mem
  <2>4. i \in 1 .. Len(g.sends) => g.sends[i].tag \in Tags
    <3>1. ASSUME i \in 1 .. Len(g.sends)
          PROVE  g.sends[i] \in [comm : 0 .. l.num - 1, tag : Tags]
      BY <3>1, LogTypes
    <3> QED BY <3>1
  <2>5. i \in 1 .. Len(g.sends)
          => (g.sends[i].tag \in TakenBy(tag) <=> tag \in {g.sends[i].tag, ANY_TAG})
    BY <2>4 DEF TakenBy
  <2> QED BY <1>7, <2>1, <2>2, <2>3, <2>5
<1>10. FitRecvs(c, e) = Fitting(l, g, "recv", num, {ANY_TAG, tag})
  BY <1>4, <1>8 DEF FitRecvs
<1>11. FitSends(c, e) = Fitting(l, g, "send", num, TakenBy(tag))
  BY <1>4, <1>9 DEF FitSends
<1> QED BY <1>10, <1>11 DEF c, e, SameFits

LEMMA LeastIsMin ==
  ASSUME NEW F, F \subseteq Nat, NEW m, LeastOf(F, m)
  PROVE  Matching!Min(F) = m /\ F # {}
<1>1. m \in F /\ \A n \in F : m <= n
  BY DEF LeastOf
<1>2. ASSUME NEW x \in F, \A y \in F : x <= y
      PROVE  x = m
  BY <1>1, <1>2
<1>3. Matching!Min(F) = CHOOSE x \in F : \A y \in F : x <= y
  BY DEF Matching!Min
<1>4. Matching!Min(F) = m
  BY <1>1, <1>2, <1>3, Zenon
<1> QED BY <1>1, <1>4

\* Send or receive n, for which F is what fits, has met the oldest of F.
SendMeets(mem2, mem, F, n) ==
  \/ F = {} /\ Pairs(mem2) = Pairs(mem)
  \/ \E m : LeastOf(F, m) /\ Pairs(mem2) = Pairs(mem) \cup {<<n, m>>}

RecvMeets(mem2, mem, F, n) ==
  \/ F = {} /\ Pairs(mem2) = Pairs(mem)
  \/ \E m : LeastOf(F, m) /\ Pairs(mem2) = Pairs(mem) \cup {<<m, n>>}

SendSeen(x, l, g, c, tag, num) ==
  Seen(x, Sent(l, g, c, tag)) = Matching!WithSend(Seen(l, g), Posting(num, tag))

RecvSeen(x, l, g, c, tag, num) ==
  Seen(x, Asked(l, g, c, tag)) = Matching!WithRecv(Seen(l, g), Posting(num, tag))

\* A send or receive that pends adds itself, one that meets its partner adds
\* the pair as well.
LEMMA SeenSend ==
  ASSUME NEW l, NEW g, TablesOK(l), LogOK(l, g), NEW c, NEW tag, NEW x,
         NEW num, num = l.comm[c].num,
         NEW F, F = Fitting(l, g, "recv", num, {ANY_TAG, tag}),
         SendMeets(x.mem, l.mem, F, Len(g.sends) + 1)
  PROVE  SendSeen(x, l, g, c, tag, num)
<1> DEFINE e == Posting(num, tag)
           s == Seen(l, g)
           k == Sent(l, g, c, tag)
           fit == FitRecvs(s, e)
<1>1. fit = F
  <2>1. SameFits(l, g, num, tag)
    BY FitsSeen
  <2> QED BY <2>1 DEF SameFits
<1>2. F \subseteq Nat
  <2>1. Len(g.recvs) \in Nat
    BY LogTypes
  <2> QED BY <2>1 DEF Fitting, Posted
<1>3. k.sends = Append(g.sends, e) /\ k.recvs = g.recvs
  BY DEF Sent, LogOK, Posting
<1>4. s.sends = g.sends /\ s.recvs = g.recvs /\ s.pairs = Pairs(l.mem)
      /\ s \in [sends : {g.sends}, recvs : {g.recvs}, pairs : {Pairs(l.mem)}]
  BY DEF Seen
<1>5. Matching!WithSend(s, e)
        = [s EXCEPT !.sends = Append(@, e),
                    !.pairs = IF fit = {} THEN @
                              ELSE @ \cup {<<Len(s.sends) + 1, Matching!Min(fit)>>}]
  BY <1>4, Zenon DEF Matching!WithSend, FitRecvs
<1>6. Seen(x, k) = [sends |-> Append(g.sends, e), recvs |-> g.recvs, pairs |-> Pairs(x.mem)]
  BY <1>3 DEF Seen
<1> HIDE DEF e, s, k, fit
<1>7. Matching!WithSend(s, e)
        = [sends |-> Append(g.sends, e), recvs |-> g.recvs,
           pairs |-> IF F = {} THEN Pairs(l.mem)
                     ELSE Pairs(l.mem) \cup {<<Len(g.sends) + 1, Matching!Min(F)>>}]
  BY <1>1, <1>4, <1>5
<1>8. Pairs(x.mem) = IF F = {} THEN Pairs(l.mem)
                     ELSE Pairs(l.mem) \cup {<<Len(g.sends) + 1, Matching!Min(F)>>}
  BY <1>2, LeastIsMin DEF SendMeets
<1> QED BY <1>6, <1>7, <1>8 DEF e, s, k, SendSeen

LEMMA SeenRecv ==
  ASSUME NEW l, NEW g, TablesOK(l), LogOK(l, g), NEW c, NEW tag, NEW x,
         NEW num, num = l.comm[c].num,
         NEW F, F = Fitting(l, g, "send", num, TakenBy(tag)),
         RecvMeets(x.mem, l.mem, F, Len(g.recvs) + 1)
  PROVE  RecvSeen(x, l, g, c, tag, num)
<1> DEFINE e == Posting(num, tag)
           s == Seen(l, g)
           k == Asked(l, g, c, tag)
           fit == FitSends(s, e)
<1>1. fit = F
  <2>1. SameFits(l, g, num, tag)
    BY FitsSeen
  <2> QED BY <2>1 DEF SameFits
<1>2. F \subseteq Nat
  <2>1. Len(g.sends) \in Nat
    BY LogTypes
  <2> QED BY <2>1 DEF Fitting, Posted
<1>3. k.recvs = Append(g.recvs, e) /\ k.sends = g.sends
  BY DEF Asked, LogOK, Posting
<1>4. s.sends = g.sends /\ s.recvs = g.recvs /\ s.pairs = Pairs(l.mem)
      /\ s \in [sends : {g.sends}, recvs : {g.recvs}, pairs : {Pairs(l.mem)}]
  BY DEF Seen
<1>5. Matching!WithRecv(s, e)
        = [s EXCEPT !.recvs = Append(@, e),
                    !.pairs = IF fit = {} THEN @
                              ELSE @ \cup {<<Matching!Min(fit), Len(s.recvs) + 1>>}]
  BY <1>4, Zenon DEF Matching!WithRecv, FitSends
<1>6. Seen(x, k) = [sends |-> g.sends, recvs |-> Append(g.recvs, e), pairs |-> Pairs(x.mem)]
  BY <1>3 DEF Seen
<1> HIDE DEF e, s, k, fit
<1>7. Matching!WithRecv(s, e)
        = [sends |-> g.sends, recvs |-> Append(g.recvs, e),
           pairs |-> IF F = {} THEN Pairs(l.mem)
                     ELSE Pairs(l.mem) \cup {<<Matching!Min(F), Len(g.recvs) + 1>>}]
  BY <1>1, <1>4, <1>5
<1>8. Pairs(x.mem) = IF F = {} THEN Pairs(l.mem)
                     ELSE Pairs(l.mem) \cup {<<Matching!Min(F), Len(g.recvs) + 1>>}
  BY <1>2, LeastIsMin DEF RecvMeets
<1> QED BY <1>6, <1>7, <1>8 DEF e, s, k, RecvSeen

LEMMA FindRecvFits ==
  ASSUME NEW l, NEW u, NEW g, Sane(l, u, g), Awaited(l, u, g), NEW c \in DOMAIN l.comm,
         NEW tag
  PROVE  Finds(FindRecv(l, c, tag), l.comm[c].recvlist,
               Fitting(l, g, "recv", l.comm[c].num, {ANY_TAG, tag}), u)
<1> DEFINE num == l.comm[c].num
           q == l.comm[c].recvlist
           S == Open(l.req, u, Posted(g, "recv"), "recv", num)
           M == {r \in AllItems : l.req[r].tag \in {ANY_TAG, tag}}
           T == {ANY_TAG, tag}
           F == Fitting(l, g, "recv", num, T)
           a == FindRecv(l, c, tag)
<1>1. ListOK(q) /\ Queue(Data(q), S, u)
  BY DEF Sane, Kept, CommsOK, QueuesOK, Posted
<1>2. TagsIn(S, M, l.req, T)
  <2>1. S \subseteq DOMAIN u /\ DOMAIN u \subseteq AllItems
    BY DEF Open, Sane, Kept
  <2> QED BY <2>1 DEF TagsIn
<1>3. a = AP_list_search_func(q, M)
  BY DEF FindRecv
<1>4. F = Fitting(l, g, "recv", num, T)
  OBVIOUS
<1>5. "recv" \in Kinds
  BY DEF Kinds
<1>6. num = l.comm[c].num /\ S = Open(l.req, u, Posted(g, "recv"), "recv", num)
  OBVIOUS
<1> HIDE DEF num, q, S, M, T, F, a
<1>7. Finds(a, q, F, u)
  BY <1>1, <1>2, <1>3, <1>4, <1>5, <1>6, SearchFits, Zenon
<1> QED BY <1>7 DEF a, q, F, T, num

LEMMA FindSendFits ==
  ASSUME NEW l, NEW u, NEW g, Sane(l, u, g), Awaited(l, u, g), NEW c \in DOMAIN l.comm,
         NEW tag
  PROVE  Finds(FindSend(l, c, tag), l.comm[c].sendlist,
               Fitting(l, g, "send", l.comm[c].num, TakenBy(tag)), u)
<1> DEFINE num == l.comm[c].num
           q == l.comm[c].sendlist
           S == Open(l.req, u, Posted(g, "send"), "send", num)
           M == {r \in AllItems : tag \in {ANY_TAG, l.req[r].tag}}
           T == TakenBy(tag)
           F == Fitting(l, g, "send", num, T)
           a == FindSend(l, c, tag)
<1>1. ListOK(q) /\ Queue(Data(q), S, u)
  BY DEF Sane, Kept, CommsOK, QueuesOK, Posted
<1>5. "send" \in Kinds
  BY DEF Kinds
<1>2. TagsIn(S, M, l.req, T)
  <2> SUFFICES ASSUME NEW h \in S
               PROVE  h \in AllItems /\ l.req[h].tag \in Tags
    BY DEF TagsIn, TakenBy
  <2>1. OpenRequest(l, u, g, "send", num, h)
    BY <1>5, OpenFacts
  <2>2. LogOK(l, g) /\ TablesOK(l)
    BY DEF Sane, Kept
  <2>3. /\ h \in AllItems /\ u[h].id \in 1 .. Len(g.sends)
        /\ l.req[h].tag = g.sends[u[h].id].tag
    BY <2>1 DEF OpenRequest, Posted
  <2>4. g.sends[u[h].id] \in [comm : 0 .. l.num - 1, tag : Tags]
    BY <2>2, <2>3, LogTypes
  <2> QED BY <2>3, <2>4
<1>3. a = AP_list_search_func(q, M)
  BY DEF FindSend
<1>4. F = Fitting(l, g, "send", num, T)
  OBVIOUS
<1>6. num = l.comm[c].num /\ S = Open(l.req, u, Posted(g, "send"), "send", num)
  OBVIOUS
<1> HIDE DEF num, q, S, M, T, F, a
<1>7. Finds(a, q, F, u)
  BY <1>1, <1>2, <1>3, <1>4, <1>5, <1>6, SearchFits, Zenon
<1> QED BY <1>7 DEF a, q, F, T, num

LEMMA MovedGrow ==
  ASSUME NEW mem \in [1 .. MaxPosts -> 0 .. MaxPosts], NEW b \in 1 .. MaxPosts, mem[b] = 0,
         NEW m \in 1 .. MaxPosts, NEW mem2, mem2 = [mem EXCEPT ![b] = m]
  PROVE  Gains(mem2, mem)
<1> SUFFICES ASSUME NEW q, q.id \in 1 .. MaxPosts, Moved(mem, q)
             PROVE  Moved(mem2, q)
  BY DEF Gains
<1>1. /\ DOMAIN mem2 = 1 .. MaxPosts /\ DOMAIN mem = 1 .. MaxPosts /\ mem2[b] = m /\ m # 0
      /\ \A d \in 1 .. MaxPosts : d # b => mem2[d] = mem[d]
  OBVIOUS
<1>2. CASE q.kind = "send"
  <2>1. PICK d \in 1 .. MaxPosts : mem[d] = q.id
    BY <1>1, <1>2 DEF Moved, Range
  <2>2. d # b
    BY <2>1
  <2>3. mem2[d] = q.id
    BY <1>1, <2>1, <2>2
  <2> QED BY <1>1, <1>2, <2>3 DEF Moved, Range
<1>3. CASE q.kind # "send"
  BY <1>1, <1>3 DEF Moved
<1> QED BY <1>2, <1>3

\* A post that was logged in k does what the abstract specification says, and
\* its request is in v.
Matches(x, v, k, l, new) == Seen(x, k) = new /\ Awaited(x, v, k) /\ SameComms(x, l)

LEMMA IsendMatches ==
  ASSUME NEW l, NEW u, NEW g, Sane(l, u, g), Awaited(l, u, g), l.initialized, ~Full(l.pool),
         NEW c \in DOMAIN l.comm, NEW tag \in Tags,
         Len(g.sends) + Len(g.recvs) + 1 <= MaxPosts, NEW m, m = Len(g.sends) + 1
  PROVE  Matches(MPI_Isend(l, c, m, tag),
                 With(u, AllocatedHandle(l.pool), [kind |-> "send", id |-> m]),
                 Sent(l, g, c, tag), l,
                 Matching!WithSend(Seen(l, g), Posting(l.comm[c].num, tag)))
<1> DEFINE x == MPI_Isend(l, c, m, tag)
           h == AllocatedHandle(l.pool)
           v == With(u, h, [kind |-> "send", id |-> m])
           q == l.comm[c]
           num == l.comm[c].num
           a == FindRecv(l, c, tag)
           F == Fitting(l, g, "recv", num, {ANY_TAG, tag})
           e == [comm |-> num, tag |-> tag]
           k == Sent(l, g, c, tag)
<1>1. /\ TablesOK(l) /\ CommsOK(l) /\ LogOK(l, g) /\ l.abort = ""
  BY DEF Sane, Kept
<1>2. Shape(l) /\ CommShape(q) /\ num \in 0 .. l.num - 1
      /\ l.mem \in [1 .. MaxPosts -> 0 .. MaxPosts]
  BY <1>1 DEF TablesOK, CommsOK
<1>3. h \notin DOMAIN u
  BY NewHandle
<1>4. Finds(a, q.recvlist, F, u)
  BY FindRecvFits
<1>5. m \in 1 .. MaxPosts
  <2> DEFINE p == Len(g.sends)
             n == Len(g.recvs)
  <2>1. p \in Nat /\ n \in Nat /\ p + n + 1 <= MaxPosts /\ MaxPosts \in Nat /\ m = p + 1
    BY <1>1, LogTypes
  <2> HIDE DEF p, n
  <2> QED BY <2>1
<1>6. Longer(k, g, "send", e)
  <2>1. e \in [comm : 0 .. l.num - 1, tag : Tags] /\ l.num = l.num
    BY <1>2
  <2>2. k = [g EXCEPT !.sends = Append(@, e)]
    BY DEF Sent
  <2> HIDE DEF e, k
  <2>3. Longer([g EXCEPT !.sends = Append(@, e)], g, "send", e)
    BY <1>1, <2>1, LogSent
  <2> QED BY <2>2, <2>3
<1>7. ASSUME Gains(x.mem, l.mem), SameComms(x, l), SendMeets(x.mem, l.mem, F, m)
      PROVE  Matches(x, v, k, l, Matching!WithSend(Seen(l, g), Posting(num, tag)))
  <2>1. "send" \in Kinds /\ m = Len(Posted(g, "send")) + 1
    BY DEF Posted, Kinds
  <2>2. num = l.comm[c].num /\ F = Fitting(l, g, "recv", num, {ANY_TAG, tag})
        /\ SendMeets(x.mem, l.mem, F, Len(g.sends) + 1)
    BY <1>7
  <2>3. v = With(u, h, [kind |-> "send", id |-> m]) /\ k = Sent(l, g, c, tag)
    OBVIOUS
  <2> HIDE DEF x, v, k, e, h, F, num
  <2>4. Awaited(x, v, k)
    BY <1>3, <1>6, <1>7, <2>1, <2>3, AwaitedPosted
  <2>5. SendSeen(x, l, g, c, tag, num)
    BY <1>1, <2>2, SeenSend
  <2> QED BY <1>7, <2>3, <2>4, <2>5 DEF Matches, SendSeen
<1>8. CASE a = NoItem
  <2> DEFINE new == AP_list_append(q.sendlist, Malloc(q.sendlist), h)
             comm == [l.comm EXCEPT ![c] = [q EXCEPT !.sendlist = new]]
             req == [l.req EXCEPT ![h] = Pending(l.req[h], m, tag)]
  <2>1. Posts(x, l, comm, req, l.mem, l.items)
    BY <1>1, <1>2, <1>8, IsendPends, Zenon
  <2> HIDE DEF new, x, req
  <2>2. Relisted(comm, l.comm, c, new, q.recvlist)
    BY <1>1, SetSendList DEF comm, q
  <2>3. x.comm = comm /\ x.mem = l.mem
    BY <2>1 DEF Posts
  <2> HIDE DEF comm
  <2>4. SameComms(x, l)
    BY <2>2, <2>3 DEF Relisted, SameComms
  <2>5. Gains(x.mem, l.mem)
    BY <2>3 DEF Gains
  <2>6. F = {}
    BY <1>4, <1>8 DEF Finds
  <2> HIDE DEF F
  <2>7. SendMeets(x.mem, l.mem, F, m)
    BY <2>3, <2>6 DEF SendMeets
  <2> HIDE DEF v, k
  <2>8. Matches(x, v, k, l, Matching!WithSend(Seen(l, g), Posting(num, tag)))
    BY <1>7, <2>4, <2>5, <2>7 DEF x
  <2> QED BY <2>8 DEF x, v, k, F
<1>9. CASE a # NoItem
  <2> DEFINE r == q.recvlist.item[a].data
             b == l.req[r].buf
             new == AP_list_delete_item(q.recvlist, a)
             comm == [l.comm EXCEPT ![c] = [q EXCEPT !.recvlist = new]]
             req == [[l.req EXCEPT ![r] = Received(l.req[r], tag)] EXCEPT ![h].complete = 1]
             mem == [l.mem EXCEPT ![b] = m]
             items == [l.items EXCEPT ![b] = SendCount]
  <2>1. Posts(x, l, comm, req, mem, items)
    <3>1. r = q.recvlist.item[FindRecv(l, c, tag)].data
      OBVIOUS
    <3> QED BY <1>1, <1>2, <1>9, <3>1, IsendCompletes, Zenon
  <2>2. b = u[r].id /\ b \in 1 .. MaxPosts /\ l.mem[b] = 0
    <3>1. PICK r0, i : RecvFound(l, u, g, c, tag, r0, i)
      BY <1>9, RecvIsFound
    <3>2. r = r0 /\ r0 \in Open(l.req, u, Posted(g, "recv"), "recv", num) /\ "recv" \in Kinds
      BY <3>1 DEF RecvFound, Posted, Kinds
    <3>3. OpenRequest(l, u, g, "recv", num, r)
      BY <3>2, OpenFacts
    <3> HIDE DEF r
    <3> QED BY <3>3 DEF OpenRequest, Moved
  <2>3. LeastOf(F, u[r].id)
    BY <1>4, <1>9 DEF Finds
  <2>4. mem = [l.mem EXCEPT ![b] = m] /\ u[r].id = b
    BY <2>2
  <2> HIDE DEF new, x, req, mem, items, b, r
  <2>5. Relisted(comm, l.comm, c, q.sendlist, new)
    BY <1>1, SetRecvList DEF comm, q
  <2>6. x.comm = comm /\ x.mem = mem
    BY <2>1 DEF Posts
  <2> HIDE DEF comm
  <2>7. SameComms(x, l)
    BY <2>5, <2>6 DEF Relisted, SameComms
  <2>8. Pairs(mem) = Pairs(l.mem) \cup {<<m, b>>}
    BY <1>2, <1>5, <2>2, <2>4, PairsGrow, SMTT(30)
  <2>9. Gains(x.mem, l.mem)
    BY <1>2, <1>5, <2>2, <2>4, <2>6, MovedGrow
  <2>10. SendMeets(x.mem, l.mem, F, m)
    BY <2>3, <2>4, <2>6, <2>8 DEF SendMeets
  <2> HIDE DEF v, k, F
  <2>11. Matches(x, v, k, l, Matching!WithSend(Seen(l, g), Posting(num, tag)))
    BY <1>7, <2>7, <2>9, <2>10 DEF x
  <2> QED BY <2>11 DEF x, v, k, F
<1> QED BY <1>8, <1>9

LEMMA IrecvMatches ==
  ASSUME NEW l, NEW u, NEW g, Sane(l, u, g), Awaited(l, u, g), l.initialized, ~Full(l.pool),
         NEW c \in DOMAIN l.comm, NEW tag \in Tags \cup {ANY_TAG},
         Len(g.sends) + Len(g.recvs) + 1 <= MaxPosts, NEW b, b = Len(g.recvs) + 1
  PROVE  Matches(MPI_Irecv(l, c, b, tag),
                 With(u, AllocatedHandle(l.pool), [kind |-> "recv", id |-> b]),
                 Asked(l, g, c, tag), l,
                 Matching!WithRecv(Seen(l, g), Posting(l.comm[c].num, tag)))
<1> DEFINE x == MPI_Irecv(l, c, b, tag)
           h == AllocatedHandle(l.pool)
           v == With(u, h, [kind |-> "recv", id |-> b])
           q == l.comm[c]
           num == l.comm[c].num
           a == FindSend(l, c, tag)
           F == Fitting(l, g, "send", num, TakenBy(tag))
           e == [comm |-> num, tag |-> tag]
           k == Asked(l, g, c, tag)
<1>1. /\ TablesOK(l) /\ CommsOK(l) /\ LogOK(l, g) /\ BuffersOK(l, g) /\ l.abort = ""
  BY DEF Sane, Kept
<1>2. Shape(l) /\ CommShape(q) /\ num \in 0 .. l.num - 1
      /\ l.mem \in [1 .. MaxPosts -> 0 .. MaxPosts]
  BY <1>1 DEF TablesOK, CommsOK
<1>3. h \notin DOMAIN u
  BY NewHandle
<1>4. Finds(a, q.sendlist, F, u)
  BY FindSendFits
<1>5. b \in 1 .. MaxPosts /\ ~(b <= Len(g.recvs))
  <2> DEFINE p == Len(g.sends)
             n == Len(g.recvs)
  <2>1. p \in Nat /\ n \in Nat /\ p + n + 1 <= MaxPosts /\ MaxPosts \in Nat /\ b = n + 1
    BY <1>1, LogTypes
  <2> HIDE DEF p, n
  <2>2. b \in 1 .. MaxPosts /\ ~(b <= n)
    BY <2>1
  <2> QED BY <2>2 DEF n
<1>6. Longer(k, g, "recv", e)
  <2>1. e \in [comm : 0 .. l.num - 1, tag : Tags \cup {ANY_TAG}] /\ l.num = l.num
    BY <1>2
  <2>2. k = [g EXCEPT !.recvs = Append(@, e)]
    BY DEF Asked
  <2> HIDE DEF e, k
  <2>3. Longer([g EXCEPT !.recvs = Append(@, e)], g, "recv", e)
    BY <1>1, <2>1, LogReceived
  <2> QED BY <2>2, <2>3
<1>7. ASSUME Gains(x.mem, l.mem), SameComms(x, l), RecvMeets(x.mem, l.mem, F, b)
      PROVE  Matches(x, v, k, l, Matching!WithRecv(Seen(l, g), Posting(num, tag)))
  <2>1. "recv" \in Kinds /\ b = Len(Posted(g, "recv")) + 1
    BY DEF Posted, Kinds
  <2>2. num = l.comm[c].num /\ F = Fitting(l, g, "send", num, TakenBy(tag))
        /\ RecvMeets(x.mem, l.mem, F, Len(g.recvs) + 1)
    BY <1>7
  <2>3. v = With(u, h, [kind |-> "recv", id |-> b]) /\ k = Asked(l, g, c, tag)
    OBVIOUS
  <2> HIDE DEF x, v, k, e, h, F, num
  <2>4. Awaited(x, v, k)
    BY <1>3, <1>6, <1>7, <2>1, <2>3, AwaitedPosted
  <2>5. RecvSeen(x, l, g, c, tag, num)
    BY <1>1, <2>2, SeenRecv
  <2> QED BY <1>7, <2>3, <2>4, <2>5 DEF Matches, RecvSeen
<1>8. CASE a = NoItem
  <2> DEFINE new == AP_list_append(q.recvlist, Malloc(q.recvlist), h)
             comm == [l.comm EXCEPT ![c] = [q EXCEPT !.recvlist = new]]
             req == [l.req EXCEPT ![h] = Pending(l.req[h], b, tag)]
  <2>1. Posts(x, l, comm, req, l.mem, l.items)
    BY <1>1, <1>2, <1>8, IrecvPends, Zenon
  <2> HIDE DEF new, x, req
  <2>2. Relisted(comm, l.comm, c, q.sendlist, new)
    BY <1>1, SetRecvList DEF comm, q
  <2>3. x.comm = comm /\ x.mem = l.mem
    BY <2>1 DEF Posts
  <2> HIDE DEF comm
  <2>4. SameComms(x, l)
    BY <2>2, <2>3 DEF Relisted, SameComms
  <2>5. Gains(x.mem, l.mem)
    BY <2>3 DEF Gains
  <2>6. F = {}
    BY <1>4, <1>8 DEF Finds
  <2> HIDE DEF F
  <2>7. RecvMeets(x.mem, l.mem, F, b)
    BY <2>3, <2>6 DEF RecvMeets
  <2> HIDE DEF v, k
  <2>8. Matches(x, v, k, l, Matching!WithRecv(Seen(l, g), Posting(num, tag)))
    BY <1>7, <2>4, <2>5, <2>7 DEF x
  <2> QED BY <2>8 DEF x, v, k, F
<1>9. CASE a # NoItem
  <2> DEFINE s == q.sendlist.item[a].data
             m == l.req[s].buf
             new == AP_list_delete_item(q.sendlist, a)
             comm == [l.comm EXCEPT ![c] = [q EXCEPT !.sendlist = new]]
             req == [[l.req EXCEPT ![h] = Received(l.req[h], l.req[s].tag)] EXCEPT ![s].complete = 1]
             mem == [l.mem EXCEPT ![b] = m]
             items == [l.items EXCEPT ![b] = RecvCount(tag)]
  <2>1. Posts(x, l, comm, req, mem, items)
    <3>1. s = q.sendlist.item[FindSend(l, c, tag)].data
      OBVIOUS
    <3> QED BY <1>1, <1>2, <1>9, <3>1, IrecvCompletes, Zenon
  <2>2. m = u[s].id /\ m \in 1 .. MaxPosts
    <3>1. PICK s0, i : SendFound(l, u, g, c, tag, s0, i)
      BY <1>9, SendIsFound
    <3>2. s = s0 /\ s0 \in Open(l.req, u, Posted(g, "send"), "send", num) /\ "send" \in Kinds
      BY <3>1 DEF SendFound, Posted, Kinds
    <3>3. OpenRequest(l, u, g, "send", num, s)
      BY <3>2, OpenFacts
    <3> HIDE DEF s
    <3> QED BY <3>3 DEF OpenRequest
  <2>3. LeastOf(F, u[s].id)
    BY <1>4, <1>9 DEF Finds
  <2>4. mem = [l.mem EXCEPT ![b] = m] /\ u[s].id = m
    BY <2>2
  <2>5. l.mem[b] = 0
    BY <1>1, <1>5 DEF BuffersOK
  <2> HIDE DEF new, x, req, mem, items, m, s
  <2>6. Relisted(comm, l.comm, c, new, q.recvlist)
    BY <1>1, SetSendList DEF comm, q
  <2>7. x.comm = comm /\ x.mem = mem
    BY <2>1 DEF Posts
  <2> HIDE DEF comm
  <2>8. SameComms(x, l)
    BY <2>6, <2>7 DEF Relisted, SameComms
  <2>9. Pairs(mem) = Pairs(l.mem) \cup {<<m, b>>}
    <3>1. /\ l.mem \in [1 .. MaxPosts -> 0 .. MaxPosts] /\ b \in 1 .. MaxPosts /\ m \in 1 .. MaxPosts
          /\ l.mem[b] = 0 /\ mem = [l.mem EXCEPT ![b] = m]
      BY <1>2, <1>5, <2>2, <2>4, <2>5
    <3> HIDE DEF h, v, q, num, a, F, e, k
    <3> QED BY <3>1, PairsGrow
  <2>10. Gains(x.mem, l.mem)
    BY <1>2, <1>5, <2>2, <2>4, <2>5, <2>7, MovedGrow
  <2>11. RecvMeets(x.mem, l.mem, F, b)
    BY <2>3, <2>4, <2>7, <2>9 DEF RecvMeets
  <2> HIDE DEF v, k, F
  <2>12. Matches(x, v, k, l, Matching!WithRecv(Seen(l, g), Posting(num, tag)))
    BY <1>7, <2>8, <2>10, <2>11 DEF x
  <2> QED BY <2>12 DEF x, v, k, F
<1> QED BY <1>8, <1>9

LEMMA QuietSeen ==
  ASSUME NEW x, NEW l, Quiet(x, l), NEW g
  PROVE  Seen(x, g) = Seen(l, g)
BY DEF Quiet, Seen

\* Only requests that are complete are no longer held.
Drops(v, u, l) == \A h \in DOMAIN u : \/ l.req[h].complete = 1
                                      \/ h \in DOMAIN v /\ v[h] = u[h]

LEMMA AwaitedFewer ==
  ASSUME NEW l, NEW u, NEW g, Sane(l, u, g), Awaited(l, u, g), NEW x, Quiet(x, l),
         NEW v, Drops(v, u, l)
  PROVE  Awaited(x, v, g)
<1>1. Gains(x.mem, l.mem) /\ FewerComms(x, l)
  BY DEF Quiet, Gains, FewerComms
<1>2. Keeps(v, u, x.mem)
  <2> SUFFICES ASSUME NEW h \in DOMAIN u, l.req[h].complete = 1
               PROVE  u[h].id = 0 \/ Moved(l.mem, u[h])
    BY DEF Quiet, Drops, Keeps
  <2>1. RequestOK(l.req[h], u[h], l.mem, g)
    BY DEF Sane, RequestsOK
  <2> QED BY <2>1 DEF RequestOK
<1>3. HasNew(g, g, v)
  BY DEF HasNew
<1> QED BY <1>1, <1>2, <1>3, AwaitedStep

\* A wait that does not give up keeps what is awaited.
Waits(x, l, v, g) == Quiet(x, l) /\ (x.abort = "" => Awaited(x, v, g))

LEMMA TestWaits ==
  ASSUME NEW l, NEW u, NEW g, Sane(l, u, g), Awaited(l, u, g),
         NEW h \in DOMAIN u \cup {MPI_REQUEST_NULL},
         NEW v, v = IF Flag(l, h) THEN Without(u, h) ELSE u
  PROVE  Waits(MPI_Test(l, h), l, v, g)
<1>1. TablesOK(l) /\ DOMAIN u \subseteq AllItems \ {NULL}
  BY DEF Sane, Kept
<1>2. Quiet(MPI_Test(l, h), l)
  BY <1>1, WaitQuiet
<1>3. Drops(v, u, l)
  <2>1. CASE Flag(l, h)
    <3>1. DOMAIN v = DOMAIN u \ {h} /\ \A j \in DOMAIN v : v[j] = u[j]
      BY <2>1 DEF Without
    <3>2. h = MPI_REQUEST_NULL \/ l.req[h].complete = 1
      BY <2>1 DEF Flag
    <3>3. MPI_REQUEST_NULL \notin DOMAIN u
      BY <1>1 DEF NULL, MPI_REQUEST_NULL
    <3> QED BY <3>1, <3>2, <3>3 DEF Drops
  <2>2. CASE ~Flag(l, h)
    BY <2>2 DEF Drops
  <2> QED BY <2>1, <2>2
<1> HIDE DEF Quiet, Drops
<1> QED BY <1>2, <1>3, AwaitedFewer DEF Waits

LEMMA WaitWaits ==
  ASSUME NEW l, NEW u, NEW g, Sane(l, u, g), Awaited(l, u, g),
         NEW h \in DOMAIN u \cup {MPI_REQUEST_NULL}, NEW v, v = Without(u, h)
  PROVE  Waits(MPI_Wait(l, h), l, v, g)
<1>1. CASE Flag(l, h)
  <2>1. MPI_Wait(l, h) = MPI_Test(l, h)
    BY <1>1 DEF MPI_Wait
  <2> QED BY <1>1, <2>1, TestWaits
<1>2. CASE ~Flag(l, h)
  <2> DEFINE x == [l EXCEPT !.abort = "deadlock"]
  <2>1. MPI_Wait(l, h) = x /\ x = [l EXCEPT !.abort = "deadlock"]
    BY <1>2 DEF MPI_Wait
  <2>2. TablesOK(l)
    BY DEF Sane, Kept
  <2> HIDE DEF x
  <2>3. Quiet(x, l) /\ x.abort = "deadlock"
    BY <2>1, <2>2, AbortQuiet
  <2> QED BY <2>1, <2>3 DEF Waits
<1> QED BY <1>1, <1>2

\* The first wait of two has ended in x, the second in y.
LEMMA TwoWaits ==
  ASSUME NEW l, NEW u, NEW g, Sane(l, u, g), Awaited(l, u, g), l.initialized,
         NEW i \in DOMAIN u \cup {MPI_REQUEST_NULL}, NEW j \in DOMAIN u \cup {MPI_REQUEST_NULL},
         i # j, NEW x, x = MPI_Wait(l, i), NEW y, y = ThenWait(x, j),
         NEW v, v = Without(u, i), NEW w, w = Without(v, j)
  PROVE  Waits(y, l, w, g)
<1>1. Waits(x, l, v, g)
  BY WaitWaits
<1>2. CASE x.abort # ""
  <2>1. y = x
    BY <1>2 DEF ThenWait
  <2> QED BY <1>1, <1>2, <2>1 DEF Waits
<1>3. CASE x.abort = ""
  <2>1. Sane(x, v, g)
    <3>1. Goes(x, u, v, g)
      BY WaitGoes
    <3> QED BY <1>3, <3>1 DEF Goes
  <2>2. Awaited(x, v, g)
    BY <1>1, <1>3 DEF Waits
  <2>3. y = MPI_Wait(x, j)
    BY <1>3 DEF ThenWait
  <2>4. j \in DOMAIN v \cup {MPI_REQUEST_NULL}
    BY DEF Without
  <2>5. Waits(y, x, w, g)
    BY <2>1, <2>2, <2>3, <2>4, WaitWaits
  <2> QED BY <1>1, <2>5 DEF Waits, Quiet
<1> QED BY <1>2, <1>3

LEMMA WaitallWaits ==
  ASSUME NEW l, NEW u, NEW g, Sane(l, u, g), Awaited(l, u, g), l.initialized,
         NEW hs \in [{1, 2} -> DOMAIN u \cup {MPI_REQUEST_NULL}], hs[1] # hs[2]
  PROVE  Waits(MPI_Waitall(l, hs), l, LeftOf(u, Range(hs)), g)
<1> DEFINE x == MPI_Wait(l, hs[1])
           y == ThenWait(x, hs[2])
           v == Without(u, hs[1])
           w == Without(v, hs[2])
<1>1. /\ Len(hs) = 2 /\ Range(hs) = {hs[1], hs[2]}
      /\ hs[1] \in DOMAIN u \cup {MPI_REQUEST_NULL} /\ hs[2] \in DOMAIN u \cup {MPI_REQUEST_NULL}
  BY ArrayOfTwo
<1>2. w = LeftOf(u, Range(hs))
  <2>1. w = LeftOf(u, {hs[1], hs[2]})
    <3>1. ASSUME NEW i, NEW j
          PROVE  Without(Without(u, i), j) = LeftOf(u, {i, j})
      BY WithoutTwo
    <3> QED BY <3>1, Zenon
  <2>2. {hs[1], hs[2]} = Range(hs)
    BY <1>1
  <2> HIDE DEF w
  <2> QED BY <2>1, <2>2
<1>3. l.abort = ""
  BY DEF Sane
<1>4. MPI_Waitall(l, hs) = y
  BY <1>1, <1>3, WaitallOfTwo DEF ThenWait
<1> DEFINE i == hs[1]
           j == hs[2]
<1>5. /\ i \in DOMAIN u \cup {MPI_REQUEST_NULL} /\ j \in DOMAIN u \cup {MPI_REQUEST_NULL} /\ i # j
      /\ x = MPI_Wait(l, i) /\ y = ThenWait(x, j) /\ v = Without(u, i) /\ w = Without(v, j)
  BY <1>1
<1> HIDE DEF x, y, v, w, i, j
<1>6. Waits(y, l, w, g)
  BY <1>5, TwoWaits
<1> QED BY <1>2, <1>4, <1>6

LEMMA WaitanyWaits ==
  ASSUME NEW l, NEW u, NEW g, Sane(l, u, g), Awaited(l, u, g),
         NEW hs \in [{1, 2} -> DOMAIN u \cup {MPI_REQUEST_NULL}],
         NEW v, v = Without(u, hs[FirstComplete(l, hs)])
  PROVE  Waits(MPI_Waitany(l, hs), l, v, g)
<1> DEFINE I == {i \in 1 .. Len(hs) : Flag(l, hs[i])}
           i == FirstComplete(l, hs)
           x == [l EXCEPT !.abort = "deadlock"]
<1>1. i = IF I # {} THEN Min(I) ELSE 0
  BY DEF FirstComplete, SelectInSeq
<1>2. Len(hs) = 2
  BY ArrayOfTwo
<1>3. CASE I = {}
  <2>1. MPI_Waitany(l, hs) = x /\ x = [l EXCEPT !.abort = "deadlock"]
    BY <1>1, <1>3 DEF MPI_Waitany
  <2>2. TablesOK(l)
    BY DEF Sane, Kept
  <2> HIDE DEF x
  <2>3. Quiet(x, l) /\ x.abort = "deadlock"
    BY <2>1, <2>2, AbortQuiet
  <2> QED BY <2>1, <2>3 DEF Waits
<1>4. CASE I # {}
  <2>1. \E x1 \in I : \A x2 \in I : x1 <= x2
    <3>1. I \subseteq Nat
      BY <1>2
    <3> HIDE DEF I
    <3> QED BY <3>1, <1>4, LeastNumber
  <2>2. Min(I) \in I
    <3> HIDE DEF I
    <3> QED BY <2>1, Zenon DEF Min
  <2>3. i \in {1, 2} /\ Flag(l, hs[i])
    BY <1>1, <1>2, <1>4, <2>2
  <2> HIDE DEF i, I
  <2>4. MPI_Waitany(l, hs) = MPI_Test(l, hs[i])
    BY <2>3 DEF MPI_Waitany, i
  <2>5. hs[i] \in DOMAIN u \cup {MPI_REQUEST_NULL}
    BY <2>3
  <2>6. v = IF Flag(l, hs[i]) THEN Without(u, hs[i]) ELSE u
    BY <2>3 DEF i
  <2>7. Waits(MPI_Test(l, hs[i]), l, v, g)
    BY <2>5, <2>6, TestWaits
  <2> QED BY <2>4, <2>7
<1> QED BY <1>3, <1>4

\* A call that got a handle and of which k and new are the new log and the new
\* matching; when it goes on, the program holds v.
Ended(x, l, v, k, new) == /\ Seen(x, k) = new /\ SameComms(x, l)
                          /\ x.abort = "" => Awaited(x, v, k)

LEMMA QuietEnded ==
  ASSUME NEW l, NEW x, NEW v, NEW k, NEW new, Matches(x, v, k, l, new),
         NEW y, NEW w, Waits(y, x, w, k)
  PROVE  Ended(y, l, w, k, new)
<1>1. Seen(y, k) = Seen(x, k)
  BY QuietSeen DEF Waits
<1>2. SameComms(y, l)
  BY DEF Matches, Waits, Quiet, SameComms
<1> QED BY <1>1, <1>2 DEF Matches, Ended, Waits

\* A post in x whose request is waited for at once.
LEMMA PostEnded ==
  ASSUME NEW l, NEW u, NEW g, Sane(l, u, g), NEW x, NEW h, h \notin DOMAIN u, NEW e,
         NEW v, v = With(u, h, e), NEW k, Sane(x, v, k), NEW new, Matches(x, v, k, l, new),
         NEW y, y = ThenWait(x, h)
  PROVE  Ended(y, l, u, k, new)
<1>1. u = [j \in DOMAIN u |-> u[j]]
  BY DEF Sane, HeldOK
<1>2. u = Without(v, h)
  BY <1>1, WithoutWith
<1>3. h \in DOMAIN v \cup {MPI_REQUEST_NULL} /\ Awaited(x, v, k) /\ x.abort = ""
  BY DEF With, Matches, Sane
<1>4. y = MPI_Wait(x, h)
  BY <1>3 DEF ThenWait
<1>5. Waits(y, x, u, k)
  <2>1. Waits(MPI_Wait(x, h), x, u, k)
    BY <1>2, <1>3, WaitWaits
  <2> QED BY <1>4, <2>1
<1> QED BY <1>5, QuietEnded

LEMMA SendEnded ==
  ASSUME NEW l, NEW u, NEW g, Sane(l, u, g), Awaited(l, u, g), l.initialized, ~Full(l.pool),
         NEW c \in DOMAIN l.comm, NEW tag \in Tags,
         Len(g.sends) + Len(g.recvs) + 1 <= MaxPosts, NEW m, m = Len(g.sends) + 1
  PROVE  Ended(MPI_Send(l, c, m, tag), l, u, Sent(l, g, c, tag),
               Matching!WithSend(Seen(l, g), Posting(l.comm[c].num, tag)))
<1> DEFINE h == AllocatedHandle(l.pool)
           e == [kind |-> "send", id |-> m]
           v == With(u, h, e)
           k == Sent(l, g, c, tag)
           x == MPI_Isend(l, c, m, tag)
           y == MPI_Send(l, c, m, tag)
           new == Matching!WithSend(Seen(l, g), Posting(l.comm[c].num, tag))
<1>1. Sane(x, v, k) /\ h \notin DOMAIN u
  <2>1. Outcome(x, l, u, g, "send", m, k)
    BY IsendOutcome
  <2> QED BY <2>1 DEF Outcome
<1>2. Matches(x, v, k, l, new)
  BY IsendMatches
<1>3. y = Then(x, LAMBDA z : MPI_Wait(z, h)) /\ v = With(u, h, e)
  BY DEF MPI_Send
<1> HIDE DEF h, e, v, k, x, y, new
<1>4. y = ThenWait(x, h)
  BY <1>3, Zenon DEF Then, ThenWait
<1>5. Ended(y, l, u, k, new)
  BY <1>1, <1>2, <1>3, <1>4, PostEnded
<1> QED BY <1>5 DEF y, k, new

LEMMA RecvEnded ==
  ASSUME NEW l, NEW u, NEW g, Sane(l, u, g), Awaited(l, u, g), l.initialized, ~Full(l.pool),
         NEW c \in DOMAIN l.comm, NEW tag \in Tags \cup {ANY_TAG},
         Len(g.sends) + Len(g.recvs) + 1 <= MaxPosts, NEW b, b = Len(g.recvs) + 1
  PROVE  Ended(MPI_Recv(l, c, b, tag), l, u, Asked(l, g, c, tag),
               Matching!WithRecv(Seen(l, g), Posting(l.comm[c].num, tag)))
<1> DEFINE h == AllocatedHandle(l.pool)
           e == [kind |-> "recv", id |-> b]
           v == With(u, h, e)
           k == Asked(l, g, c, tag)
           x == MPI_Irecv(l, c, b, tag)
           y == MPI_Recv(l, c, b, tag)
           new == Matching!WithRecv(Seen(l, g), Posting(l.comm[c].num, tag))
<1>1. Sane(x, v, k) /\ h \notin DOMAIN u
  <2>1. Outcome(x, l, u, g, "recv", b, k)
    BY IrecvOutcome
  <2> QED BY <2>1 DEF Outcome
<1>2. Matches(x, v, k, l, new)
  BY IrecvMatches
<1>3. y = Then(x, LAMBDA z : MPI_Wait(z, h)) /\ v = With(u, h, e)
  BY DEF MPI_Recv
<1> HIDE DEF h, e, v, k, x, y, new
<1>4. y = ThenWait(x, h)
  BY <1>3, Zenon DEF Then, ThenWait
<1>5. Ended(y, l, u, k, new)
  BY <1>1, <1>2, <1>3, <1>4, PostEnded
<1> QED BY <1>5 DEF y, k, new

LEMMA IrsendEnded ==
  ASSUME NEW l, NEW u, NEW g, Sane(l, u, g), Awaited(l, u, g), l.initialized, ~Full(l.pool),
         NEW c \in DOMAIN l.comm, NEW tag \in Tags,
         Len(g.sends) + Len(g.recvs) + 1 <= MaxPosts, NEW m, m = Len(g.sends) + 1
  PROVE  Ended(MPI_Irsend(l, c, m, tag), l,
               With(u, AllocatedHandle(l.pool), [kind |-> "send", id |-> m]),
               Sent(l, g, c, tag),
               Matching!WithSend(Seen(l, g), Posting(l.comm[c].num, tag)))
<1> DEFINE h == AllocatedHandle(l.pool)
           v == With(u, h, [kind |-> "send", id |-> m])
           k == Sent(l, g, c, tag)
           x == MPI_Isend(l, c, m, tag)
           y == MPI_Irsend(l, c, m, tag)
           z == [x EXCEPT !.abort = "not ready"]
           new == Matching!WithSend(Seen(l, g), Posting(l.comm[c].num, tag))
<1>1. Sane(x, v, k)
  <2>1. Outcome(x, l, u, g, "send", m, k)
    BY IsendOutcome
  <2> QED BY <2>1 DEF Outcome
<1>2. Matches(x, v, k, l, new)
  BY IsendMatches
<1>3. y = Then(x, LAMBDA d : IF d.req[h].complete = 1 THEN d ELSE [d EXCEPT !.abort = "not ready"])
      /\ z = [x EXCEPT !.abort = "not ready"]
  BY DEF MPI_Irsend
<1> HIDE DEF h, v, k, x, y, new
<1>4. y = x \/ y = z
  <2>1. x.abort = ""
    BY <1>1 DEF Sane
  <2> QED BY <1>3, <2>1, Zenon DEF Then
<1> HIDE DEF z
<1>5. Quiet(z, x) /\ z.abort = "not ready"
  <2>1. TablesOK(x)
    BY <1>1 DEF Sane, Kept
  <2> QED BY <1>3, <2>1, AbortQuiet
<1>6. Waits(y, x, v, k)
  BY <1>2, <1>4, <1>5 DEF Waits, Quiet, Matches
<1>7. Ended(y, l, v, k, new)
  BY <1>2, <1>6, QuietEnded
<1> QED BY <1>7 DEF y, v, h, k, new

\* The receive of a sendrecv is posted; its send may find no item.
EndedTwice(x, u, k, new, k2, new2) ==
  \/ x.abort = "handles" /\ Seen(x, k) = new
  \/ x.abort # "handles" /\ Seen(x, k2) = new2 /\ (x.abort = "" => Awaited(x, u, k2))

LEMMA SendrecvEnded ==
  ASSUME NEW l, NEW u, NEW g, Sane(l, u, g), Awaited(l, u, g), l.initialized, ~Full(l.pool),
         NEW c \in DOMAIN l.comm, NEW tag \in Tags, NEW recvtag \in Tags \cup {ANY_TAG},
         Len(g.sends) + Len(g.recvs) + 2 <= MaxPosts,
         NEW m, m = Len(g.sends) + 1, NEW b, b = Len(g.recvs) + 1,
         NEW new, new = Matching!WithRecv(Seen(l, g), Posting(l.comm[c].num, recvtag)),
         NEW new2, new2 = Matching!WithSend(new, Posting(l.comm[c].num, tag))
  PROVE  EndedTwice(MPI_Sendrecv(l, c, m, tag, b, recvtag), u, Asked(l, g, c, recvtag), new,
                    Sent(l, Asked(l, g, c, recvtag), c, tag), new2)
<1> DEFINE h == AllocatedHandle(l.pool)
           e == [kind |-> "recv", id |-> b]
           v == With(u, h, e)
           k == Asked(l, g, c, recvtag)
           k2 == Sent(l, k, c, tag)
           x == MPI_Irecv(l, c, b, recvtag)
           x2 == Then(x, LAMBDA z : MPI_Send(z, c, m, tag))
           y == MPI_Sendrecv(l, c, m, tag, b, recvtag)
<1>1. /\ Len(g.sends) \in Nat /\ Len(g.recvs) \in Nat
      /\ g \in [sends : {g.sends}, recvs : {g.recvs}] /\ g.recvs \in Seq(
            [comm : 0 .. l.num - 1, tag : Tags \cup {ANY_TAG}])
      /\ Len(g.sends) + Len(g.recvs) + 1 <= MaxPosts
  <2>1. LogOK(l, g) /\ TablesOK(l)
    BY DEF Sane, Kept
  <2>2. Len(g.sends) \in Nat /\ Len(g.recvs) \in Nat /\ MaxPosts \in Nat
    BY <2>1, LogTypes
  <2> DEFINE p == Len(g.sends)
             n == Len(g.recvs)
  <2>3. p \in Nat /\ n \in Nat /\ p + n + 2 <= MaxPosts
    BY <2>2
  <2> HIDE DEF p, n
  <2>4. p + n + 1 <= MaxPosts
    BY <2>2, <2>3
  <2> QED BY <2>1, <2>2, <2>4 DEF LogOK, p, n
<1>2. Sane(x, v, k) /\ x.initialized /\ h \notin DOMAIN u
  <2>1. Outcome(x, l, u, g, "recv", b, k)
    BY <1>1, IrecvOutcome
  <2> QED BY <2>1 DEF Outcome
<1>3. Matches(x, v, k, l, new)
  BY <1>1, IrecvMatches
<1>4. y = Then(x2, LAMBDA z : MPI_Wait(z, h))
  BY DEF MPI_Sendrecv
<1>5. m = Len(k.sends) + 1 /\ Len(k.sends) + Len(k.recvs) + 1 <= MaxPosts
  <2>1. k.sends = g.sends /\ Len(k.recvs) = Len(g.recvs) + 1
    BY <1>1 DEF Asked
  <2> HIDE DEF k
  <2> DEFINE p == Len(g.sends)
             n == Len(g.recvs)
  <2>2. p \in Nat /\ n \in Nat /\ p + n + 2 <= MaxPosts /\ MaxPosts \in Nat
    BY <1>1, MessagesAssumption
  <2> HIDE DEF p, n
  <2>3. p + (n + 1) + 1 <= MaxPosts
    BY <2>2
  <2> QED BY <2>1, <2>3 DEF p, n
<1>6. h \in DOMAIN v /\ Without(v, h) = u
  <2>1. u = [j \in DOMAIN u |-> u[j]]
    BY DEF Sane, HeldOK
  <2>2. h \in DOMAIN v
    BY DEF With
  <2> HIDE DEF e
  <2> QED BY <1>2, <2>1, <2>2, WithoutWith
<1>7. c \in DOMAIN x.comm /\ x.comm[c].num = l.comm[c].num
  BY <1>3 DEF Matches, SameComms
<1>8. k2 = Sent(x, k, c, tag)
  <2> HIDE DEF k, x
  <2> QED BY <1>7 DEF Sent
<1>9. x2 = MPI_Send(x, c, m, tag)
  <2>1. x.abort = ""
    BY <1>2 DEF Sane
  <2> HIDE DEF x
  <2> QED BY <2>1, Zenon DEF Then
<1> HIDE DEF k, k2, x, e, x2, v, h, y
<1>10. Ends(x2, x, v, v, k2)
  BY <1>2, <1>5, <1>7, <1>8, <1>9, SendGoes
<1>11. Awaited(x, v, k) /\ Seen(x, k) = new
  BY <1>3 DEF Matches
<1>12. CASE Full(x.pool)
  <2>1. x2 = [x EXCEPT !.abort = "handles"]
    BY <1>10, <1>12 DEF Ends
  <2>2. TablesOK(x)
    BY <1>2 DEF Sane, Kept
  <2>3. Quiet(x2, x) /\ x2.abort = "handles"
    BY <2>1, <2>2, AbortQuiet
  <2>4. y = x2
    BY <1>4, <2>3, Zenon DEF Then
  <2>5. Seen(y, k) = new
    BY <1>11, <2>3, <2>4, QuietSeen
  <2>6. EndedTwice(y, u, k, new, k2, new2)
    BY <2>3, <2>4, <2>5 DEF EndedTwice
  <2> QED BY <2>6 DEF y, k, k2
<1>13. CASE ~Full(x.pool)
  <2>1. Goes(x2, v, v, k2)
    BY <1>10, <1>13 DEF Ends
  <2>2. Seen(x2, k2) = new2 /\ (x2.abort = "" => Awaited(x2, v, k2))
    <3>1. Ended(MPI_Send(x, c, m, tag), x, v, Sent(x, k, c, tag),
                Matching!WithSend(Seen(x, k), Posting(x.comm[c].num, tag)))
      BY <1>2, <1>5, <1>7, <1>11, <1>13, SendEnded
    <3>2. Ended(x2, x, v, k2, new2)
      BY <1>7, <1>8, <1>9, <1>11, <3>1
    <3> QED BY <3>2 DEF Ended
  <2>3. CASE x2.abort # ""
    <3>1. y = x2
      BY <1>4, <2>3, Zenon DEF Then
    <3>2. x2.abort # "handles"
      BY <2>1 DEF Goes, Sane
    <3>3. EndedTwice(y, u, k, new, k2, new2)
      BY <2>2, <2>3, <3>1, <3>2 DEF EndedTwice
    <3> QED BY <3>3 DEF y, k, k2
  <2>4. CASE x2.abort = ""
    <3>1. y = MPI_Wait(x2, h)
      BY <1>4, <2>4, Zenon DEF Then
    <3>2. Sane(x2, v, k2) /\ x2.initialized /\ Awaited(x2, v, k2)
      BY <2>1, <2>2, <2>4 DEF Goes
    <3>3. Goes(y, v, Without(v, h), k2) /\ Waits(y, x2, u, k2)
      BY <1>6, <3>1, <3>2, WaitGoes, WaitWaits
    <3>4. y.abort # "handles"
      BY <3>3 DEF Goes, Sane
    <3>5. Seen(y, k2) = new2 /\ (y.abort = "" => Awaited(y, u, k2))
      BY <2>2, <3>3, QuietSeen DEF Waits
    <3>6. EndedTwice(y, u, k, new, k2, new2)
      BY <3>4, <3>5 DEF EndedTwice
    <3> QED BY <3>6 DEF y, k, k2
  <2> QED BY <2>3, <2>4
<1> QED BY <1>12, <1>13

\* The other calls keep what is awaited, as long as they go on.
Stays(x, l, u, g) == x.mem = l.mem /\ (x.abort = "" => Awaited(x, u, g))

LEMMA NullWaits ==
  ASSUME NEW l, NEW u, NEW g, Sane(l, u, g), Awaited(l, u, g), ~Full(l.pool),
         NEW kind, NEW v, v = With(u, AllocatedHandle(l.pool), [kind |-> kind, id |-> 0]),
         l.initialized
  PROVE  Waits(IsendNull(l), l, v, g) /\ Waits(IrecvNull(l), l, v, g)
<1> DEFINE h == AllocatedHandle(l.pool)
<1>1. Shape(l) /\ l.abort = ""
  BY DEF Sane, Kept, TablesOK
<1>2. Quiet(IsendNull(l), l) /\ Quiet(IrecvNull(l), l)
  BY <1>1, NullPosts DEF Posts, Quiet
<1>3. Drops(v, u, l)
  <2>1. h \notin DOMAIN u
    BY NewHandle
  <2> QED BY <2>1 DEF Drops, With
<1>4. Awaited(IsendNull(l), v, g)
  BY <1>2, <1>3, AwaitedFewer
<1>5. Awaited(IrecvNull(l), v, g)
  BY <1>2, <1>3, AwaitedFewer
<1> QED BY <1>2, <1>4, <1>5 DEF Waits

\* Nothing was posted on a communicator that is new.
LEMMA CommsStay ==
  ASSUME NEW l, NEW u, NEW g, Sane(l, u, g), Awaited(l, u, g), NEW x, x.mem = l.mem,
         FewerComms(x, l)
  PROVE  Stays(x, l, u, g)
<1>1. Gains(x.mem, l.mem) /\ Keeps(u, u, x.mem) /\ HasNew(g, g, u)
  BY DEF Gains, Keeps, HasNew
<1>2. Awaited(x, u, g)
  BY <1>1, AwaitedStep
<1> QED BY <1>2 DEF Stays

LEMMA OpenedStays ==
  ASSUME NEW l, NEW u, NEW g, Sane(l, u, g), Awaited(l, u, g), NEW x, NEW h, Opened(x, l, h)
  PROVE  Stays(x, l, u, g)
<1>1. x.mem = l.mem /\ x.comm = With(l.comm, h, NewComm(l))
  BY DEF Opened
<1>2. FewerComms(x, l)
  BY <1>1 DEF FewerComms, With, NewComm
<1> QED BY <1>1, <1>2, CommsStay

LEMMA CommNewStays ==
  ASSUME NEW l, NEW u, NEW g, Sane(l, u, g), Awaited(l, u, g), l.initialized
  PROVE  Stays(mpi_comm_new(l), l, u, g)
<1>1. CASE Full(l.pool)
  <2> DEFINE x == [l EXCEPT !.abort = "handles"]
  <2>1. TablesOK(l) /\ Shape(l) /\ l.abort = "" /\ x = [l EXCEPT !.abort = "handles"]
    BY DEF Sane, Kept, TablesOK
  <2> HIDE DEF x
  <2>2. mpi_comm_new(l) = x
    BY <1>1, <2>1, NoHandle
  <2>3. Quiet(x, l) /\ x.abort = "handles"
    BY <2>1, AbortQuiet
  <2> QED BY <2>2, <2>3 DEF Stays, Quiet
<1>2. CASE ~Full(l.pool)
  BY <1>2, NewOpens, OpenedStays
<1> QED BY <1>1, <1>2

LEMMA CommFreeStays ==
  ASSUME NEW l, NEW u, NEW g, Sane(l, u, g), Awaited(l, u, g), NEW c \in DOMAIN l.comm
  PROVE  Stays(MPI_Comm_free(l, c), l, u, g)
<1> DEFINE x == MPI_Comm_free(l, c)
           y == mpi_free_handle(l, c)
<1>1. Shape(l) /\ CommsOK(l)
  BY DEF Sane, Kept, TablesOK
<1>2. Shape(y) /\ y.comm = l.comm /\ y.mem = l.mem
  BY <1>1, FreeEffect
<1>3. Freeable(l.comm[c].sendlist) /\ Freeable(l.comm[c].recvlist)
  <2>1. ListOK(l.comm[c].sendlist) /\ ListOK(l.comm[c].recvlist)
    BY <1>1 DEF CommsOK
  <2> QED BY <2>1 DEF ListOK, IsList, Freeable
<1>4. x = [y EXCEPT !.comm = Without(@, c)]
  BY <1>3 DEF MPI_Comm_free
<1> HIDE DEF x, y
<1>5. x.comm = Without(l.comm, c) /\ x.mem = l.mem
  BY <1>2, <1>4 DEF Shape
<1>6. FewerComms(x, l)
  BY <1>5 DEF Without, FewerComms
<1> QED BY <1>5, <1>6, CommsStay DEF x

LEMMA FinalizeStays ==
  ASSUME NEW l, NEW u, NEW g, Sane(l, u, g)
  PROVE  Stays(MPI_Finalize(l), l, <<>>, g)
<1> DEFINE x == MPI_Finalize(l)
<1>1. x.comm = <<>> /\ x.mem = l.mem
  BY DEF Sane, Kept, TablesOK, Shape, MPI_Finalize
<1>2. DOMAIN x.comm = {}
  BY <1>1
<1> HIDE DEF x
<1>3. Awaited(x, <<>>, g)
  BY <1>2 DEF Awaited
<1> QED BY <1>1, <1>3 DEF x, Stays

-----------------------------------------------------------------------------
(* In every step.                                                          *)

\* Everything that can still be matched has a request.
Awaiting == lib.abort = "" => Awaited(lib, user, log)

\* A step of the abstract specification, or none.
Step(new, old) ==
  \/ new = old
  \/ \E s \in Matching!Sends : new = Matching!WithSend(old, s)
  \/ \E r \in Matching!Recvs : new = Matching!WithRecv(old, r)
  \/ \E s \in Matching!Sends, r \in Matching!Recvs :
       s.comm = r.comm /\ new = Matching!WithSend(Matching!WithRecv(old, r), s)

\* What a step of the library is to the abstract specification.
Refined == Awaiting' /\ Step(Seen(lib', log'), Seen(lib, log))

LEMMA Envelopes ==
  ASSUME NEW l, NEW u, NEW g, Sane(l, u, g), NEW c \in DOMAIN l.comm
  PROVE  /\ \A tag \in Tags : Posting(l.comm[c].num, tag) \in Matching!Sends
         /\ \A tag \in Tags \cup {ANY_TAG} : Posting(l.comm[c].num, tag) \in Matching!Recvs
<1> DEFINE num == l.comm[c].num
           n == l.num
<1>1. num \in 0 .. n - 1 /\ n \in 0 .. MaxComms /\ MaxComms \in Nat
  BY MessagesAssumption DEF Sane, Kept, CommsOK, TablesOK
<1> HIDE DEF num, n
<1>2. num \in 0 .. MaxComms - 1
  BY <1>1
<1>3. /\ \A tag \in Tags : Posting(num, tag) \in Matching!Sends
      /\ \A tag \in Tags \cup {ANY_TAG} : Posting(num, tag) \in Matching!Recvs
  BY <1>2 DEF Posting, Matching!Sends, Matching!Recvs
<1> QED BY <1>3 DEF num

LEMMA QuietRefined ==
  ASSUME Seen(lib', log') = Seen(lib, log), lib'.abort # ""
  PROVE  Refined
BY DEF Refined, Awaiting, Step

LEMMA HandlesRefined ==
  ASSUME Sane(lib, user, log), lib' = [lib EXCEPT !.abort = "handles"], log' = log
  PROVE  Refined
<1>1. TablesOK(lib)
  BY DEF Sane, Kept
<1>2. Quiet(lib', lib) /\ lib'.abort = "handles"
  BY <1>1, AbortQuiet
<1>3. Seen(lib', log') = Seen(lib, log)
  BY <1>2, QuietSeen
<1> QED BY <1>2, <1>3, QuietRefined

LEMMA WaitsRefined ==
  ASSUME NEW v, Waits(lib', lib, v, log), log' = log, lib'.abort = "" => user' = v
  PROVE  Refined
<1>1. Seen(lib', log') = Seen(lib, log)
  BY QuietSeen DEF Waits
<1>2. Awaiting'
  BY DEF Waits, Awaiting
<1> QED BY <1>1, <1>2 DEF Refined, Step

LEMMA StaysRefined ==
  ASSUME NEW v, Stays(lib', lib, v, log), log' = log, user' = v
  PROVE  Refined
<1>1. Seen(lib', log') = Seen(lib, log)
  BY DEF Stays, Seen
<1>2. Awaiting'
  BY DEF Stays, Awaiting
<1> QED BY <1>1, <1>2 DEF Refined, Step

LEMMA EndedRefined ==
  ASSUME NEW v, NEW k, NEW new, Ended(lib', lib, v, k, new), Step(new, Seen(lib, log)),
         log' = k, lib'.abort = "" => user' = v
  PROVE  Refined
<1>1. Seen(lib', log') = new
  BY DEF Ended
<1>2. Awaiting'
  BY DEF Ended, Awaiting
<1> QED BY <1>1, <1>2 DEF Refined

\* A post that gets no handle, or is Ended.
LEMMA PostRefined ==
  ASSUME Sane(lib, user, log), NEW v, NEW k, NEW new, Step(new, Seen(lib, log)),
         Full(lib.pool) => lib' = [lib EXCEPT !.abort = "handles"],
         ~Full(lib.pool) => Ended(lib', lib, v, k, new) /\ lib'.abort # "handles",
         log' = IF lib'.abort = "handles" THEN log ELSE k, lib'.abort = "" => user' = v
  PROVE  Refined
<1>1. CASE Full(lib.pool)
  <2>1. TablesOK(lib)
    BY DEF Sane, Kept
  <2>2. lib'.abort = "handles"
    BY <1>1, <2>1, AbortQuiet
  <2>3. log' = log
    BY <2>2
  <2> QED BY <1>1, <2>3, HandlesRefined
<1>2. CASE ~Full(lib.pool)
  BY <1>2, EndedRefined
<1> QED BY <1>1, <1>2

LEMMA SendRefined ==
  ASSUME Sane(lib, user, log), Awaiting, lib.initialized, NEW c \in DOMAIN lib.comm,
         NEW tag \in Tags, CanPost(1), Isend(c, tag) \/ Irsend(c, tag) \/ Send(c, tag)
  PROVE  Refined
<1> DEFINE m == NextMessage
           h == AllocatedHandle(lib.pool)
           v == With(user, h, [kind |-> "send", id |-> m])
           k == Sent(lib, log, c, tag)
           new == Matching!WithSend(Seen(lib, log), Posting(lib.comm[c].num, tag))
<1>1. /\ Awaited(lib, user, log) /\ m = Len(log.sends) + 1
      /\ Len(log.sends) + Len(log.recvs) + 1 <= MaxPosts
  BY DEF Sane, Awaiting, CanPost, NextMessage
<1>2. log' = IF lib'.abort = "handles" THEN log ELSE k
  BY LogsPosts DEF Isend, Irsend, Send
<1>3. Step(new, Seen(lib, log))
  <2>1. Posting(lib.comm[c].num, tag) \in Matching!Sends
    BY Envelopes
  <2> QED BY <2>1 DEF Step
<1> HIDE DEF m, k, new
<1>4. CASE Isend(c, tag)
  <2>1. lib' = MPI_Isend(lib, c, m, tag) /\ Holds("send", m)
    BY <1>4 DEF Isend, m
  <2>2. Outcome(lib', lib, user, log, "send", m, k)
    BY <1>1, <2>1, IsendOutcome DEF k
  <2>3. Full(lib.pool) => lib' = [lib EXCEPT !.abort = "handles"]
    BY <2>2 DEF Outcome
  <2>4. ~Full(lib.pool) => Ended(lib', lib, v, k, new) /\ lib'.abort # "handles"
    <3>1. ~Full(lib.pool) => Matches(lib', v, k, lib, new)
      BY <1>1, <2>1, IsendMatches DEF k, new
    <3>2. ~Full(lib.pool) => lib'.abort = ""
      BY <2>2 DEF Outcome, Sane
    <3> QED BY <3>1, <3>2 DEF Matches, Ended
  <2>5. lib'.abort = "" => user' = v
    BY <2>1 DEF Holds
  <2> HIDE DEF v
  <2> QED BY <1>2, <1>3, <2>3, <2>4, <2>5, PostRefined
<1>5. CASE Irsend(c, tag)
  <2>1. lib' = MPI_Irsend(lib, c, m, tag) /\ Holds("send", m)
    BY <1>5 DEF Irsend, m
  <2>2. Ends(lib', lib, user, v, k)
    BY <1>1, <2>1, IrsendGoes DEF k
  <2>3. Full(lib.pool) => lib' = [lib EXCEPT !.abort = "handles"]
    BY <2>2 DEF Ends
  <2>4. ~Full(lib.pool) => Ended(lib', lib, v, k, new) /\ lib'.abort # "handles"
    <3>1. ~Full(lib.pool) => Ended(lib', lib, v, k, new)
      BY <1>1, <2>1, IrsendEnded DEF k, new
    <3>2. ~Full(lib.pool) => lib'.abort # "handles"
      BY <2>2 DEF Ends, Goes, Sane
    <3> QED BY <3>1, <3>2
  <2>5. lib'.abort = "" => user' = v
    BY <2>1 DEF Holds
  <2> HIDE DEF v
  <2> QED BY <1>2, <1>3, <2>3, <2>4, <2>5, PostRefined
<1>6. CASE Send(c, tag)
  <2>1. lib' = MPI_Send(lib, c, m, tag) /\ user' = user
    BY <1>6 DEF Send, m
  <2>2. Ends(lib', lib, user, user, k)
    BY <1>1, <2>1, SendGoes DEF k
  <2>3. Full(lib.pool) => lib' = [lib EXCEPT !.abort = "handles"]
    BY <2>2 DEF Ends
  <2>4. ~Full(lib.pool) => Ended(lib', lib, user, k, new) /\ lib'.abort # "handles"
    <3>1. ~Full(lib.pool) => Ended(lib', lib, user, k, new)
      BY <1>1, <2>1, SendEnded DEF k, new
    <3>2. ~Full(lib.pool) => lib'.abort # "handles"
      BY <2>2 DEF Ends, Goes, Sane
    <3> QED BY <3>1, <3>2
  <2> QED BY <1>2, <1>3, <2>1, <2>3, <2>4, PostRefined
<1> QED BY <1>4, <1>5, <1>6

LEMMA RecvRefined ==
  ASSUME Sane(lib, user, log), Awaiting, lib.initialized, NEW c \in DOMAIN lib.comm,
         NEW tag \in Tags \cup {ANY_TAG}, CanPost(1), Irecv(c, tag) \/ Recv(c, tag)
  PROVE  Refined
<1> DEFINE b == NextBuffer
           h == AllocatedHandle(lib.pool)
           v == With(user, h, [kind |-> "recv", id |-> b])
           k == Asked(lib, log, c, tag)
           new == Matching!WithRecv(Seen(lib, log), Posting(lib.comm[c].num, tag))
<1>1. /\ Awaited(lib, user, log) /\ b = Len(log.recvs) + 1
      /\ Len(log.sends) + Len(log.recvs) + 1 <= MaxPosts
  BY DEF Sane, Awaiting, CanPost, NextBuffer
<1>2. log' = IF lib'.abort = "handles" THEN log ELSE k
  BY LogsPosts DEF Irecv, Recv
<1>3. Step(new, Seen(lib, log))
  <2>1. Posting(lib.comm[c].num, tag) \in Matching!Recvs
    BY Envelopes
  <2> QED BY <2>1 DEF Step
<1> HIDE DEF b, k, new
<1>4. CASE Irecv(c, tag)
  <2>1. lib' = MPI_Irecv(lib, c, b, tag) /\ Holds("recv", b)
    BY <1>4 DEF Irecv, b
  <2>2. Outcome(lib', lib, user, log, "recv", b, k)
    BY <1>1, <2>1, IrecvOutcome DEF k
  <2>3. Full(lib.pool) => lib' = [lib EXCEPT !.abort = "handles"]
    BY <2>2 DEF Outcome
  <2>4. ~Full(lib.pool) => Ended(lib', lib, v, k, new) /\ lib'.abort # "handles"
    <3>1. ~Full(lib.pool) => Matches(lib', v, k, lib, new)
      BY <1>1, <2>1, IrecvMatches DEF k, new
    <3>2. ~Full(lib.pool) => lib'.abort = ""
      BY <2>2 DEF Outcome, Sane
    <3> QED BY <3>1, <3>2 DEF Matches, Ended
  <2>5. lib'.abort = "" => user' = v
    BY <2>1 DEF Holds
  <2> HIDE DEF v
  <2> QED BY <1>2, <1>3, <2>3, <2>4, <2>5, PostRefined
<1>5. CASE Recv(c, tag)
  <2>1. lib' = MPI_Recv(lib, c, b, tag) /\ user' = user
    BY <1>5 DEF Recv, b
  <2>2. Ends(lib', lib, user, user, k)
    BY <1>1, <2>1, RecvGoes DEF k
  <2>3. Full(lib.pool) => lib' = [lib EXCEPT !.abort = "handles"]
    BY <2>2 DEF Ends
  <2>4. ~Full(lib.pool) => Ended(lib', lib, user, k, new) /\ lib'.abort # "handles"
    <3>1. ~Full(lib.pool) => Ended(lib', lib, user, k, new)
      BY <1>1, <2>1, RecvEnded DEF k, new
    <3>2. ~Full(lib.pool) => lib'.abort # "handles"
      BY <2>2 DEF Ends, Goes, Sane
    <3> QED BY <3>1, <3>2
  <2> QED BY <1>2, <1>3, <2>1, <2>3, <2>4, PostRefined
<1> QED BY <1>4, <1>5

LEMMA SendrecvRefined ==
  ASSUME Sane(lib, user, log), Awaiting, lib.initialized, NEW c \in DOMAIN lib.comm,
         NEW tag \in Tags, NEW recvtag \in Tags \cup {ANY_TAG}, CanPost(2),
         Sendrecv(c, tag, recvtag)
  PROVE  Refined
<1> DEFINE m == NextMessage
           b == NextBuffer
           k == Asked(lib, log, c, recvtag)
           k2 == Sent(lib, k, c, tag)
           old == Seen(lib, log)
           r == Posting(lib.comm[c].num, recvtag)
           s == Posting(lib.comm[c].num, tag)
           new == Matching!WithRecv(old, r)
           new2 == Matching!WithSend(new, s)
<1>1. /\ Awaited(lib, user, log) /\ m = Len(log.sends) + 1 /\ b = Len(log.recvs) + 1
      /\ Len(log.sends) + Len(log.recvs) + 2 <= MaxPosts
  BY DEF Sane, Awaiting, CanPost, NextMessage, NextBuffer
<1>2. /\ lib' = MPI_Sendrecv(lib, c, m, tag, b, recvtag) /\ user' = user
      /\ log' = IF Full(lib.pool) THEN log ELSE IF lib'.abort = "handles" THEN k ELSE k2
  BY DEF Sendrecv, Envelope, Asked, Sent
<1>3. r \in Matching!Recvs /\ s \in Matching!Sends /\ s.comm = r.comm
  <2>1. s.comm = r.comm
    BY DEF Posting
  <2>2. r \in Matching!Recvs /\ s \in Matching!Sends
    BY Envelopes
  <2> QED BY <2>1, <2>2
<1>4. new = Matching!WithRecv(old, r) /\ new2 = Matching!WithSend(Matching!WithRecv(old, r), s)
  OBVIOUS
<1> HIDE DEF m, b, r, s, new, new2
<1>5. Step(new, old) /\ Step(new2, old)
  <2> HIDE DEF old
  <2>1. Step(new, old)
    BY <1>3, <1>4 DEF Step
  <2>2. Step(new2, old)
    BY <1>3, <1>4 DEF Step
  <2> QED BY <2>1, <2>2
<1>6. CASE Full(lib.pool)
  <2>1. EndsTwice(lib', lib, user, k, k2)
    BY <1>1, <1>2, SendrecvGoes
  <2>2. lib' = [lib EXCEPT !.abort = "handles"] /\ log' = log
    BY <1>2, <1>6, <2>1 DEF EndsTwice
  <2> QED BY <2>2, HandlesRefined
<1>7. CASE ~Full(lib.pool)
  <2>1. EndedTwice(lib', user, k, new, k2, new2)
    <3>1. new = Matching!WithRecv(Seen(lib, log), Posting(lib.comm[c].num, recvtag))
          /\ new2 = Matching!WithSend(new, Posting(lib.comm[c].num, tag))
      BY DEF new, new2, r, s
    <3> QED BY <1>1, <1>2, <1>7, <3>1, SendrecvEnded
  <2> HIDE DEF k, k2, old
  <2>2. \/ Seen(lib', log') = new /\ lib'.abort = "handles"
        \/ Seen(lib', log') = new2 /\ (lib'.abort = "" => Awaited(lib', user', log'))
    BY <1>2, <1>7, <2>1 DEF EndedTwice
  <2>3. Awaiting' /\ (Seen(lib', log') = new \/ Seen(lib', log') = new2)
    BY <2>2 DEF Awaiting
  <2> QED BY <1>5, <2>3 DEF Refined, old
<1> QED BY <1>6, <1>7

LEMMA NullRefined ==
  ASSUME Sane(lib, user, log), Awaiting, lib.initialized, SendNull \/ RecvNull
  PROVE  Refined
<1>1. Awaited(lib, user, log) /\ log' = log
  BY DEF Sane, Awaiting, SendNull, RecvNull
<1>2. ASSUME NEW CONSTANT kind, Holds(kind, 0), lib' = IsendNull(lib) \/ lib' = IrecvNull(lib)
      PROVE  Refined
  <2> DEFINE v == With(user, AllocatedHandle(lib.pool), [kind |-> kind, id |-> 0])
  <2>1. CASE Full(lib.pool)
    <3>1. lib' = [lib EXCEPT !.abort = "handles"]
      BY <1>2, <2>1, NullOutcome DEF Outcome
    <3> QED BY <1>1, <3>1, HandlesRefined
  <2>2. CASE ~Full(lib.pool)
    <3>1. Waits(IsendNull(lib), lib, v, log) /\ Waits(IrecvNull(lib), lib, v, log)
      BY <1>1, <2>2, NullWaits
    <3>2. lib'.abort = "" => user' = v
      BY <1>2 DEF Holds
    <3> HIDE DEF v
    <3>3. Waits(lib', lib, v, log)
      BY <1>2, <3>1
    <3> QED BY <1>1, <3>2, <3>3, WaitsRefined
  <2> QED BY <2>1, <2>2
<1> QED BY <1>2 DEF SendNull, RecvNull

LEMMA FinishRefined ==
  ASSUME Sane(lib, user, log), Awaiting, Finish
  PROVE  Refined
<1>1. Awaited(lib, user, log) /\ lib.initialized /\ log' = log
  BY DEF Sane, Awaiting, Finish, Running
<1>2. ASSUME NEW h \in DOMAIN user, Test(h)
      PROVE  Refined
  <2> DEFINE v == IF Flag(lib, h) THEN Without(user, h) ELSE user
  <2>1. lib' = MPI_Test(lib, h) /\ user' = v /\ v = IF Flag(lib, h) THEN Without(user, h) ELSE user
    BY <1>2 DEF Test
  <2> HIDE DEF v
  <2>2. Waits(MPI_Test(lib, h), lib, v, log)
    BY <1>1, <2>1, TestWaits
  <2> QED BY <1>1, <2>1, <2>2, WaitsRefined
<1>3. ASSUME NEW h \in DOMAIN user, Wait(h)
      PROVE  Refined
  <2> DEFINE v == Without(user, h)
  <2>1. lib' = MPI_Wait(lib, h) /\ (lib'.abort = "" => user' = v) /\ v = Without(user, h)
    BY <1>3 DEF Wait
  <2> HIDE DEF v
  <2>2. Waits(MPI_Wait(lib, h), lib, v, log)
    BY <1>1, <2>1, WaitWaits
  <2> QED BY <1>1, <2>1, <2>2, WaitsRefined
<1>4. ASSUME NEW hs \in Arrays, Waitall(hs)
      PROVE  Refined
  <2> DEFINE v == LeftOf(user, Range(hs))
  <2>1. hs \in [{1, 2} -> DOMAIN user \cup {MPI_REQUEST_NULL}] /\ hs[1] # hs[2]
    BY DEF Arrays
  <2>2. lib' = MPI_Waitall(lib, hs) /\ (lib'.abort = "" => user' = v)
    BY <1>4 DEF Waitall, LeftOf
  <2>3. Waits(MPI_Waitall(lib, hs), lib, v, log)
    BY <1>1, <2>1, WaitallWaits
  <2> HIDE DEF v
  <2> QED BY <1>1, <2>2, <2>3, WaitsRefined
<1>5. ASSUME NEW hs \in Arrays, Waitany(hs)
      PROVE  Refined
  <2> DEFINE v == Without(user, hs[FirstComplete(lib, hs)])
  <2>1. hs \in [{1, 2} -> DOMAIN user \cup {MPI_REQUEST_NULL}]
    BY DEF Arrays
  <2>2. lib' = MPI_Waitany(lib, hs) /\ (lib'.abort = "" => user' = v)
        /\ v = Without(user, hs[FirstComplete(lib, hs)])
    BY <1>5 DEF Waitany
  <2> HIDE DEF v
  <2>3. Waits(MPI_Waitany(lib, hs), lib, v, log)
    BY <1>1, <2>1, <2>2, WaitanyWaits
  <2> QED BY <1>1, <2>2, <2>3, WaitsRefined
<1> QED BY <1>2, <1>3, <1>4, <1>5 DEF Finish

LEMMA CommRefined ==
  ASSUME Sane(lib, user, log), Awaiting, CommDup
  PROVE  Refined
<1>1. /\ lib.initialized /\ Awaited(lib, user, log)
      /\ lib' = mpi_comm_new(lib) /\ user' = user /\ log' = log
  BY DEF CommDup, Running, Sane, Awaiting
<1>2. Stays(lib', lib, user, log)
  BY <1>1, CommNewStays
<1> QED BY <1>1, <1>2, StaysRefined

\* Every step of the library is one of the abstract specification, or none.
LEMMA NextRefined == MessagesInv /\ Awaiting /\ [Next]_vars => Refined
<1> SUFFICES ASSUME MessagesInv, Awaiting, [Next]_vars PROVE Refined
  OBVIOUS
<1>1. CASE UNCHANGED vars
  BY <1>1 DEF vars, Awaiting, Refined, Step
<1>2. lib.abort = "" => Sane(lib, user, log) /\ Awaited(lib, user, log)
  BY DEF MessagesInv, Awaiting
<1>3. CASE InitLib
  <2>1. /\ Sane(lib, user, log) /\ Awaited(lib, user, log) /\ ~lib.initialized
        /\ lib' = MPI_Init(lib) /\ user' = user /\ log' = log
    BY <1>2, <1>3 DEF InitLib
  <2>2. Opened(MPI_Init(lib), lib, AllocatedHandle(lib.pool))
    BY <2>1, InitOpens
  <2>3. Stays(MPI_Init(lib), lib, user, log)
    BY <2>1, <2>2, OpenedStays
  <2> QED BY <2>1, <2>3, StaysRefined
<1>4. CASE Finalize
  <2>1. Sane(lib, user, log) /\ lib' = MPI_Finalize(lib) /\ user' = <<>> /\ log' = log
    BY <1>2, <1>4 DEF Finalize, Running
  <2>2. Stays(lib', lib, <<>>, log)
    BY <2>1, FinalizeStays
  <2> QED BY <2>1, <2>2, StaysRefined
<1>5. CASE CommDup
  BY <1>2, <1>5, CommRefined DEF CommDup, Running
<1>6. CASE \E group \in {MPI_GROUP_NULL, MPI_GROUP_EMPTY, MPI_GROUP_ONE} :
             Running /\ CommCreate(group)
  BY <1>1, <1>5, <1>6 DEF CommCreate
<1>7. CASE \E color \in {MPI_UNDEFINED, 0} : Running /\ CommSplit(color)
  BY <1>1, <1>5, <1>7 DEF CommSplit
<1>8. CASE \E c \in DOMAIN lib.comm : CommFree(c)
  <2>1. PICK c \in DOMAIN lib.comm : CommFree(c)
    BY <1>8
  <2>2. /\ Sane(lib, user, log) /\ Awaited(lib, user, log)
        /\ lib' = MPI_Comm_free(lib, c) /\ user' = user /\ log' = log
    BY <1>2, <2>1 DEF CommFree, Running
  <2>3. Stays(lib', lib, user, log)
    BY <2>2, CommFreeStays
  <2> QED BY <2>2, <2>3, StaysRefined
<1>9. CASE Post
  <2>1. Sane(lib, user, log) /\ lib.initialized
    BY <1>2, <1>9 DEF Post, Running
  <2>2. CASE SendNull \/ RecvNull
    BY <2>1, <2>2, NullRefined
  <2>3. ASSUME NEW c \in DOMAIN lib.comm, NEW tag \in Tags, NEW recvtag \in Tags \cup {ANY_TAG},
               CanPost(2), Sendrecv(c, tag, recvtag)
        PROVE  Refined
    BY <2>1, <2>3, SendrecvRefined
  <2>4. ASSUME NEW c \in DOMAIN lib.comm, NEW tag \in Tags, CanPost(1),
               Isend(c, tag) \/ Irsend(c, tag) \/ Send(c, tag)
        PROVE  Refined
    BY <2>1, <2>4, SendRefined
  <2>5. ASSUME NEW c \in DOMAIN lib.comm, NEW tag \in Tags \cup {ANY_TAG}, CanPost(1),
               Irecv(c, tag) \/ Recv(c, tag)
        PROVE  Refined
    BY <2>1, <2>5, RecvRefined
  <2> QED BY <1>9, <2>2, <2>3, <2>4, <2>5 DEF Post
<1>10. CASE Finish
  BY <1>2, <1>10, FinishRefined DEF Finish, Running
<1> QED BY <1>1, <1>3, <1>4, <1>5, <1>6, <1>7, <1>8, <1>9, <1>10 DEF Next

\* Seen through the receive buffers the library (send.c, recv.c) implements
\* MPI's matching: each message is received at most once, the oldest that fits
\* first, and nothing stays open that could be matched.
THEOREM ImplementsMatching == Spec => MatchingSpec
<1> DEFINE seen == [sends |-> log.sends, recvs |-> log.recvs,
                    pairs |-> {<<lib.mem[r], r>> : r \in {b \in DOMAIN lib.mem : lib.mem[b] # 0}}]
<1>1. Init => Matching!Init /\ Awaiting
  <2> SUFFICES ASSUME Init PROVE Matching!Init /\ Awaiting
    OBVIOUS
  <2>1. log.sends = <<>> /\ log.recvs = <<>> /\ lib.mem = [r \in 1 .. MaxPosts |-> 0]
    BY DEF Init
  <2>2. DOMAIN lib.comm = {}
    <3>1. lib.comm = <<>>
      BY DEF Init
    <3> QED BY <3>1
  <2>3. {<<lib.mem[r], r>> : r \in {b \in DOMAIN lib.mem : lib.mem[b] # 0}} = {}
    BY <2>1
  <2> QED BY <2>1, <2>2, <2>3 DEF Awaiting, Awaited, Matching!Init
<1>2. MessagesInv /\ Awaiting /\ [Next]_vars => Awaiting' /\ [Matching!Next]_seen
  <2> SUFFICES ASSUME MessagesInv, Awaiting, [Next]_vars
               PROVE  Awaiting' /\ [Matching!Next]_seen
    OBVIOUS
  <2>1. Refined
    BY NextRefined
  <2>2. seen = Seen(lib, log) /\ seen' = Seen(lib', log')
    BY DEF Seen, Pairs
  <2>3. seen' = seen \/ Matching!Next
    <3>1. Step(seen', seen)
      BY <2>1, <2>2 DEF Refined
    <3> QED BY <3>1 DEF Step, Matching!Next
  <2> QED BY <2>1, <2>3 DEF Refined
<1> QED BY <1>1, <1>2, Invariant, PTL DEF Spec, MatchingSpec, Matching!Spec

=============================================================================
