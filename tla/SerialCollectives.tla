-------------------------- MODULE SerialCollectives --------------------------
(***************************************************************************)
(* The start of a Fortran program with mpi-serial (mpi_init_fort in mpi.c, *)
(* the constants of mpi.h and mpif.h) and its collective calls             *)
(* (collective.c), which are copies within the memory of the one process.  *)
(*                                                                         *)
(* The library knows a type only as a number of bytes that the program     *)
(* passes, from the mpif.h that was chosen by FORT_SIZE when the library   *)
(* was built; how long a Fortran real is depends on the options that the   *)
(* program was compiled with.  Lengths are counted in words of four bytes. *)
(***************************************************************************)
EXTENDS Integers, FiniteSets

CONSTANTS Words,          \* bounds: the length of the program's two buffers,
          MaxCalls        \* and the collective calls it makes

ASSUME WordsAssumption == Words \in Nat \ {0} /\ MaxCalls \in Nat

MPI_ROOT == -3

\* mpi.h: its constants, and the sizes of the types that C knows too.
Mpih == [COMM_WORLD |-> 1, ANY_SOURCE |-> -1, ANY_TAG |-> -1, PROC_NULL |-> -2, ROOT |-> MPI_ROOT,
         COMM_NULL |-> 0, REQUEST_NULL |-> 0, GROUP_NULL |-> 0, GROUP_EMPTY |-> -1,
         UNDEFINED |-> -1, MAX_ERROR_STRING |-> 128, MAX_PROCESSOR_NAME |-> 128,
         INTEGER |-> 1, DOUBLE_PRECISION |-> 2]

\* The struct MPI_Status: its length and where its fields are, from 1 on.
MpihStatus == [STATUS_SIZE |-> 3, SOURCE |-> 1, TAG |-> 2, ERROR |-> 3]

MpifConstants ==
  [COMM_WORLD |-> 1, ANY_SOURCE |-> -1, ANY_TAG |-> -1, PROC_NULL |-> -2, ROOT |-> -3,
   COMM_NULL |-> 0, REQUEST_NULL |-> 0, GROUP_NULL |-> 0, GROUP_EMPTY |-> -1,
   MAX_ERROR_STRING |-> 128, MAX_PROCESSOR_NAME |-> 128]

MpifStatus == [UNDEFINED |-> -1, STATUS_SIZE |-> 3, SOURCE |-> 1, TAG |-> 2, ERROR |-> 3]

\* mpif.h, made by make-mpif for these sizes of REAL and DOUBLE PRECISION.
Mpif(rsize, dsize) ==
  LET types == [INTEGER |-> 1, LOGICAL |-> 1, REAL |-> rsize, DOUBLE_PRECISION |-> dsize,
                COMPLEX |-> 2 * rsize, REAL2 |-> 2 * rsize]
  IN  [name \in DOMAIN MpifConstants \cup DOMAIN MpifStatus \cup DOMAIN types |->
         IF name \in DOMAIN types THEN types[name]
         ELSE IF name \in DOMAIN MpifStatus THEN MpifStatus[name] ELSE MpifConstants[name]]

\* The choices of FORT_SIZE that are built in.
real4double8  == Mpif(1, 2)
real8double8  == Mpif(2, 2)
real8double16 == Mpif(2, 4)

FORT_SIZE == {real4double8, real8double8, real8double16}

\* What the compiler makes of the types: as they are, with reals, with reals
\* and doubles, or with integers promoted.
Compiler(integer, real, double) ==
  [INTEGER |-> integer, LOGICAL |-> integer, REAL |-> real, DOUBLE_PRECISION |-> double,
   COMPLEX |-> 2 * real, REAL2 |-> 2 * real]

Compilers == {Compiler(1, 1, 2), Compiler(1, 2, 2), Compiler(1, 2, 4), Compiler(2, 1, 2)}

VARIABLES prog,    \* what the program was built with: mpif and compiler
          mem,     \* send and recv: its two buffers; abort: why it ended
          lastCall \* history: args: those of the last collective call; calls: how many

collVars == <<prog, mem, lastCall>>

Buffer == 0 .. Words - 1

NoCall == [name |-> "none"]

CollInit == /\ prog = <<>>
            /\ mem = [send |-> [b \in Buffer |-> b + 1], recv |-> [b \in Buffer |-> 0],
                      abort |-> "no"]
            /\ lastCall = [args |-> NoCall, calls |-> 0]

-----------------------------------------------------------------------------
\* The constants that have to be equal, and the types whose size in mpif.h
\* has to be that of the compiler; REAL of mpif.h and of mpi.h may differ.
VerifyEq(f) == \A name \in DOMAIN Mpih : f[name] = Mpih[name]

VerifyField(f) == \A name \in DOMAIN MpihStatus : f[name] = MpihStatus[name]

VerifySize(f, c) ==
  \A type \in {"INTEGER", "LOGICAL", "REAL", "DOUBLE_PRECISION", "COMPLEX"} : f[type] = c[type]

VerifyConsistent(f, c) == VerifyEq(f) /\ VerifyField(f) /\ VerifySize(f, c)

MPI_Init_fort(mpif, c) ==
  /\ prog = <<>>
  /\ prog' = [mpif |-> mpif, compiler |-> c]
  /\ mem' = [mem EXCEPT !.abort = IF VerifyConsistent(mpif, c) THEN "no" ELSE "init"]
  /\ UNCHANGED lastCall

memcpy(to, into, from, at, len) ==
  [b \in DOMAIN to |-> IF b - into \in 0 .. len - 1 THEN from[at + b - into] ELSE to[b]]

\* The calls with a root: nothing to do when the root is in the other group of
\* an intercommunicator, and an abort for every other root than rank 0.
Rooted(m, root, recv) ==
  IF root = MPI_ROOT THEN m
  ELSE IF root # 0 THEN [m EXCEPT !.abort = "root"]
  ELSE [m EXCEPT !.recv = recv]

\* In these, s and r are the size of the send and of the receive type.
MPI_Bcast(m, a) == Rooted(m, a.root, m.recv)

MPI_Gather(m, a, s) == Rooted(m, a.root, memcpy(m.recv, 0, m.send, 0, a.sendcount * s))

DisplsInBytes(m, a, r) ==         \* mutant: the displacement is not multiplied by the type
  Rooted(m, a.root, memcpy(m.recv, a.rdispl, m.send, 0, a.recvcount * r))

MPI_Gatherv(m, a, r) ==
  Rooted(m, a.root, memcpy(m.recv, a.rdispl * r, m.send, 0, a.recvcount * r))

MPI_Allgather(m, a, s) == [m EXCEPT !.recv = memcpy(@, 0, m.send, 0, a.sendcount * s)]

MPI_Allgatherv(m, a, r) ==
  [m EXCEPT !.recv = memcpy(@, a.rdispl * r, m.send, 0, a.recvcount * r)]

MPI_Scatter(m, a, s) == Rooted(m, a.root, memcpy(m.recv, 0, m.send, 0, a.sendcount * s))

MPI_Scatterv(m, a, s) ==
  Rooted(m, a.root, memcpy(m.recv, 0, m.send, a.sdispl * s, a.sendcount * s))

MPI_Reduce(m, a, s) == Rooted(m, a.root, memcpy(m.recv, 0, m.send, 0, a.sendcount * s))

MPI_Allreduce(m, a, s) == [m EXCEPT !.recv = memcpy(@, 0, m.send, 0, a.sendcount * s)]

MPI_Scan(m, a, s) == [m EXCEPT !.recv = memcpy(@, 0, m.send, 0, a.sendcount * s)]

MPI_Alltoall(m, a, s) == [m EXCEPT !.recv = memcpy(@, 0, m.send, 0, a.sendcount * s)]

MPI_Alltoallv(m, a, s, r) ==
  [m EXCEPT !.recv = memcpy(@, a.rdispl * r, m.send, a.sdispl * s, a.sendcount * s)]

-----------------------------------------------------------------------------
(* The calls of the program.  It passes the types of its arrays, and makes *)
(* no call that leaves them or whose two sides do not agree.               *)

Types == {"REAL", "REAL2", "DOUBLE_PRECISION"}

\* REAL2 is MPI_2REAL, two reals, so that n of them are 2n of MPI_REAL.
Element(type) == IF type = "REAL2" THEN "REAL" ELSE type

WithRoot == {"Bcast", "Gather", "Gatherv", "Scatter", "Scatterv", "Reduce"}

SendDispl == {"Scatterv", "Alltoallv"}

RecvDispl == {"Gatherv", "Allgatherv", "Alltoallv"}

Names == WithRoot \cup {"Barrier", "Allgather", "Allgatherv", "Allreduce", "Scan",
                        "Alltoall", "Alltoallv"}

\* The arguments of the calls on arrays of the compiler c; a root other than
\* rank 0, with which nothing is copied, with one element only.
Arguments == [c \in Compilers |->
  {a \in [name : Names, root : {0, 1, MPI_ROOT}, sendtype : Types, recvtype : Types,
          sendcount : 1 .. Words, recvcount : 1 .. Words, sdispl : Buffer, rdispl : Buffer] :
     /\ Element(a.sendtype) = Element(a.recvtype)
     /\ a.sendcount * c[a.sendtype] = a.recvcount * c[a.recvtype]
     /\ (a.sdispl + a.sendcount) * c[a.sendtype] <= Words
     /\ (a.rdispl + a.recvcount) * c[a.recvtype] <= Words
     /\ a.root = 0 \/ (a.name \in WithRoot /\ a.sendcount = 1)
     /\ a.sdispl = 0 \/ a.name \in SendDispl
     /\ a.rdispl = 0 \/ a.name \in RecvDispl}]

Call(a) ==
  LET s == prog.mpif[a.sendtype]
      r == prog.mpif[a.recvtype]
  IN  /\ \/ a.name = "Barrier"    /\ mem' = mem
         \/ a.name = "Bcast"      /\ mem' = MPI_Bcast(mem, a)
         \/ a.name = "Gather"     /\ mem' = MPI_Gather(mem, a, s)
         \/ a.name = "Gatherv"    /\ mem' = MPI_Gatherv(mem, a, r)
         \/ a.name = "Allgather"  /\ mem' = MPI_Allgather(mem, a, s)
         \/ a.name = "Allgatherv" /\ mem' = MPI_Allgatherv(mem, a, r)
         \/ a.name = "Scatter"    /\ mem' = MPI_Scatter(mem, a, s)
         \/ a.name = "Scatterv"   /\ mem' = MPI_Scatterv(mem, a, s)
         \/ a.name = "Reduce"     /\ mem' = MPI_Reduce(mem, a, s)
         \/ a.name = "Allreduce"  /\ mem' = MPI_Allreduce(mem, a, s)
         \/ a.name = "Scan"       /\ mem' = MPI_Scan(mem, a, s)
         \/ a.name = "Alltoall"   /\ mem' = MPI_Alltoall(mem, a, s)
         \/ a.name = "Alltoallv"  /\ mem' = MPI_Alltoallv(mem, a, s, r)
      /\ lastCall' = [args |-> a, calls |-> lastCall.calls + 1]
      /\ UNCHANGED prog

CollNext ==
  \/ \E mpif \in FORT_SIZE, c \in Compilers : MPI_Init_fort(mpif, c)
  \/ /\ prog # <<>> /\ mem.abort = "no" /\ lastCall.calls < MaxCalls
     /\ \E a \in Arguments[prog.compiler] : Call(a)

CollSpec == CollInit /\ [][CollNext]_collVars

-----------------------------------------------------------------------------
(* Properties *)

\* The one process and its rank.
MPI_Comm_size == 1
MPI_Comm_rank == 0

Alone(x) == [r \in {MPI_Comm_rank} |-> x]

\* The elements of the program's arrays are as long as its compiler made them.
ByRank(a) ==
  IF a = NoCall THEN a
  ELSE [name |-> a.name, root |-> a.root,
        scount |-> Alone(a.sendcount), sdispl |-> Alone(a.sdispl), ssize |-> prog.compiler[a.sendtype],
        rcount |-> Alone(a.recvcount), rdispl |-> Alone(a.rdispl), rsize |-> prog.compiler[a.recvtype]]

Combine(x, y) == <<x, y>>

\* Copies of bytes, with the sizes of mpif.h, do what MPI says of the elements
\* of the program's arrays, for one rank: the program either did not start or
\* every call of it moves whole elements to their place and nothing else.
AsDefined == INSTANCE Collectives
  WITH P <- MPI_Comm_size, Op <- Combine,
       send <- Alone(mem.send), recv <- Alone(mem.recv), call <- ByRank(lastCall.args)
CollectivesSpec == AsDefined!Spec

=============================================================================
