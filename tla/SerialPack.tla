----------------------------- MODULE SerialPack ------------------------------
(***************************************************************************)
(* Packed messages of mpi-serial (pack.c), as ctest.c and ftest.F90 use    *)
(* them: the program packs data of several types one after the other into  *)
(* a buffer, sends what it has packed to itself as MPI_PACKED, and unpacks *)
(* it where it was received.  The type of a datum is its length in bytes.  *)
(***************************************************************************)
EXTENDS Integers, Sequences, SequencesExt

CONSTANTS Sizes,          \* the types
          Bytes,          \* the values of a byte in the program's data
          PackSize        \* outsize and insize: the length of the two buffers

ASSUME PackAssumption == Sizes \subseteq Nat \ {0} /\ PackSize \in Nat

VARIABLES
  pk,      \* phase: "pack" or "unpack"; outbuf: the buffer packed into;
           \* inbuf: the one that is received into; position; abort
  history  \* packed, unpacked: the bytes in order; asked: the length of the
           \* last call

packVars == <<pk, history>>

\* What is in a buffer where nothing was written.
Unwritten == -1

Blank == [b \in 0 .. PackSize - 1 |-> Unwritten]

PackInit == /\ pk = [phase |-> "pack", outbuf |-> Blank, inbuf |-> Blank, position |-> 0,
                     abort |-> "no"]
            /\ history = [packed |-> <<>>, unpacked |-> <<>>, asked |-> 0]

-----------------------------------------------------------------------------
\* The bytes of data, a sequence, into the buffer from the position on.
MPI_Pack(x, data) ==
  IF x.position + Len(data) > PackSize THEN [x EXCEPT !.abort = "pack"]
  ELSE [x EXCEPT !.outbuf = [b \in DOMAIN @ |-> IF b - x.position \in 0 .. Len(data) - 1
                                              THEN data[b - x.position + 1] ELSE @[b]],
                 !.position = @ + Len(data)]

UnpackLeavesLast(x, size) ==      \* mutant: the last byte of the buffer cannot be unpacked
  IF x.position + size >= PackSize THEN [x EXCEPT !.abort = "unpack"]
  ELSE [x EXCEPT !.position = @ + size]

MPI_Unpack(x, size) ==
  IF x.position + size > PackSize THEN [x EXCEPT !.abort = "unpack"]
  ELSE [x EXCEPT !.position = @ + size]

\* The bytes that MPI_Unpack copies to the program.
UnpackedBytes(x, size) == [i \in 1 .. size |-> x.inbuf[x.position + i - 1]]

\* Sizes of MPI_Pack and MPI_Unpack: the type times the count.
Lengths == {size * count : size \in Sizes, count \in 1 .. 2}

Pack == /\ pk.phase = "pack" /\ pk.abort = "no"
        /\ \E size \in Lengths : \E data \in [1 .. size -> Bytes] :
             /\ pk' = MPI_Pack(pk, data)
             /\ history' = [history EXCEPT !.asked = size,
                              !.packed = IF pk'.abort = "no" THEN @ \o data ELSE @]

\* MPI_Isend and MPI_Irecv of position bytes, and the position set to 0.
SendPacked == /\ pk.phase = "pack" /\ pk.abort = "no"
              /\ pk' = [pk EXCEPT !.phase = "unpack", !.position = 0,
                          !.inbuf = [b \in DOMAIN @ |->
                                      IF b < pk.position THEN pk.outbuf[b] ELSE @[b]]]
              /\ UNCHANGED history

\* The program unpacks with any types, up to what it has packed or, as an
\* error, past the end of the buffer.
Unpack == /\ pk.phase = "unpack" /\ pk.abort = "no"
          /\ \E size \in Lengths :
               /\ \/ pk.position + size <= Len(history.packed)
                  \/ pk.position + size > PackSize
               /\ pk' = MPI_Unpack(pk, size)
               /\ history' = [history EXCEPT !.asked = size,
                                !.unpacked = IF pk'.abort = "no" THEN @ \o UnpackedBytes(pk, size)
                                                               ELSE @]

PackNext == Pack \/ SendPacked \/ Unpack

PackSpec == PackInit /\ [][PackNext]_packVars

-----------------------------------------------------------------------------
(* Properties *)

\* What is unpacked is what was packed, byte by byte and in order, in whatever
\* portions, and the two calls give up (pack.c:26, pack.c:64) only when what
\* is asked for does not fit after what was packed or unpacked before: a buffer
\* can be filled and emptied to its last byte.
UnpackInvertsPack ==
  /\ Len(history.packed) <= PackSize
  /\ IsPrefix(history.unpacked, history.packed)
  /\ pk.phase = "unpack" => pk.position = Len(history.unpacked)
  /\ pk.abort = "pack" => Len(history.packed) + history.asked > PackSize
  /\ pk.abort = "unpack" => Len(history.unpacked) + history.asked > PackSize

=============================================================================
