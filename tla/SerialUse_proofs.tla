--------------------------- MODULE SerialUse_proofs ---------------------------
(***************************************************************************)
(* Proofs about three programs that use mpi-serial, one its packing calls  *)
(* (SerialPack), one its lists (ListUse) and one its collective calls      *)
(* (SerialCollectives), for every length of the buffers and every number   *)
(* of lists, items and calls.  Of the lists: the links of every list spell *)
(* its items in both directions, on a heap that the lists share but whose  *)
(* items they do not; from this they answer every call as sequences would  *)
(* (NothingLost) and behave as sequences (SequencesSpec).                  *)
(***************************************************************************)
EXTENDS ListUse, SerialPack, SerialCollectives, SerialData_proofs

-----------------------------------------------------------------------------
(* Packing *)

Buffers == [0 .. PackSize - 1 -> Bytes \cup {Unwritten}]

States == [phase : {"pack", "unpack"}, outbuf : Buffers, inbuf : Buffers,
           position : 0 .. PackSize, abort : {"no", "pack", "unpack"}]

Histories == [packed : Seq(Bytes), unpacked : Seq(Bytes), asked : Nat]

PackType == pk \in States /\ history \in Histories

\* The buffer begins with these bytes.
Holds(buffer, bytes) == /\ Len(bytes) <= PackSize
                        /\ \A i \in 1 .. Len(bytes) : buffer[i - 1] = bytes[i]

\* While the program packs, the position is behind what it has packed.
Packing == /\ pk.position = Len(history.packed)
           /\ history.unpacked = <<>>
           /\ Holds(pk.outbuf, history.packed)
           /\ pk.abort # "unpack"

\* When it unpacks, the position is behind what it has unpacked.
Unpacking == /\ pk.position = Len(history.unpacked)
             /\ Len(history.unpacked) <= Len(history.packed)
             /\ \A i \in 1 .. Len(history.unpacked) : history.unpacked[i] = history.packed[i]
             /\ Holds(pk.inbuf, history.packed)
             /\ pk.abort # "pack"

PackInv == /\ PackType
           /\ pk.phase = "pack" => Packing
           /\ pk.phase = "unpack" => Unpacking
           /\ pk.abort # "no" => pk.position + history.asked > PackSize

LEMMA LengthsAreNumbers == ASSUME NEW size \in Lengths PROVE size \in Nat
<1>1. PICK s \in Sizes, c \in 1 .. 2 : size = s * c
  BY DEF Lengths
<1>2. s \in Nat /\ (c = 1 \/ c = 2)
  BY PackAssumption
<1> QED BY <1>1, <1>2

LEMMA PackFacts ==
  ASSUME PackType
  PROVE  /\ pk.position \in Nat /\ pk.position <= PackSize /\ PackSize \in Nat
         /\ pk.outbuf \in Buffers /\ pk.inbuf \in Buffers
         /\ pk.phase \in {"pack", "unpack"} /\ pk.abort \in {"no", "pack", "unpack"}
         /\ history.packed \in Seq(Bytes) /\ Len(history.packed) \in Nat
         /\ history.unpacked \in Seq(Bytes) /\ Len(history.unpacked) \in Nat
         /\ Len(<<>>) = 0
<1>1. history.packed \in Seq(Bytes) /\ history.unpacked \in Seq(Bytes)
  BY DEF PackType, Histories
<1>2. Len(history.packed) \in Nat /\ Len(history.unpacked) \in Nat /\ Len(<<>>) = 0
  BY <1>1, LenProperties
<1>3. /\ pk.position \in 0 .. PackSize /\ pk.outbuf \in Buffers /\ pk.inbuf \in Buffers
      /\ pk.phase \in {"pack", "unpack"} /\ pk.abort \in {"no", "pack", "unpack"}
  BY DEF PackType, States
<1> QED BY <1>1, <1>2, <1>3, PackAssumption

LEMMA PackInitInv == PackInit => PackInv
<1> SUFFICES ASSUME PackInit PROVE PackInv
  OBVIOUS
<1>1. Blank \in Buffers
  BY DEF Blank, Buffers
<1>2. PackType
  BY <1>1, PackAssumption DEF PackInit, PackType, States, Histories
<1>3. Packing /\ pk.abort = "no" /\ pk.phase = "pack"
  BY PackAssumption DEF PackInit, Packing, Holds
<1> QED BY <1>2, <1>3 DEF PackInv

\* MPI_Pack puts the bytes behind those that are there.
LEMMA PackStep == ASSUME PackInv, Pack PROVE PackInv'
<1>0. PICK size \in Lengths : \E data \in [1 .. size -> Bytes] :
        /\ pk' = MPI_Pack(pk, data)
        /\ history' = [history EXCEPT !.asked = size,
                         !.packed = IF pk'.abort = "no" THEN @ \o data ELSE @]
  BY DEF Pack
<1>1. PICK data \in [1 .. size -> Bytes] :
        /\ pk' = MPI_Pack(pk, data)
        /\ history' = [history EXCEPT !.asked = size,
                         !.packed = IF pk'.abort = "no" THEN @ \o data ELSE @]
  BY <1>0
<1>2. size \in Nat /\ data \in Seq(Bytes) /\ Len(data) = size
  BY LengthsAreNumbers
<1>3. PackType /\ Packing /\ pk.phase = "pack" /\ pk.abort = "no"
  BY DEF Pack, PackInv
<1>7. pk \in States /\ history \in Histories
  BY <1>3 DEF PackType
<1> DEFINE n == pk.position
           old == history.packed
<1>4. /\ n \in Nat /\ n = Len(old) /\ n <= PackSize /\ PackSize \in Nat
      /\ old \in Seq(Bytes) /\ pk.outbuf \in Buffers
      /\ \A i \in 1 .. n : pk.outbuf[i - 1] = old[i]
  BY <1>3, PackFacts DEF Packing, Holds
<1>5. CASE n + size > PackSize
  <2>1. pk' = [pk EXCEPT !.abort = "pack"]
    BY <1>1, <1>2, <1>5 DEF MPI_Pack
  <2>6. /\ pk' \in States /\ pk'.phase = "pack" /\ pk'.outbuf = pk.outbuf /\ pk'.inbuf = pk.inbuf
        /\ pk'.position = n /\ pk'.abort = "pack"
    BY <2>1, <1>3, <1>7 DEF States
  <2>2. history' = [history EXCEPT !.asked = size]
    BY <1>1, <1>7, <2>6 DEF Histories
  <2>7. /\ history' \in Histories /\ history'.packed = history.packed
        /\ history'.unpacked = history.unpacked /\ history'.asked = size
    BY <2>2, <1>2, <1>7 DEF Histories
  <2>3. PackType'
    BY <2>6, <2>7 DEF PackType
  <2>4. Packing' /\ pk'.phase = "pack"
    BY <2>6, <2>7, <1>3 DEF Packing, Holds
  <2>5. pk'.position + history'.asked > PackSize
    BY <2>6, <2>7, <1>5
  <2> QED BY <2>3, <2>4, <2>5 DEF PackInv
<1>6. CASE n + size <= PackSize
  <2> DEFINE new == old \o data
             out == [b \in 0 .. PackSize - 1 |-> IF b - n \in 0 .. size - 1
                                                 THEN data[b - n + 1] ELSE pk.outbuf[b]]
  <2>1. DOMAIN pk.outbuf = 0 .. PackSize - 1
    BY <1>4 DEF Buffers
  <2>2. pk' = [pk EXCEPT !.outbuf = out, !.position = n + size]
    BY <1>1, <1>2, <1>4, <1>6, <2>1 DEF MPI_Pack
  <2>3. pk'.abort = "no" /\ pk'.phase = "pack" /\ pk'.outbuf = out /\ pk'.position = n + size
    <3> HIDE DEF out
    <3> QED BY <2>2, <1>3, <1>7 DEF States
  <2>4. history' = [history EXCEPT !.asked = size, !.packed = new]
    BY <1>1, <2>3
  <2>5. /\ new \in Seq(Bytes) /\ Len(new) = n + size
        /\ \A i \in 1 .. n : new[i] = old[i]
        /\ \A i \in n + 1 .. n + size : new[i] = data[i - n]
    <3> HIDE DEF old, n, out
    <3>1. /\ new \in Seq(Bytes) /\ Len(new) = Len(old) + Len(data)
          /\ \A i \in 1 .. Len(old) + Len(data) :
               new[i] = IF i <= Len(old) THEN old[i] ELSE data[i - Len(old)]
      <4>1. old \in Seq(Bytes) /\ data \in Seq(Bytes)
        BY <1>2, <1>4
      <4> QED BY <4>1, ConcatProperties
    <3> HIDE DEF new
    <3>2. /\ Len(old) = n /\ Len(data) = size /\ n \in Nat /\ size \in Nat
      BY <1>2, <1>4
    <3> QED BY <3>1, <3>2
  <2>6. out \in Buffers
    <3>1. ASSUME NEW b \in 0 .. PackSize - 1 PROVE out[b] \in Bytes \cup {Unwritten}
      <4>1. CASE b - n \in 0 .. size - 1
        <5>1. b - n + 1 \in 1 .. size
          BY <4>1, <1>2, <1>4
        <5> QED BY <4>1, <5>1
      <4>2. CASE b - n \notin 0 .. size - 1
        BY <4>2, <1>4 DEF Buffers
      <4> QED BY <4>1, <4>2
    <3> QED BY <3>1 DEF Buffers
  <2>7. Holds(out, new)
    <3>1. ASSUME NEW i \in 1 .. n + size PROVE out[i - 1] = new[i]
      <4>1. i - 1 \in 0 .. PackSize - 1
        BY <1>2, <1>4, <1>6
      <4>2. CASE i <= n
        BY <4>1, <4>2, <2>5, <1>2, <1>4
      <4>3. CASE i > n
        <5>1. (i - 1) - n \in 0 .. size - 1 /\ (i - 1) - n + 1 = i - n /\ i \in n + 1 .. n + size
          BY <4>3, <1>2, <1>4
        <5> QED BY <4>1, <5>1, <2>5
      <4>4. i \in Nat /\ n \in Nat
        BY <1>2, <1>4
      <4> HIDE DEF out, new, n
      <4> QED BY <4>2, <4>3, <4>4
    <3> HIDE DEF out, new
    <3> QED BY <3>1, <2>5, <1>6 DEF Holds
  <2> HIDE DEF out, new
  <2>10. n + size \in 0 .. PackSize
    BY <1>2, <1>4, <1>6
  <2>11. pk' \in States
    BY <2>2, <2>6, <2>10, <1>7 DEF States
  <2>12. history' \in Histories /\ history'.packed = new /\ history'.unpacked = history.unpacked
    BY <2>4, <2>5, <1>2, <1>7 DEF Histories
  <2>8. PackType'
    BY <2>11, <2>12 DEF PackType
  <2>9. Packing'
    BY <2>3, <2>5, <2>7, <2>12, <1>3 DEF Packing, Holds
  <2> QED BY <2>3, <2>8, <2>9 DEF PackInv
<1> QED BY <1>2, <1>4, <1>5, <1>6

\* What is received begins with the bytes that were packed.
LEMMA SendStep == ASSUME PackInv, SendPacked PROVE PackInv'
<1> DEFINE got == [b \in 0 .. PackSize - 1 |-> IF b < pk.position THEN pk.outbuf[b] ELSE pk.inbuf[b]]
<1>1. PackType /\ Packing /\ pk.phase = "pack" /\ pk.abort = "no"
  BY DEF SendPacked, PackInv
<1>2. DOMAIN pk.inbuf = 0 .. PackSize - 1 /\ pk.outbuf \in Buffers /\ pk.inbuf \in Buffers
      /\ PackSize \in Nat
  BY <1>1, PackFacts DEF Buffers
<1>3. pk' = [pk EXCEPT !.phase = "unpack", !.position = 0, !.inbuf = got] /\ history' = history
  BY <1>2 DEF SendPacked
<1>4. got \in Buffers
  BY <1>2 DEF Buffers
<1>5. Holds(got, history.packed)
  <2>1. /\ pk.position = Len(history.packed) /\ Len(history.packed) <= PackSize
        /\ Len(history.packed) \in Nat
        /\ \A i \in 1 .. Len(history.packed) : pk.outbuf[i - 1] = history.packed[i]
    BY <1>1, PackFacts DEF Packing, Holds
  <2>2. ASSUME NEW i \in 1 .. Len(history.packed) PROVE got[i - 1] = history.packed[i]
    <3>1. i - 1 \in 0 .. PackSize - 1 /\ i - 1 < pk.position
      BY <1>2, <2>1
    <3> QED BY <3>1, <2>1
  <2> HIDE DEF got
  <2> QED BY <2>1, <2>2 DEF Holds
<1> HIDE DEF got
<1>6. pk \in States /\ history \in Histories /\ 0 \in 0 .. PackSize
  BY <1>1, <1>2 DEF PackType
<1>7. /\ pk' \in States /\ pk'.phase = "unpack" /\ pk'.inbuf = got /\ pk'.position = 0
      /\ pk'.abort = "no"
  BY <1>1, <1>3, <1>4, <1>6 DEF States
<1>8. history'.unpacked = <<>> /\ Len(<<>>) = 0 /\ Len(history.packed) \in Nat
  BY <1>1, <1>3, PackFacts DEF Packing
<1>9. Unpacking'
  BY <1>3, <1>5, <1>7, <1>8 DEF Unpacking
<1>10. PackType'
  BY <1>3, <1>6, <1>7 DEF PackType
<1> QED BY <1>7, <1>9, <1>10 DEF PackInv

\* MPI_Unpack takes the next bytes.
LEMMA UnpackStep == ASSUME PackInv, Unpack PROVE PackInv'
<1> DEFINE n == pk.position
           got == history.unpacked
           all == history.packed
<1>1. PICK size \in Lengths :
        /\ n + size <= Len(all) \/ n + size > PackSize
        /\ pk' = MPI_Unpack(pk, size)
        /\ history' = [history EXCEPT !.asked = size,
                         !.unpacked = IF pk'.abort = "no" THEN @ \o UnpackedBytes(pk, size) ELSE @]
  BY DEF Unpack
<1>2. size \in Nat
  BY LengthsAreNumbers
<1>3. PackType /\ Unpacking /\ pk.phase = "unpack" /\ pk.abort = "no"
  BY DEF Unpack, PackInv
<1>7. pk \in States /\ history \in Histories
  BY <1>3 DEF PackType
<1>4. /\ n \in Nat /\ n = Len(got) /\ n <= Len(all) /\ Len(all) \in Nat /\ Len(all) <= PackSize
      /\ PackSize \in Nat /\ all \in Seq(Bytes) /\ got \in Seq(Bytes)
      /\ \A i \in 1 .. n : got[i] = all[i]
      /\ \A i \in 1 .. Len(all) : pk.inbuf[i - 1] = all[i]
  BY <1>3, PackFacts DEF Unpacking, Holds
<1>5. CASE n + size > PackSize
  <2>1. pk' = [pk EXCEPT !.abort = "unpack"]
    BY <1>1, <1>5 DEF MPI_Unpack
  <2>6. /\ pk' \in States /\ pk'.phase = "unpack" /\ pk'.outbuf = pk.outbuf /\ pk'.inbuf = pk.inbuf
        /\ pk'.position = n /\ pk'.abort = "unpack"
    BY <2>1, <1>3, <1>7 DEF States
  <2>2. history' = [history EXCEPT !.asked = size]
    BY <1>1, <1>7, <2>6 DEF Histories
  <2>7. /\ history' \in Histories /\ history'.packed = history.packed
        /\ history'.unpacked = history.unpacked /\ history'.asked = size
    BY <2>2, <1>2, <1>7 DEF Histories
  <2>3. PackType'
    BY <2>6, <2>7 DEF PackType
  <2>4. Unpacking' /\ pk'.phase = "unpack"
    BY <2>6, <2>7, <1>3 DEF Unpacking, Holds
  <2>5. pk'.position + history'.asked > PackSize
    BY <2>6, <2>7, <1>5
  <2> QED BY <2>3, <2>4, <2>5 DEF PackInv
<1>6. CASE n + size <= PackSize
  <2> DEFINE bytes == UnpackedBytes(pk, size)
             new == got \o bytes
  <2>1. n + size <= Len(all)
    BY <1>1, <1>2, <1>4, <1>6
  <2>2. pk' = [pk EXCEPT !.position = n + size]
    BY <1>1, <1>2, <1>4, <1>6 DEF MPI_Unpack
  <2>3. pk'.abort = "no" /\ pk'.phase = "unpack" /\ pk'.inbuf = pk.inbuf /\ pk'.position = n + size
    BY <2>2, <1>3, <1>7 DEF States
  <2>4. history' = [history EXCEPT !.asked = size, !.unpacked = new]
    BY <1>1, <2>3
  <2>5. \A i \in 1 .. size : bytes[i] = all[n + i]
    <3> TAKE i \in 1 .. size
    <3>1. n + i \in 1 .. Len(all) /\ n + i - 1 = (n + i) - 1
      BY <2>1, <1>2, <1>4
    <3> QED BY <3>1, <1>4 DEF UnpackedBytes
  <2>6. bytes \in Seq(Bytes) /\ Len(bytes) = size
    <3>1. \A i \in 1 .. size : bytes[i] \in Bytes
      <4> TAKE i \in 1 .. size
      <4>1. n + i \in 1 .. Len(all)
        BY <2>1, <1>2, <1>4
      <4> QED BY <4>1, <2>5, <1>4, ElementOfSeq
    <3>2. bytes \in [1 .. size -> Bytes]
      BY <3>1 DEF UnpackedBytes
    <3> HIDE DEF bytes
    <3> QED BY <3>2, <1>2
  <2> HIDE DEF bytes
  <2>7. /\ new \in Seq(Bytes) /\ Len(new) = n + size
        /\ \A i \in 1 .. n : new[i] = got[i]
        /\ \A i \in n + 1 .. n + size : new[i] = bytes[i - n]
    <3>1. n = Len(got) /\ got \in Seq(Bytes) /\ n \in Nat
      BY <1>4
    <3> HIDE DEF got, n
    <3> QED BY <3>1, <2>6, <1>2
  <2> HIDE DEF new
  <2>8. \A i \in 1 .. n + size : new[i] = all[i]
    <3> TAKE i \in 1 .. n + size
    <3>1. CASE i <= n
      BY <3>1, <2>7, <1>2, <1>4
    <3>2. CASE i > n
      <4>1. i - n \in 1 .. size /\ i \in n + 1 .. n + size /\ n + (i - n) = i
        BY <3>2, <1>2, <1>4
      <4>2. bytes[i - n] = all[n + (i - n)]
        BY <4>1, <2>5
      <4> QED BY <4>1, <4>2, <2>7
    <3> QED BY <3>1, <3>2, <1>4
  <2>11. n + size \in 0 .. PackSize
    BY <1>2, <1>4, <1>6
  <2>12. pk' \in States
    BY <2>2, <2>11, <1>7 DEF States
  <2>13. history' \in Histories /\ history'.packed = all /\ history'.unpacked = new
    BY <2>4, <2>7, <1>2, <1>7 DEF Histories
  <2>9. PackType'
    BY <2>12, <2>13 DEF PackType
  <2>10. Unpacking'
    BY <2>1, <2>3, <2>7, <2>8, <2>13, <1>3 DEF Unpacking, Holds
  <2> QED BY <2>3, <2>9, <2>10 DEF PackInv
<1> QED BY <1>2, <1>4, <1>5, <1>6

\* What is unpacked is what was packed, byte by byte and in order, and the two
\* calls (pack.c) give up only when the buffer is too short.
THEOREM PackingIsFaithful == PackSpec => []UnpackInvertsPack
<1>1. PackInv /\ [PackNext]_packVars => PackInv'
  <2> SUFFICES ASSUME PackInv, [PackNext]_packVars PROVE PackInv'
    OBVIOUS
  <2>1. CASE UNCHANGED packVars
    BY <2>1 DEF packVars, PackInv, PackType, Packing, Unpacking
  <2> QED BY <2>1, PackStep, SendStep, UnpackStep DEF PackNext
<1>2. PackInv => UnpackInvertsPack
  <2> SUFFICES ASSUME PackInv PROVE UnpackInvertsPack
    OBVIOUS
  <2>1. /\ history.packed \in Seq(Bytes) /\ history.unpacked \in Seq(Bytes)
        /\ pk.phase \in {"pack", "unpack"} /\ Len(<<>>) = 0
        /\ pk.abort \in {"no", "pack", "unpack"}
        /\ Len(history.packed) \in Nat /\ Len(history.unpacked) \in Nat
    BY PackFacts DEF PackInv
  <2>0. Packing \/ Unpacking
    BY <2>1 DEF PackInv
  <2>6. Packing => Len(history.unpacked) = 0
    BY <2>1 DEF Packing
  <2>2. Len(history.packed) <= PackSize /\ Len(history.unpacked) <= Len(history.packed)
    BY <2>0, <2>1, <2>6 DEF Packing, Unpacking, Holds
  <2>3. \A i \in 1 .. Len(history.unpacked) : history.unpacked[i] = history.packed[i]
    BY <2>0, <2>1, <2>6 DEF Unpacking
  <2>4. IsPrefix(history.unpacked, history.packed)
    <3> DEFINE u == history.unpacked
               w == history.packed
    <3>1. u \in Seq(Bytes) /\ w \in Seq(Bytes) /\ Len(u) \in Nat /\ Len(w) \in Nat
          /\ Len(u) <= Len(w) /\ \A i \in 1 .. Len(u) : u[i] = w[i]
      BY <2>1, <2>2, <2>3
    <3> HIDE DEF u, w
    <3>2. SubSeq(u, 1, Len(u)) = SubSeq(w, 1, Len(u))
      BY <3>1
    <3> QED BY <3>1, <3>2 DEF IsPrefix, u, w
  <2>5. /\ pk.phase = "unpack" => pk.position = Len(history.unpacked)
        /\ pk.abort = "pack" => Len(history.packed) + history.asked > PackSize
        /\ pk.abort = "unpack" => Len(history.unpacked) + history.asked > PackSize
    BY <2>1 DEF PackInv, Packing, Unpacking
  <2> QED BY <2>2, <2>4, <2>5 DEF UnpackInvertsPack
<1> QED BY <1>1, <1>2, PackInitInv, PTL DEF PackSpec

-----------------------------------------------------------------------------
(* A list among others on a heap *)

ItemType == [data : ListData, prev : Nat, next : Nat]
Heaps == UNION {[D -> ItemType] : D \in SUBSET (Nat \ {NoItem})}
Views == [head : Nat, tail : Nat, count : Nat, item : Heaps]

\* The links of l, whose heap may have other items, spell the addresses s in both
\* directions, and the items there have the data v.
Reads(l, s, v) ==
  /\ s \in Seq(Nat) /\ v \in Seq(ListData) /\ Len(v) = Len(s)
  /\ \A i \in 1 .. Len(s) :
       /\ s[i] \in DOMAIN l.item /\ s[i] # NoItem
       /\ l.item[s[i]].data = v[i]
       /\ l.item[s[i]].next = IF i = Len(s) THEN NoItem ELSE s[i + 1]
       /\ l.item[s[i]].prev = IF i = 1 THEN NoItem ELSE s[i - 1]
  /\ \A i, j \in 1 .. Len(s) : s[i] = s[j] => i = j
  /\ l.count = Len(s)
  /\ l.head = IF Len(s) = 0 THEN NoItem ELSE s[1]
  /\ l.tail = IF Len(s) = 0 THEN NoItem ELSE s[Len(s)]

\* The list with its own items only
Part(l, s) == [head |-> l.head, tail |-> l.tail, count |-> l.count,
               item |-> [a \in Range(s) |-> l.item[a]]]

\* Two items that a list cannot tell apart
SameItem(i, j) == i.data = j.data /\ i.next = j.next /\ i.prev = j.prev

\* The length, the domain and the range of a sequence
LEMMA SeqFacts ==
  ASSUME NEW S, NEW s \in Seq(S)
  PROVE  /\ Len(s) \in Nat /\ DOMAIN s = 1 .. Len(s)
         /\ \A i \in 1 .. Len(s) : s[i] \in S /\ s[i] \in Range(s)
         /\ \A x : x \in Range(s) <=> \E i \in 1 .. Len(s) : s[i] = x
<1>1. Len(s) \in Nat /\ DOMAIN s = 1 .. Len(s) /\ \A i \in 1 .. Len(s) : s[i] \in S
  OBVIOUS
<1>2. Range(s) = {s[i] : i \in 1 .. Len(s)}
  BY <1>1 DEF Range
<1> QED
  BY <1>1, <1>2

\* With its own items only, it is a list as SerialData_proofs knows them.
LEMMA ReadsPart ==
  ASSUME NEW l, NEW s, NEW v, Reads(l, s, v)
  PROVE  IsList(Part(l, s), s)
<1> DEFINE m == Part(l, s)
<1>1. /\ m.head = l.head /\ m.tail = l.tail /\ m.count = l.count
      /\ DOMAIN m.item = Range(s) /\ \A x \in Range(s) : m.item[x] = l.item[x]
  BY DEF Part
<1>2. /\ Len(s) \in Nat /\ \A i \in 1 .. Len(s) : s[i] \in Range(s)
      /\ \A x : x \in Range(s) => \E i \in 1 .. Len(s) : s[i] = x
  <2>1. s \in Seq(Nat)
    BY DEF Reads
  <2> QED
    BY <2>1, SeqFacts
<1> HIDE DEF m
<1>3. \A i \in 1 .. Len(s) : m.item[s[i]] = l.item[s[i]] /\ s[i] \in DOMAIN m.item
  BY <1>1, <1>2
<1>4. /\ \A i \in 1 .. Len(s) :
           /\ s[i] # NoItem
           /\ m.item[s[i]].next = IF i = Len(s) THEN NoItem ELSE s[i + 1]
           /\ m.item[s[i]].prev = IF i = 1 THEN NoItem ELSE s[i - 1]
      /\ \A i, j \in 1 .. Len(s) : s[i] = s[j] => i = j
      /\ m.count = Len(s)
      /\ m.head = IF Len(s) = 0 THEN NoItem ELSE s[1]
      /\ m.tail = IF Len(s) = 0 THEN NoItem ELSE s[Len(s)]
  BY <1>1, <1>3 DEF Reads
<1>5. \A x \in DOMAIN m.item : \E i \in 1 .. Len(s) : s[i] = x
  BY <1>1, <1>2
<1>6. IsList(m, s)
  BY <1>3, <1>4, <1>5 DEF IsList
<1> QED
  BY <1>6 DEF m

\* Reads is about the links of its items and nothing else.
LEMMA ReadsSame ==
  ASSUME NEW l, NEW s, NEW v, NEW m, Reads(l, s, v),
         m.head = l.head, m.tail = l.tail, m.count = l.count,
         \A i \in 1 .. Len(s) : /\ s[i] \in DOMAIN m.item
                                /\ SameItem(m.item[s[i]], l.item[s[i]])
  PROVE  Reads(m, s, v)
BY DEF Reads, SameItem

\* The other way round: a list whose items have the data v
LEMMA ListReads ==
  ASSUME NEW l, NEW s \in Seq(Nat), IsList(l, s), NEW v \in Seq(ListData), Len(v) = Len(s),
         \A i \in 1 .. Len(s) : l.item[s[i]].data = v[i]
  PROVE  Reads(l, s, v)
BY DEF Reads, IsList

\* A list has as many items as addresses, which the heap has all.
LEMMA HeapSize ==
  ASSUME NEW l, NEW s, NEW v, Reads(l, s, v), IsFiniteSet(DOMAIN l.item)
  PROVE  /\ Cardinality(DOMAIN l.item) \in Nat /\ Len(s) <= Cardinality(DOMAIN l.item)
         /\ Cardinality(Range(s)) = Len(s) /\ IsFiniteSet(Range(s))
         /\ Range(s) \subseteq DOMAIN l.item
<1>1. s \in Seq(Nat)
  BY DEF Reads
<1>2. IsList(Part(l, s), s)
  BY ReadsPart
<1>3. DOMAIN Part(l, s).item = Range(s)
  BY DEF Part
<1>4. IsFiniteSet(Range(s)) /\ Cardinality(Range(s)) = Len(s)
  BY <1>1, <1>2, <1>3, ListHeap
<1>5. Range(s) \subseteq DOMAIN l.item
  <2>1. \A i \in 1 .. Len(s) : s[i] \in DOMAIN l.item
    BY DEF Reads
  <2> QED
    BY <1>1, <2>1, SeqFacts
<1>6. Cardinality(DOMAIN l.item) \in Nat /\ Cardinality(Range(s)) <= Cardinality(DOMAIN l.item)
  BY <1>4, <1>5, FS_CardinalityType, FS_Subset
<1> QED
  BY <1>4, <1>5, <1>6

\* next leads from the head through the addresses, and so through the data.
LEMMA ReadsVisited ==
  ASSUME NEW l, NEW s, NEW v, Reads(l, s, v), IsFiniteSet(DOMAIN l.item)
  PROVE  Visited(l) = s /\ Data(l) = v
<1> DEFINE next == [a \in DOMAIN l.item |-> l.item[a].next]
<1>1. s \in Seq(Nat) /\ v \in Seq(ListData) /\ Len(v) = Len(s)
  BY DEF Reads
<1>2. /\ l.head = IF Len(s) = 0 THEN NoItem ELSE s[1]
      /\ \A i \in 1 .. Len(s) : s[i] # NoItem /\ s[i] \in DOMAIN next
      /\ \A i \in 1 .. Len(s) : next[s[i]] = IF i = Len(s) THEN NoItem ELSE s[i + 1]
  BY DEF Reads
<1>3. Cardinality(DOMAIN next) \in Nat /\ Len(s) <= Cardinality(DOMAIN next)
  BY HeapSize
<1> HIDE DEF next
<1>4. Follows(l.head, next, s)
  BY <1>2, <1>3 DEF Follows
<1>5. Visited(l) = s
  BY <1>1, <1>4, FollowsReached DEF Visited, next
<1>6. Data(l) = [i \in 1 .. Len(s) |-> l.item[s[i]].data]
  BY <1>1, <1>5, SeqFacts DEF Data
<1>7. \A i \in 1 .. Len(s) : l.item[s[i]].data = v[i]
  BY DEF Reads
<1>8. v = [i \in 1 .. Len(s) |-> v[i]]
  BY <1>1
<1>9. [i \in 1 .. Len(s) |-> l.item[s[i]].data] = [i \in 1 .. Len(s) |-> v[i]]
  BY <1>7
<1> QED
  BY <1>5, <1>6, <1>8, <1>9

\* The sequence backwards
LEMMA ReverseFacts ==
  ASSUME NEW S, NEW s \in Seq(S)
  PROVE  /\ Reverse(s) \in Seq(S) /\ Len(Reverse(s)) = Len(s)
         /\ Reverse(s) = [i \in 1 .. Len(s) |-> s[(Len(s) - i) + 1]]
<1>1. Len(s) \in Nat /\ \A i \in 1 .. Len(s) : (Len(s) - i) + 1 \in 1 .. Len(s)
  OBVIOUS
<1>2. Reverse(s) = [i \in 1 .. Len(s) |-> s[(Len(s) - i) + 1]]
  BY DEF Reverse
<1>3. Reverse(s) \in [1 .. Len(s) -> S]
  BY <1>1, <1>2
<1>4. Reverse(s) \in Seq(S)
  BY <1>1, <1>3, SeqDef
<1> HIDE <1>2
<1>5. DOMAIN Reverse(s) = 1 .. Len(s) /\ DOMAIN Reverse(s) = 1 .. Len(Reverse(s))
      /\ Len(Reverse(s)) \in Nat
  BY <1>3, <1>4
<1> QED
  BY <1>1, <1>2, <1>4, <1>5

\* prev leads from the tail through the data backwards.
LEMMA ReadsBack ==
  ASSUME NEW l, NEW s, NEW v, Reads(l, s, v), IsFiniteSet(DOMAIN l.item)
  PROVE  DataBack(l) = Reverse(v)
<1> DEFINE prev == [a \in DOMAIN l.item |-> l.item[a].prev]
           n == Len(s)
           r == Reverse(s)
<1>1. s \in Seq(Nat) /\ v \in Seq(ListData) /\ Len(v) = Len(s) /\ n \in Nat
  BY DEF Reads
<1>2. r \in Seq(Nat) /\ Len(r) = n /\ r = [i \in 1 .. n |-> s[(n - i) + 1]]
  BY <1>1, ReverseFacts
<1>3. /\ l.tail = IF n = 0 THEN NoItem ELSE s[n]
      /\ \A i \in 1 .. n : s[i] # NoItem /\ s[i] \in DOMAIN prev
      /\ \A i \in 1 .. n : prev[s[i]] = IF i = 1 THEN NoItem ELSE s[i - 1]
      /\ \A i \in 1 .. n : l.item[s[i]].data = v[i]
  BY DEF Reads
<1>4. Cardinality(DOMAIN prev) \in Nat /\ n <= Cardinality(DOMAIN prev)
  BY HeapSize
<1> HIDE DEF prev, n, r
<1>5. \A i \in 1 .. n : (n - i) + 1 \in 1 .. n /\ r[i] = s[(n - i) + 1]
  BY <1>1, <1>2
<1>6. l.tail = IF Len(r) = 0 THEN NoItem ELSE r[1]
  <2>1. n # 0 => 1 \in 1 .. n /\ (n - 1) + 1 = n
    BY <1>1
  <2> QED
    BY <1>2, <1>3, <1>5, <2>1
<1>7. \A i \in 1 .. Len(r) : r[i] # NoItem /\ r[i] \in DOMAIN prev
  <2> TAKE i \in 1 .. Len(r)
  <2>1. PICK j \in 1 .. n : r[i] = s[j]
    BY <1>2, <1>5
  <2> QED
    BY <1>3, <2>1
<1>8. ASSUME NEW i \in 1 .. Len(r)
      PROVE  prev[r[i]] = IF i = Len(r) THEN NoItem ELSE r[i + 1]
  <2>1. i \in 1 .. n /\ (n - i) + 1 \in 1 .. n
    BY <1>2, <1>5
  <2>2. prev[r[i]] = IF (n - i) + 1 = 1 THEN NoItem ELSE s[((n - i) + 1) - 1]
    BY <2>1, <1>3, <1>5
  <2>3. ((n - i) + 1 = 1 <=> i = n) /\ ((n - i) + 1) - 1 = (n - (i + 1)) + 1
        /\ (i # n => i + 1 \in 1 .. n)
    BY <1>1, <2>1
  <2>4. i # n => r[i + 1] = s[(n - (i + 1)) + 1]
    BY <1>5, <2>3
  <2> QED
    BY <1>2, <2>2, <2>3, <2>4
<1>9. Reached(l.tail, prev) = r
  <2>1. Follows(l.tail, prev, r)
    BY <1>2, <1>4, <1>6, <1>7, <1>8 DEF Follows
  <2> QED
    BY <1>2, <2>1, FollowsReached
<1>10. DataBack(l) = [i \in 1 .. n |-> l.item[r[i]].data]
  BY <1>2, <1>9, SeqFacts DEF DataBack, prev
<1>11. Reverse(v) = [i \in 1 .. n |-> v[(n - i) + 1]]
  BY <1>1, ReverseFacts DEF n
<1>12. \A i \in 1 .. n : l.item[r[i]].data = v[(n - i) + 1]
  BY <1>3, <1>5
<1> QED
  BY <1>10, <1>11, <1>12

\* What is in the heap beside the list stays as it is.
Leaves(l, m, s) ==
  \A x \in DOMAIN l.item : x \notin Range(s) =>
    x \in DOMAIN m.item /\ SameItem(m.item[x], l.item[x])

\* The fields of a list and of its items are numbers, and data.
LEMMA ViewFacts ==
  ASSUME NEW l \in Views
  PROVE  /\ l.head \in Nat /\ l.tail \in Nat /\ l.count \in Nat
         /\ l.item \in [DOMAIN l.item -> ItemType] /\ DOMAIN l.item \subseteq Nat \ {NoItem}
         /\ \A x \in DOMAIN l.item :
              l.item[x].data \in ListData /\ l.item[x].prev \in Nat /\ l.item[x].next \in Nat
<1>1. l.head \in Nat /\ l.tail \in Nat /\ l.count \in Nat /\ l.item \in Heaps
  BY DEF Views
<1>2. PICK D \in SUBSET (Nat \ {NoItem}) : l.item \in [D -> ItemType]
  BY <1>1 DEF Heaps
<1>3. DOMAIN l.item = D /\ \A x \in D : l.item[x] \in ItemType
  BY <1>2
<1> QED
  BY <1>1, <1>2, <1>3 DEF ItemType

\* A list from its fields
LEMMA MakeView ==
  ASSUME NEW h \in Nat, NEW t \in Nat, NEW c \in Nat, NEW D, D \subseteq Nat \ {NoItem},
         NEW f \in [D -> ItemType]
  PROVE  [head |-> h, tail |-> t, count |-> c, item |-> f] \in Views
<1>1. D \in SUBSET (Nat \ {NoItem})
  OBVIOUS
<1>2. f \in Heaps
  BY <1>1 DEF Heaps
<1> QED
  BY <1>2 DEF Views

\* AP_list_append gives a list.
LEMMA AppendView ==
  ASSUME NEW l \in Views, NEW a \in Nat \ {NoItem}, NEW d \in ListData
  PROVE  AP_list_append(l, a, d) \in Views
<1> DEFINE D == DOMAIN l.item \cup {a}
           f == [x \in D |->
                   [data |-> IF x = a THEN d ELSE l.item[x].data,
                    prev |-> IF x = a THEN l.tail ELSE l.item[x].prev,
                    next |-> IF x = a THEN NoItem
                             ELSE IF x = l.tail THEN a ELSE l.item[x].next]]
           h == IF l.tail # NoItem THEN l.head ELSE a
           c == l.count + 1
<1>1. AP_list_append(l, a, d) = [head |-> h, tail |-> a, count |-> c, item |-> f]
  BY DEF AP_list_append
<1>2. \A x \in D : [data |-> IF x = a THEN d ELSE l.item[x].data,
                    prev |-> IF x = a THEN l.tail ELSE l.item[x].prev,
                    next |-> IF x = a THEN NoItem
                             ELSE IF x = l.tail THEN a ELSE l.item[x].next] \in ItemType
  BY ViewFacts DEF ItemType, NoItem
<1>3. f \in [D -> ItemType]
  BY <1>2
<1>4. D \subseteq Nat \ {NoItem} /\ h \in Nat /\ c \in Nat
  BY ViewFacts
<1> HIDE DEF D, f, h, c
<1> QED
  BY <1>1, <1>3, <1>4, MakeView

\* AP_list_append puts the address and the datum at the end.
LEMMA AppendReads ==
  ASSUME NEW l \in Views, NEW s, NEW v, Reads(l, s, v),
         NEW a \in Nat \ {NoItem}, a \notin DOMAIN l.item, NEW d \in ListData
  PROVE  LET m == AP_list_append(l, a, d) IN
         /\ m \in Views /\ DOMAIN m.item = DOMAIN l.item \cup {a} /\ m.item[a].data = d
         /\ Reads(m, Append(s, a), Append(v, d)) /\ Leaves(l, m, s)
<1> DEFINE k == Part(l, s)
           n == AP_list_append(k, a, d)
           m == AP_list_append(l, a, d)
           t == Append(s, a)
           w == Append(v, d)
<1>1. s \in Seq(Nat) /\ v \in Seq(ListData) /\ Len(v) = Len(s) /\ Len(s) \in Nat
  BY DEF Reads
<1>2. /\ \A i \in 1 .. Len(s) : s[i] \in DOMAIN l.item /\ l.item[s[i]].data = v[i]
      /\ l.tail # NoItem => l.tail \in Range(s)
  <2>1. \A i \in 1 .. Len(s) : s[i] \in DOMAIN l.item /\ l.item[s[i]].data = v[i]
    BY DEF Reads
  <2>2. l.tail = IF Len(s) = 0 THEN NoItem ELSE s[Len(s)]
    BY DEF Reads
  <2> QED
    BY <1>1, <2>1, <2>2, SeqFacts
<1>3. Range(s) \subseteq DOMAIN l.item /\ a \notin Range(s)
  BY <1>1, <1>2, SeqFacts
<1>4. /\ k.head = l.head /\ k.tail = l.tail /\ k.count = l.count
      /\ DOMAIN k.item = Range(s) /\ \A x \in Range(s) : k.item[x] = l.item[x]
  BY DEF Part
<1>5. IsList(k, s)
  BY ReadsPart
<1> HIDE DEF k
<1>6. IsList(n, t)
  BY <1>1, <1>3, <1>4, <1>5, AppendIsAppend
<1>7. /\ m.head = n.head /\ m.tail = n.tail /\ m.count = n.count
      /\ DOMAIN m.item = DOMAIN l.item \cup {a} /\ m.item[a].data = d
      /\ DOMAIN n.item = Range(s) \cup {a} /\ n.item[a].data = d
  BY <1>4 DEF AP_list_append
<1>8. \A x \in Range(s) \cup {a} : SameItem(m.item[x], n.item[x])
  BY <1>3, <1>4 DEF AP_list_append, SameItem
<1>9. \A x \in DOMAIN l.item : x # a =>
        m.item[x].data = l.item[x].data /\ m.item[x].prev = l.item[x].prev
        /\ (x # l.tail => m.item[x].next = l.item[x].next)
  BY DEF AP_list_append
<1>10. \A x \in Range(s) : n.item[x].data = l.item[x].data
  BY <1>3, <1>4 DEF AP_list_append
<1>11. m \in Views
  BY AppendView
<1> HIDE DEF n, m
<1>12. /\ t \in Seq(Nat) /\ w \in Seq(ListData) /\ Len(t) = Len(s) + 1 /\ Len(w) = Len(t)
       /\ \A i \in 1 .. Len(s) : t[i] = s[i] /\ w[i] = v[i]
       /\ t[Len(s) + 1] = a /\ w[Len(s) + 1] = d
  BY <1>1
<1> HIDE DEF t, w
<1>13. \A i \in 1 .. Len(t) : n.item[t[i]].data = w[i] /\ t[i] \in Range(s) \cup {a}
  <2> TAKE i \in 1 .. Len(t)
  <2>1. CASE i = Len(s) + 1
    BY <2>1, <1>7, <1>12
  <2>2. CASE i \in 1 .. Len(s)
    <3>1. s[i] \in Range(s) /\ t[i] = s[i] /\ w[i] = v[i]
      BY <2>2, <1>1, <1>12, SeqFacts
    <3> QED
      BY <2>2, <3>1, <1>2, <1>10
  <2> QED
    BY <2>1, <2>2, <1>1, <1>12
<1>14. Reads(n, t, w)
  BY <1>6, <1>12, <1>13, ListReads
<1>15. Reads(m, t, w)
  <2>1. \A i \in 1 .. Len(t) : t[i] \in DOMAIN m.item /\ SameItem(m.item[t[i]], n.item[t[i]])
    BY <1>3, <1>7, <1>8, <1>13
  <2> QED
    BY <1>7, <1>14, <2>1, ReadsSame
<1>16. Leaves(l, m, s)
  <2> SUFFICES ASSUME NEW x \in DOMAIN l.item, x \notin Range(s)
               PROVE  x \in DOMAIN m.item /\ SameItem(m.item[x], l.item[x])
    BY DEF Leaves
  <2>1. x # l.tail /\ x # a
    BY <1>2, ViewFacts
  <2> QED
    BY <2>1, <1>7, <1>9 DEF SameItem
<1> QED
  BY <1>7, <1>11, <1>15, <1>16 DEF m, t, w

\* AP_list_prepend gives a list.
LEMMA PrependView ==
  ASSUME NEW l \in Views, NEW a \in Nat \ {NoItem}, NEW d \in ListData
  PROVE  AP_list_prepend(l, a, d) \in Views
<1> DEFINE D == DOMAIN l.item \cup {a}
           i(x) == IF x = a THEN [data |-> d, prev |-> NoItem, next |-> l.head]
                   ELSE IF x = l.head THEN [l.item[x] EXCEPT !.prev = a]
                   ELSE l.item[x]
           f == [x \in D |-> i(x)]
           t == IF l.tail # NoItem THEN l.tail ELSE a
           c == l.count + 1
<1>1. AP_list_prepend(l, a, d) = [head |-> a, tail |-> t, count |-> c, item |-> f]
  BY DEF AP_list_prepend
<1>2. \A x \in D : i(x) \in ItemType
  <2> TAKE x \in D
  <2>1. CASE x = a
    BY <2>1, ViewFacts DEF ItemType, NoItem
  <2>2. CASE x # a
    <3>1. l.item[x] \in ItemType
      BY <2>2, ViewFacts
    <3>2. [l.item[x] EXCEPT !.prev = a] \in ItemType
      BY <3>1 DEF ItemType
    <3> QED
      BY <2>2, <3>1, <3>2
  <2> QED
    BY <2>1, <2>2
<1> HIDE DEF i
<1>3. f \in [D -> ItemType]
  BY <1>2
<1>4. D \subseteq Nat \ {NoItem} /\ t \in Nat /\ c \in Nat
  BY ViewFacts
<1> HIDE DEF D, f, t, c
<1> QED
  BY <1>1, <1>3, <1>4, MakeView

\* AP_list_prepend adds an item before the others.
LEMMA PrependReads ==
  ASSUME NEW l \in Views, NEW s, NEW v, Reads(l, s, v),
         NEW a \in Nat \ {NoItem}, a \notin DOMAIN l.item, NEW d \in ListData
  PROVE  LET m == AP_list_prepend(l, a, d) IN
         /\ m \in Views /\ DOMAIN m.item = DOMAIN l.item \cup {a} /\ m.item[a].data = d
         /\ Reads(m, <<a>> \o s, <<d>> \o v) /\ Leaves(l, m, s)
<1> DEFINE m == AP_list_prepend(l, a, d)
           t == <<a>> \o s
           w == <<d>> \o v
           n == Len(s)
<1>1. s \in Seq(Nat) /\ v \in Seq(ListData) /\ Len(v) = n /\ n \in Nat
  BY DEF Reads
<1>2. /\ t \in Seq(Nat) /\ w \in Seq(ListData) /\ Len(t) = n + 1 /\ Len(w) = n + 1
      /\ t[1] = a /\ w[1] = d
      /\ \A i \in 1 .. n : t[i + 1] = s[i] /\ w[i + 1] = v[i]
  <2>1. /\ <<a>> \in Seq(Nat) /\ <<d>> \in Seq(ListData) /\ Len(<<a>>) = 1 /\ Len(<<d>>) = 1
        /\ <<a>>[1] = a /\ <<d>>[1] = d
    OBVIOUS
  <2> QED
    BY <1>1, <2>1, ConcatProperties
<1>3. \A i \in 1 .. n + 1 : i = 1 \/ (i - 1 \in 1 .. n /\ (i - 1) + 1 = i)
  BY <1>1
<1>4. /\ \A i \in 1 .. n :
           /\ s[i] \in DOMAIN l.item /\ s[i] # NoItem /\ l.item[s[i]].data = v[i]
           /\ l.item[s[i]].next = IF i = n THEN NoItem ELSE s[i + 1]
           /\ l.item[s[i]].prev = IF i = 1 THEN NoItem ELSE s[i - 1]
      /\ \A i, j \in 1 .. n : s[i] = s[j] => i = j
      /\ l.count = n
      /\ l.head = IF n = 0 THEN NoItem ELSE s[1]
      /\ l.tail = IF n = 0 THEN NoItem ELSE s[n]
  BY DEF Reads
<1>5. /\ m.head = a /\ m.count = l.count + 1
      /\ m.tail = IF l.tail # NoItem THEN l.tail ELSE a
      /\ DOMAIN m.item = DOMAIN l.item \cup {a}
      /\ m.item[a].data = d /\ m.item[a].prev = NoItem /\ m.item[a].next = l.head
  BY DEF AP_list_prepend
<1>6. \A x \in DOMAIN l.item :
        /\ m.item[x].data = l.item[x].data /\ m.item[x].next = l.item[x].next
        /\ m.item[x].prev = IF x = l.head THEN a ELSE l.item[x].prev
  <2> TAKE x \in DOMAIN l.item
  <2>1. l.item[x] \in ItemType
    BY ViewFacts
  <2>2. m.item[x] = IF x = l.head THEN [l.item[x] EXCEPT !.prev = a] ELSE l.item[x]
    BY DEF AP_list_prepend
  <2> QED
    BY <2>1, <2>2 DEF ItemType
<1>7. m \in Views
  BY PrependView
<1> HIDE DEF m, t, w, n
<1>8. ASSUME NEW i \in 1 .. n + 1
      PROVE  /\ t[i] \in DOMAIN m.item /\ t[i] # NoItem /\ m.item[t[i]].data = w[i]
             /\ m.item[t[i]].next = IF i = n + 1 THEN NoItem ELSE t[i + 1]
             /\ m.item[t[i]].prev = IF i = 1 THEN NoItem ELSE t[i - 1]
  <2>1. CASE i = 1
    <3>1. l.head = IF 1 = n + 1 THEN NoItem ELSE t[1 + 1]
      BY <1>1, <1>2, <1>4
    <3> QED
      BY <2>1, <3>1, <1>2, <1>5
  <2>2. CASE i # 1
    <3>1. PICK j \in 1 .. n : i = j + 1
      BY <2>2, <1>3
    <3>2. t[i] = s[j] /\ w[i] = v[j] /\ s[j] \in DOMAIN l.item
      BY <3>1, <1>2, <1>4
    <3>3. l.item[s[j]].next = IF i = n + 1 THEN NoItem ELSE t[i + 1]
      <4>1. (j = n <=> i = n + 1) /\ (j # n => j + 1 \in 1 .. n /\ i + 1 = (j + 1) + 1)
        BY <3>1, <1>1
      <4>2. j # n => t[i + 1] = s[j + 1]
        BY <4>1, <1>2
      <4>3. l.item[s[j]].next = IF j = n THEN NoItem ELSE s[j + 1]
        BY <1>4
      <4> QED
        BY <4>1, <4>2, <4>3
    <3>4. (IF s[j] = l.head THEN a ELSE l.item[s[j]].prev) = t[i - 1]
      <4>1. i - 1 = j /\ n # 0 /\ 1 \in 1 .. n
        BY <3>1, <1>1
      <4>2. s[j] = l.head <=> j = 1
        BY <4>1, <1>4
      <4>3. j # 1 => j - 1 \in 1 .. n /\ (j - 1) + 1 = j
        BY <1>1
      <4>4. j # 1 => t[j] = s[j - 1]
        BY <4>3, <1>2
      <4>5. l.item[s[j]].prev = IF j = 1 THEN NoItem ELSE s[j - 1]
        BY <1>4
      <4> QED
        BY <4>1, <4>2, <4>4, <4>5, <1>2
    <3>5. t[i] \in DOMAIN m.item /\ t[i] # NoItem /\ m.item[t[i]].data = w[i]
      BY <3>2, <1>4, <1>5, <1>6
    <3> QED
      BY <2>2, <3>2, <3>3, <3>4, <3>5, <1>6
  <2> QED
    BY <2>1, <2>2
<1>9. ASSUME NEW i \in 1 .. n + 1, NEW j \in 1 .. n + 1, t[i] = t[j]
      PROVE  i = j
  <2>1. \A y \in 1 .. n + 1 : y # 1 => t[y] # a
    <3> TAKE y \in 1 .. n + 1
    <3> HAVE y # 1
    <3>1. PICK x \in 1 .. n : y = x + 1
      BY <1>3
    <3>2. t[y] = s[x] /\ s[x] # a
      BY <3>1, <1>2, <1>4
    <3> QED
      BY <3>2
  <2>2. CASE i = 1 \/ j = 1
    BY <2>1, <2>2, <1>2, <1>9
  <2>3. CASE i # 1 /\ j # 1
    <3>1. PICK x \in 1 .. n, y \in 1 .. n : i = x + 1 /\ j = y + 1
      BY <2>3, <1>3
    <3>2. s[x] = s[y]
      BY <3>1, <1>2, <1>9
    <3> QED
      BY <3>1, <3>2, <1>4
  <2> QED
    BY <2>2, <2>3
<1>10. m.tail = t[n + 1]
  <2>1. n # 0 => n \in 1 .. n
    BY <1>1
  <2>2. n # 0 => t[n + 1] = s[n] /\ s[n] # NoItem
    BY <2>1, <1>2, <1>4
  <2>3. n = 0 => t[n + 1] = a
    BY <1>2
  <2> QED
    BY <2>2, <2>3, <1>4, <1>5
<1>11. Reads(m, t, w)
  <2>1. n + 1 # 0
    BY <1>1
  <2>2. /\ m.count = Len(t)
        /\ m.head = IF Len(t) = 0 THEN NoItem ELSE t[1]
        /\ m.tail = IF Len(t) = 0 THEN NoItem ELSE t[Len(t)]
    BY <2>1, <1>2, <1>4, <1>5, <1>10
  <2> QED
    BY <2>2, <1>2, <1>8, <1>9 DEF Reads
<1>12. Leaves(l, m, s)
  <2> SUFFICES ASSUME NEW x \in DOMAIN l.item, x \notin Range(s)
               PROVE  x \in DOMAIN m.item /\ SameItem(m.item[x], l.item[x])
    BY DEF Leaves
  <2>1. x # l.head
    <3>1. n # 0 => 1 \in 1 .. n
      BY <1>1
    <3>2. n # 0 => s[1] \in Range(s)
      BY <3>1, <1>1, SeqFacts DEF n
    <3> QED
      BY <3>2, <1>4, ViewFacts
  <2> QED
    BY <2>1, <1>5, <1>6 DEF SameItem
<1> QED
  BY <1>5, <1>7, <1>11, <1>12 DEF m, t, w

\* The sequence without its k-th element
LEMMA RemoveFacts ==
  ASSUME NEW S, NEW s \in Seq(S), NEW k \in 1 .. Len(s)
  PROVE  /\ RemoveAt(s, k) \in Seq(S) /\ RemoveAt(s, k) = Dropped(s, k)
         /\ Len(RemoveAt(s, k)) = Len(s) - 1 /\ Len(s) - 1 \in Nat
         /\ \A i \in 1 .. Len(s) - 1 :
              RemoveAt(s, k)[i] = IF i < k THEN s[i] ELSE s[i + 1]
<1> DEFINE a == SubSeq(s, 1, k - 1)
           b == SubSeq(s, k + 1, Len(s))
<1>1. Len(s) \in Nat /\ k \in Nat /\ 1 <= k /\ k <= Len(s)
  OBVIOUS
<1>2. /\ a \in Seq(S) /\ Len(a) = k - 1 /\ \A i \in 1 .. k - 1 : a[i] = s[i]
      /\ b \in Seq(S) /\ Len(b) = Len(s) - k /\ \A i \in 1 .. Len(s) - k : b[i] = s[k + i]
  OBVIOUS
<1>3. RemoveAt(s, k) = a \o b
  BY DEF RemoveAt
<1> HIDE DEF a, b
<1>4. /\ RemoveAt(s, k) \in Seq(S) /\ Len(RemoveAt(s, k)) = Len(s) - 1 /\ Len(s) - 1 \in Nat
  <2>1. a \o b \in Seq(S) /\ Len(a \o b) = Len(a) + Len(b)
    BY <1>2, ConcatProperties
  <2> QED
    BY <2>1, <1>1, <1>2, <1>3
<1>5. ASSUME NEW i \in 1 .. Len(s) - 1
      PROVE  RemoveAt(s, k)[i] = IF i < k THEN s[i] ELSE s[i + 1]
  <2>1. CASE i < k
    <3>1. i \in 1 .. k - 1 /\ i \in 1 .. Len(a)
      BY <2>1, <1>1, <1>2
    <3> QED
      BY <3>1, <2>1, <1>2, <1>3
  <2>2. CASE ~(i < k)
    <3>1. i - (k - 1) \in 1 .. Len(s) - k /\ k + (i - (k - 1)) = i + 1
      BY <2>2, <1>1
    <3>2. (a \o b)[i] = b[i - (k - 1)]
      BY <2>2, <3>1, <1>1, <1>2, SMTT(30)
    <3> QED
      BY <3>1, <3>2, <2>2, <1>2, <1>3
  <2> QED
    BY <2>1, <2>2
<1>6. RemoveAt(s, k) = [i \in 1 .. Len(s) - 1 |-> IF i < k THEN s[i] ELSE s[i + 1]]
  BY <1>4, <1>5
<1> QED
  BY <1>4, <1>5, <1>6 DEF Dropped

\* AP_list_delete_item gives a list.
LEMMA DeleteView ==
  ASSUME NEW l \in Views, NEW a \in DOMAIN l.item, l.count # 0
  PROVE  AP_list_delete_item(l, a) \in Views
<1> DEFINE D == DOMAIN l.item \ {a}
           i == l.item[a]
           it(x) == [data |-> l.item[x].data,
                     next |-> IF a # l.head /\ x = i.prev THEN i.next ELSE l.item[x].next,
                     prev |-> IF a # l.tail /\ x = i.next THEN i.prev ELSE l.item[x].prev]
           f == [x \in D |-> it(x)]
           h == IF a = l.head THEN i.next ELSE l.head
           t == IF a = l.tail THEN i.prev ELSE l.tail
           c == l.count - 1
<1>1. AP_list_delete_item(l, a) = [head |-> h, tail |-> t, count |-> c, item |-> f]
  BY DEF AP_list_delete_item
<1>2. \A x \in D : it(x) \in ItemType
  BY ViewFacts DEF ItemType
<1> HIDE DEF it
<1>3. f \in [D -> ItemType]
  BY <1>2
<1>4. D \subseteq Nat \ {NoItem} /\ h \in Nat /\ t \in Nat /\ c \in Nat
  BY ViewFacts
<1> HIDE DEF D, f, h, t, c
<1> QED
  BY <1>1, <1>3, <1>4, MakeView, ZenonT(30)

\* AP_list_delete_item takes an item out of one list and off the heap.
LEMMA DeleteReads ==
  ASSUME NEW l \in Views, NEW s, NEW v, Reads(l, s, v), NEW k \in 1 .. Len(s)
  PROVE  LET m == AP_list_delete_item(l, s[k]) IN
         /\ m \in Views /\ DOMAIN m.item = DOMAIN l.item \ {s[k]}
         /\ Reads(m, RemoveAt(s, k), RemoveAt(v, k)) /\ Leaves(l, m, s)
<1> DEFINE q == Part(l, s)
           n == AP_list_delete_item(q, s[k])
           m == AP_list_delete_item(l, s[k])
           t == RemoveAt(s, k)
           w == RemoveAt(v, k)
<1>1. s \in Seq(Nat) /\ v \in Seq(ListData) /\ Len(v) = Len(s) /\ Len(s) \in Nat
      /\ k \in 1 .. Len(v)
  BY DEF Reads
<1>2. /\ \A i \in 1 .. Len(s) : /\ s[i] \in DOMAIN l.item /\ l.item[s[i]].data = v[i]
                                /\ l.item[s[i]].next = IF i = Len(s) THEN NoItem ELSE s[i + 1]
                                /\ l.item[s[i]].prev = IF i = 1 THEN NoItem ELSE s[i - 1]
      /\ \A i, j \in 1 .. Len(s) : s[i] = s[j] => i = j
      /\ l.count = Len(s)
  BY DEF Reads
<1>3. Range(s) \subseteq DOMAIN l.item /\ s[k] \in Range(s)
  BY <1>1, <1>2, SeqFacts
<1>4. /\ q.head = l.head /\ q.tail = l.tail /\ q.count = l.count
      /\ DOMAIN q.item = Range(s) /\ \A x \in Range(s) : q.item[x] = l.item[x]
  BY DEF Part
<1>5. IsList(q, s)
  BY ReadsPart
<1> HIDE DEF q
<1>6. IsList(n, t)
  BY <1>1, <1>5, DeleteIsRemove, RemoveFacts
<1>7. /\ m.head = n.head /\ m.tail = n.tail /\ m.count = n.count
      /\ DOMAIN m.item = DOMAIN l.item \ {s[k]} /\ DOMAIN n.item = Range(s) \ {s[k]}
  BY <1>3, <1>4 DEF AP_list_delete_item
<1>8. \A x \in Range(s) \ {s[k]} : SameItem(m.item[x], n.item[x])
  BY <1>3, <1>4 DEF AP_list_delete_item, SameItem
<1>9. \A x \in DOMAIN l.item \ {s[k]} :
        /\ m.item[x].data = l.item[x].data
        /\ x # l.item[s[k]].prev => m.item[x].next = l.item[x].next
        /\ x # l.item[s[k]].next => m.item[x].prev = l.item[x].prev
  BY DEF AP_list_delete_item
<1>10. \A x \in Range(s) \ {s[k]} : n.item[x].data = l.item[x].data
  BY <1>3, <1>4 DEF AP_list_delete_item
<1>11. m \in Views
  BY <1>1, <1>2, DeleteView
<1> HIDE DEF n, m
<1>12. /\ t \in Seq(Nat) /\ w \in Seq(ListData) /\ Len(t) = Len(s) - 1 /\ Len(w) = Len(t)
       /\ \A i \in 1 .. Len(s) - 1 : /\ t[i] = IF i < k THEN s[i] ELSE s[i + 1]
                                     /\ w[i] = IF i < k THEN v[i] ELSE v[i + 1]
  BY <1>1, RemoveFacts
<1> HIDE DEF t, w
<1>13. \A i \in 1 .. Len(t) : n.item[t[i]].data = w[i] /\ t[i] \in Range(s) \ {s[k]}
  <2> TAKE i \in 1 .. Len(t)
  <2>1. PICK j \in 1 .. Len(s) : j # k /\ t[i] = s[j] /\ w[i] = v[j]
    <3>1. i \in 1 .. Len(s) /\ i + 1 \in 1 .. Len(s) /\ i \in 1 .. Len(s) - 1
      BY <1>1, <1>12
    <3>2. CASE i < k
      BY <3>1, <3>2, <1>12
    <3>3. CASE ~(i < k)
      <4>1. i + 1 # k
        BY <3>1, <3>3
      <4> QED
        BY <3>1, <3>3, <4>1, <1>12
    <3> QED
      BY <3>2, <3>3
  <2>2. s[j] \in Range(s) \ {s[k]} /\ l.item[s[j]].data = v[j]
    BY <2>1, <1>1, <1>2, SeqFacts
  <2>3. n.item[s[j]].data = l.item[s[j]].data
    BY <2>2, <1>10
  <2> QED
    BY <2>1, <2>2, <2>3
<1>14. Reads(n, t, w)
  BY <1>6, <1>12, <1>13, ListReads
<1>15. Reads(m, t, w)
  <2>1. \A i \in 1 .. Len(t) : t[i] \in DOMAIN m.item /\ SameItem(m.item[t[i]], n.item[t[i]])
    BY <1>3, <1>7, <1>8, <1>13
  <2> QED
    BY <1>7, <1>14, <2>1, ReadsSame
<1>16. Leaves(l, m, s)
  <2> SUFFICES ASSUME NEW x \in DOMAIN l.item, x \notin Range(s)
               PROVE  x \in DOMAIN m.item /\ SameItem(m.item[x], l.item[x])
    BY DEF Leaves
  <2>1. x # s[k]
    BY <1>3
  <2>2. \A i \in 1 .. Len(s) : x # s[i] /\ x # NoItem
    BY <1>1, SeqFacts, ViewFacts
  <2>3. x # l.item[s[k]].prev
    <3>1. k # 1 => k - 1 \in 1 .. Len(s)
      BY <1>1
    <3> QED
      BY <3>1, <2>2, <1>2
  <2>4. x # l.item[s[k]].next
    <3>1. k # Len(s) => k + 1 \in 1 .. Len(s)
      BY <1>1
    <3> QED
      BY <3>1, <2>2, <1>2
  <2> QED
    BY <2>1, <2>3, <2>4, <1>7, <1>9 DEF SameItem
<1> QED
  BY <1>7, <1>11, <1>15, <1>16 DEF m, t, w

-----------------------------------------------------------------------------
(* Searches and loops *)

\* The first place of d in v, 0 when there is none
First(v, d) == SelectInSeq(v, LAMBDA x : x = d)

\* The first place of a datum, 0 for none
LEMMA FirstFacts ==
  ASSUME NEW S, NEW v \in Seq(S), NEW d
  PROVE  \/ First(v, d) = 0 /\ \A i \in 1 .. Len(v) : v[i] # d
         \/ /\ First(v, d) \in 1 .. Len(v) /\ v[First(v, d)] = d /\ First(v, d) # 0
            /\ \A i \in 1 .. Len(v) : v[i] = d => First(v, d) <= i
<1> DEFINE I == {i \in 1 .. Len(v) : v[i] = d}
<1>1. First(v, d) = IF I # {} THEN Min(I) ELSE 0
  BY DEF First, SelectInSeq
<1>2. CASE I = {}
  BY <1>1, <1>2
<1>3. CASE I # {}
  <2>1. \E x \in I : \A y \in I : x <= y
    <3>1. I \subseteq Nat
      OBVIOUS
    <3> HIDE DEF I
    <3> QED BY <3>1, <1>3, LeastNumber
  <2> DEFINE k == Min(I)
  <2>2. k \in I /\ \A y \in I : k <= y
    <3> HIDE DEF I
    <3> QED BY <2>1, Zenon DEF Min
  <2>3. First(v, d) = k
    BY <1>1, <1>3
  <2> HIDE DEF k
  <2> QED
    BY <2>2, <2>3
<1> QED
  BY <1>2, <1>3

\* In a sequence without repetition that is the only place.
LEMMA FirstAt ==
  ASSUME NEW S, NEW s \in Seq(S), NEW k \in 1 .. Len(s),
         \A i, j \in 1 .. Len(s) : s[i] = s[j] => i = j
  PROVE  First(s, s[k]) = k
<1>1. First(s, s[k]) \in 1 .. Len(s) /\ s[First(s, s[k])] = s[k]
  BY FirstFacts
<1> QED
  BY <1>1

\* AP_list_search gives the address at the first place of the datum.
LEMMA SearchReads ==
  ASSUME NEW l, NEW s, NEW v, Reads(l, s, v), IsFiniteSet(DOMAIN l.item), NEW d
  PROVE  AP_list_search(l, d) = IF First(v, d) = 0 THEN NoItem ELSE s[First(v, d)]
<1> DEFINE I == {i \in 1 .. Len(s) : l.item[s[i]].data \in {d}}
           J == {i \in 1 .. Len(v) : v[i] = d}
           k == First(v, d)
<1>1. Visited(l) = s
  BY ReadsVisited
<1>2. I = J
  <2>1. Len(v) = Len(s) /\ \A i \in 1 .. Len(s) : l.item[s[i]].data = v[i]
    BY DEF Reads
  <2> QED
    BY <2>1
<1>3. k = IF J # {} THEN Min(J) ELSE 0
  BY DEF First, SelectInSeq
<1>4. AP_list_search(l, d)
        = LET i == IF I # {} THEN Min(I) ELSE 0
          IN  IF i = 0 THEN NoItem ELSE s[i]
  BY <1>1 DEF AP_list_search, AP_list_search_func, SelectInSeq
<1> HIDE DEF I, J, k
<1> QED
  BY <1>2, <1>3, <1>4 DEF k

\* malloc gives an address that is not in use.
LEMMA MallocNew ==
  ASSUME NEW l, IsFiniteSet(DOMAIN l.item)
  PROVE  Malloc(l) \in Nat \ {NoItem} /\ Malloc(l) \notin DOMAIN l.item
<1> DEFINE D == DOMAIN l.item
           n == Cardinality(D)
<1>1. IsFiniteSet(D) /\ n \in Nat
  BY FS_CardinalityType
<1>2. \E a \in 1 .. n + 1 : a \notin D
  <2> SUFFICES ASSUME 1 .. n + 1 \subseteq D PROVE FALSE
    OBVIOUS
  <2>1. Cardinality(1 .. n + 1) = n + 1
    BY <1>1, FS_Interval
  <2>2. Cardinality(1 .. n + 1) <= n
    BY <1>1, FS_Subset
  <2> QED BY <1>1, <2>1, <2>2
<1>3. Malloc(l) \in 1 .. n + 1 /\ Malloc(l) \notin D
  <2> HIDE DEF n
  <2>1. Malloc(l) = CHOOSE a \in 1 .. n + 1 : a \notin D
    BY DEF Malloc, n
  <2> QED BY <1>2, <2>1, Zenon
<1> QED BY <1>1, <1>3 DEF NoItem

\* The number of places of d among the first i of v grows by one where d is.
LEMMA PlacesGrow ==
  ASSUME NEW v \in Seq(ListData), NEW d, NEW i \in 1 .. Len(v)
  PROVE  /\ Cardinality({j \in 1 .. i - 1 : v[j] = d}) \in Nat
         /\ Cardinality({j \in 1 .. i : v[j] = d})
              = Cardinality({j \in 1 .. i - 1 : v[j] = d}) + (IF v[i] = d THEN 1 ELSE 0)
<1> DEFINE A == {j \in 1 .. i - 1 : v[j] = d}
           B == {j \in 1 .. i : v[j] = d}
<1>1. i \in Nat /\ i - 1 \in Int /\ 1 .. i = (1 .. i - 1) \cup {i} /\ i \notin 1 .. i - 1
  OBVIOUS
<1>2. IsFiniteSet(1 .. i - 1)
  BY <1>1, FS_Interval
<1>3. IsFiniteSet(A)
  BY <1>2, FS_Subset
<1>4. i \notin A /\ B = IF v[i] = d THEN A \cup {i} ELSE A
  BY <1>1
<1> HIDE DEF A, B
<1>5. Cardinality(A) \in Nat /\ Cardinality(A \cup {i}) = Cardinality(A) + 1
  BY <1>3, <1>4, FS_CardinalityType, FS_AddElement
<1>6. Cardinality(B) = Cardinality(A) + (IF v[i] = d THEN 1 ELSE 0)
  BY <1>4, <1>5
<1> QED
  BY <1>5, <1>6 DEF A, B

\* AP_list_apply, of a function that is one for d only, counts the places of d.
LEMMA ApplyReads ==
  ASSUME NEW l, NEW s, NEW v, Reads(l, s, v), IsFiniteSet(DOMAIN l.item), NEW d \in ListData
  PROVE  AP_list_apply(l, [x \in ListData |-> IF x = d THEN 1 ELSE 0])
           = Cardinality({i \in 1 .. Len(v) : v[i] = d})
<1> DEFINE func == [x \in ListData |-> IF x = d THEN 1 ELSE 0]
           n == Len(s)
           c(i) == Cardinality({j \in 1 .. i : v[j] = d})
           P(f) == f = [i \in 0 .. n |->
                          IF i = 0 THEN 0 ELSE f[i - 1] + func[l.item[s[i]].data]]
           total == CHOOSE f : P(f)
           step == [z \in (1 .. n) \X Nat |-> z[2] + func[l.item[s[z[1]]].data]]
           G == [i \in 0 .. n |-> {c(i)}]
<1>1. s \in Seq(Nat) /\ v \in Seq(ListData) /\ Len(v) = n /\ n \in Nat
      /\ \A i \in 1 .. n : l.item[s[i]].data = v[i]
  BY DEF Reads
<1>2. \A i \in 1 .. n : func[l.item[s[i]].data] = IF v[i] = d THEN 1 ELSE 0
  <2> TAKE i \in 1 .. n
  <2>1. v[i] \in ListData /\ l.item[s[i]].data = v[i]
    BY <1>1
  <2> QED
    BY <2>1
<1>3. AP_list_apply(l, func) = total[n]
  <2>1. Visited(l) = s
    BY ReadsVisited
  <2> HIDE DEF func
  <2> QED
    BY <2>1 DEF AP_list_apply
<1>4. \A i \in 1 .. n : c(i - 1) \in Nat /\ c(i) = c(i - 1) + (IF v[i] = d THEN 1 ELSE 0)
  <2> TAKE i \in 1 .. n
  <2>1. i \in 1 .. Len(v) /\ v \in Seq(ListData)
    BY <1>1
  <2>2. /\ Cardinality({j \in 1 .. i - 1 : v[j] = d}) \in Nat
        /\ Cardinality({j \in 1 .. i : v[j] = d})
             = Cardinality({j \in 1 .. i - 1 : v[j] = d}) + (IF v[i] = d THEN 1 ELSE 0)
    BY <2>1, PlacesGrow, Zenon
  <2> QED
    BY <2>2
<1>5. c(0) = 0
  <2>1. {j \in 1 .. 0 : v[j] = d} = {}
    OBVIOUS
  <2> QED
    BY <2>1, FS_EmptySet
<1>6. \A i \in 0 .. n : G[i] = {c(i)}
  OBVIOUS
<1>7. \A i \in 1 .. n : \A x \in Nat : step[<<i, x>>] = x + func[l.item[s[i]].data]
  <2> HIDE DEF func
  <2> QED OBVIOUS
<1> HIDE DEF func, c, G, step
<1>8. Leads(n, 0, step, G)
  <2>1. 0 \in G[0]
    <3>1. 0 \in 0 .. n
      BY <1>1
    <3> QED
      BY <3>1, <1>5, <1>6
  <2>2. ASSUME NEW i \in 1 .. n, NEW x \in G[i - 1] PROVE step[<<i, x>>] \in G[i]
    <3>1. i \in 0 .. n /\ i - 1 \in 0 .. n
      BY <1>1
    <3>2. x = c(i - 1) /\ x \in Nat
      BY <3>1, <1>4, <1>6
    <3>3. step[<<i, x>>] = x + func[l.item[s[i]].data]
      BY <3>2, <1>7
    <3>4. step[<<i, x>>] = c(i)
      BY <3>2, <3>3, <1>2, <1>4
    <3> QED
      BY <3>1, <3>4, <1>6
  <2> QED
    BY <2>1, <2>2, <1>1 DEF Leads
<1>9. PICK f : Recursion(n, 0, step, f) /\ \A i \in 0 .. n : f[i] \in G[i]
  BY <1>8, RecursionExists
<1>10. P(f)
  <2>1. f = [i \in 0 .. n |-> IF i = 0 THEN 0 ELSE step[<<i, f[i - 1]>>]]
    BY <1>9 DEF Recursion
  <2>2. ASSUME NEW i \in 0 .. n, i # 0
        PROVE  step[<<i, f[i - 1]>>] = f[i - 1] + func[l.item[s[i]].data]
    <3>1. i \in 1 .. n /\ i - 1 \in 0 .. n
      BY <2>2, <1>1
    <3>2. f[i - 1] \in Nat
      BY <3>1, <1>4, <1>6, <1>9
    <3> QED
      BY <3>1, <3>2, <1>7
  <2>3. [i \in 0 .. n |-> IF i = 0 THEN 0 ELSE step[<<i, f[i - 1]>>]]
          = [i \in 0 .. n |-> IF i = 0 THEN 0 ELSE f[i - 1] + func[l.item[s[i]].data]]
    BY <2>2
  <2> QED
    BY <2>1, <2>3
<1>11. P(total)
  <2>1. \E g : P(g)
    BY <1>10
  <2> HIDE DEF P
  <2> QED
    BY <2>1, Zenon
<1> HIDE DEF total
<1>12. \A i \in 0 .. n : total[i] = IF i = 0 THEN 0 ELSE total[i - 1] + func[l.item[s[i]].data]
  BY <1>11
<1> DEFINE T == {i \in 0 .. n : total[i] = c(i)}
<1>13. 0 \in T
  <2>1. 0 \in 0 .. n
    BY <1>1
  <2> QED
    BY <2>1, <1>5, <1>12
<1>14. \A i \in 0 .. n - 1 : i \in T => i + 1 \in T
  <2> TAKE i \in 0 .. n - 1
  <2> HAVE i \in T
  <2>1. i + 1 \in 1 .. n /\ i + 1 \in 0 .. n /\ (i + 1) - 1 = i /\ i + 1 # 0
    BY <1>1
  <2>2. total[i + 1] = total[i] + func[l.item[s[i + 1]].data]
    BY <2>1, <1>12
  <2>3. total[i + 1] = c(i + 1)
    BY <2>1, <2>2, <1>2, <1>4
  <2> QED
    BY <2>1, <2>3
<1> HIDE DEF T
<1>15. 0 .. n \subseteq T
  BY <1>1, <1>13, <1>14, BoundedInduction
<1>16. total[n] = c(n)
  <2>1. n \in 0 .. n
    BY <1>1
  <2> QED
    BY <2>1, <1>15 DEF T
<1> QED
  BY <1>1, <1>3, <1>16 DEF func, c

\* The addresses of a sequence that is longer by one
LEMMA RangeAppend ==
  ASSUME NEW S, NEW t \in Seq(S), NEW a \in S
  PROVE  Range(Append(t, a)) = Range(t) \cup {a}
<1> DEFINE u == Append(t, a)
<1>1. /\ u \in Seq(S) /\ Len(u) = Len(t) + 1 /\ Len(t) \in Nat
      /\ \A i \in 1 .. Len(t) : u[i] = t[i]
      /\ u[Len(t) + 1] = a
  OBVIOUS
<1>2. \A i : i \in 1 .. Len(t) + 1 <=> i \in 1 .. Len(t) \/ i = Len(t) + 1
  BY <1>1
<1> HIDE DEF u
<1>3. \A x : x \in Range(u) <=> \E i \in 1 .. Len(u) : u[i] = x
  BY <1>1, SeqFacts
<1>4. \A x : x \in Range(t) <=> \E i \in 1 .. Len(t) : t[i] = x
  BY SeqFacts
<1>5. \A x : x \in Range(u) <=> x \in Range(t) \/ x = a
  BY <1>1, <1>2, <1>3, <1>4
<1>6. Range(u) = Range(t) \cup {a}
  BY <1>5
<1> QED
  BY <1>6 DEF u

\* The list m is new beside l on the same heap and has the data w.
Copied(l, m, w) ==
  /\ m \in Views /\ IsFiniteSet(DOMAIN m.item)
  /\ \E t \in Seq(Nat) :
       /\ Reads(m, t, w) /\ Range(t) \cap DOMAIN l.item = {}
       /\ DOMAIN m.item = DOMAIN l.item \cup Range(t)
  /\ \A x \in DOMAIN l.item : SameItem(m.item[x], l.item[x])

\* The states of the loop of AP_list_duplicate
Loops == [prev : Nat, head : Nat, item : Heaps]

\* The fields of such a state are numbers, and its items are those of a heap.
LEMMA LoopFacts ==
  ASSUME NEW c \in Loops
  PROVE  /\ c.prev \in Nat /\ c.head \in Nat /\ DOMAIN c.item \subseteq Nat \ {NoItem}
         /\ \A x \in DOMAIN c.item :
              c.item[x].data \in ListData /\ c.item[x].prev \in Nat /\ c.item[x].next \in Nat
<1> DEFINE l == [head |-> c.head, tail |-> c.prev, count |-> 0, item |-> c.item]
<1>1. c.prev \in Nat /\ c.head \in Nat /\ c.item \in Heaps
  BY DEF Loops
<1>2. l \in Views /\ l.item = c.item
  BY <1>1 DEF Views
<1> HIDE DEF l
<1>3. /\ DOMAIN l.item \subseteq Nat \ {NoItem}
      /\ \A x \in DOMAIN l.item :
           l.item[x].data \in ListData /\ l.item[x].prev \in Nat /\ l.item[x].next \in Nat
  BY <1>2, ViewFacts
<1> QED
  BY <1>1, <1>2, <1>3

\* A round leads to such a state again.
LEMMA RoundIsLoop ==
  ASSUME NEW c \in Loops, NEW a \in Nat \ {NoItem}, NEW d \in ListData
  PROVE  CopyRound(c, a, d) \in Loops
<1> DEFINE D == DOMAIN c.item \cup {a}
           f == [x \in D |->
                   [data |-> IF x = a THEN d ELSE c.item[x].data,
                    prev |-> IF x = a THEN c.prev ELSE c.item[x].prev,
                    next |-> IF x \in {a, c.prev} THEN a ELSE c.item[x].next]]
           h == IF c.prev # NoItem THEN c.head ELSE a
<1>1. CopyRound(c, a, d) = [prev |-> a, head |-> h, item |-> f]
  BY DEF CopyRound
<1>2. \A x \in D : [data |-> IF x = a THEN d ELSE c.item[x].data,
                    prev |-> IF x = a THEN c.prev ELSE c.item[x].prev,
                    next |-> IF x \in {a, c.prev} THEN a ELSE c.item[x].next] \in ItemType
  BY LoopFacts DEF ItemType
<1>3. f \in [D -> ItemType]
  BY <1>2
<1>4. D \in SUBSET (Nat \ {NoItem}) /\ h \in Nat
  BY LoopFacts
<1> HIDE DEF D, f, h
<1>5. f \in Heaps
  BY <1>3, <1>4 DEF Heaps
<1> QED
  BY <1>1, <1>4, <1>5 DEF Loops

\* Were the loop to end after each round, every round would have appended an
\* item, so that the links made by hand are those of AP_list_append.
LEMMA RoundAppends ==
  ASSUME NEW c, NEW n, NEW a, a \notin DOMAIN c.item, NEW d
  PROVE  CopyEnd(CopyRound(c, a, d), n + 1) = AP_list_append(CopyEnd(c, n), a, d)
<1> DEFINE k == CopyRound(c, a, d)
           m == CopyEnd(c, n)
           D == DOMAIN c.item \cup {a}
           h == IF c.prev # NoItem THEN c.head ELSE a
           f == [x \in D |->
                   [data |-> IF x = a THEN d ELSE c.item[x].data,
                    prev |-> IF x = a THEN c.prev ELSE c.item[x].prev,
                    next |-> IF x = a THEN NoItem ELSE IF x = c.prev THEN a ELSE c.item[x].next]]
<1>1. /\ k.prev = a /\ k.head = h /\ DOMAIN k.item = D
      /\ \A x \in D : k.item[x].data = IF x = a THEN d ELSE c.item[x].data
      /\ \A x \in D : k.item[x].prev = IF x = a THEN c.prev ELSE c.item[x].prev
      /\ \A x \in D : k.item[x].next = IF x \in {a, c.prev} THEN a ELSE c.item[x].next
  BY DEF CopyRound
<1>2. CopyEnd(k, n + 1) = [head |-> h, tail |-> a, count |-> n + 1, item |-> f]
  <2>1. \A x \in D : (IF x = a THEN NoItem ELSE k.item[x].next)
                     = IF x = a THEN NoItem ELSE IF x = c.prev THEN a ELSE c.item[x].next
    BY <1>1
  <2>2. [x \in D |-> [data |-> k.item[x].data, prev |-> k.item[x].prev,
                      next |-> IF x = a THEN NoItem ELSE k.item[x].next]] = f
    <3> HIDE DEF D, k
    <3> QED
      BY <1>1, <2>1
  <2> HIDE DEF f, D, h, k
  <2> QED
    BY <1>1, <2>2 DEF CopyEnd
<1>3. /\ m.head = c.head /\ m.tail = c.prev /\ m.count = n /\ DOMAIN m.item = DOMAIN c.item
      /\ \A x \in DOMAIN c.item : m.item[x].data = c.item[x].data
      /\ \A x \in DOMAIN c.item : m.item[x].prev = c.item[x].prev
      /\ \A x \in DOMAIN c.item : x # c.prev => m.item[x].next = c.item[x].next
  BY DEF CopyEnd
<1>4. AP_list_append(m, a, d) = [head |-> h, tail |-> a, count |-> n + 1, item |-> f]
  <2>1. \A x \in D : x # a => x \in DOMAIN c.item
    OBVIOUS
  <2>2. [x \in D |->
           [data |-> IF x = a THEN d ELSE m.item[x].data,
            prev |-> IF x = a THEN c.prev ELSE m.item[x].prev,
            next |-> IF x = a THEN NoItem ELSE IF x = c.prev THEN a ELSE m.item[x].next]] = f
    <3> HIDE DEF D, m
    <3> QED
      BY <1>3, <2>1
  <2>3. DOMAIN m.item \cup {a} = D
    BY <1>3
  <2>4. (IF m.tail # NoItem THEN m.head ELSE a) = h
    BY <1>3
  <2> HIDE DEF f, D, h, m
  <2> QED
    BY <1>3, <2>2, <2>3, <2>4 DEF AP_list_append
<1> QED
  BY <1>2, <1>4

\* AP_list_duplicate begins with a new list,
LEMMA CopyStarts ==
  ASSUME NEW l \in Views, IsFiniteSet(DOMAIN l.item)
  PROVE  LET e == [prev |-> NoItem, head |-> NoItem, item |-> l.item]
         IN  e \in Loops /\ Copied(l, CopyEnd(e, 0), <<>>)
<1> DEFINE e == [prev |-> NoItem, head |-> NoItem, item |-> l.item]
           D == DOMAIN l.item
           f == [x \in D |->
                   [data |-> l.item[x].data, prev |-> l.item[x].prev,
                    next |-> IF x = NoItem THEN NoItem ELSE l.item[x].next]]
           m == CopyEnd(e, 0)
<1>1. e \in Loops
  BY DEF Loops, Views, NoItem
<1>2. m = [head |-> NoItem, tail |-> NoItem, count |-> 0, item |-> f]
  BY DEF CopyEnd
<1>3. /\ m.head = NoItem /\ m.tail = NoItem /\ m.count = 0 /\ m.item = f
      /\ DOMAIN m.item = D /\ \A x \in D : x # NoItem => SameItem(m.item[x], l.item[x])
  BY <1>2 DEF SameItem
<1>4. D \subseteq Nat \ {NoItem} /\ f \in [D -> ItemType]
  BY ViewFacts DEF ItemType
<1> HIDE DEF f, D, m
<1>5. m \in Views
  BY <1>2, <1>4, MakeView DEF NoItem
<1>6. <<>> \in Seq(Nat) /\ <<>> \in Seq(ListData) /\ Len(<<>>) = 0 /\ Range(<<>>) = {}
  BY SeqFacts DEF Range
<1>7. Reads(m, <<>>, <<>>)
  BY <1>3, <1>6 DEF Reads
<1>8. \A x \in D : SameItem(m.item[x], l.item[x])
  BY <1>3, <1>4
<1>9. Range(<<>>) \cap D = {} /\ DOMAIN m.item = D \cup Range(<<>>)
  BY <1>3, <1>6
<1>10. Copied(l, m, <<>>)
  BY <1>3, <1>5, <1>6, <1>7, <1>8, <1>9 DEF Copied, D
<1> QED
  BY <1>1, <1>10 DEF m

\* and what is appended to the copy keeps it one.
LEMMA CopyGoesOn ==
  ASSUME NEW l, NEW m, NEW w, Copied(l, m, w), NEW d \in ListData
  PROVE  Copied(l, AP_list_append(m, Malloc(m), d), Append(w, d))
<1> DEFINE a == Malloc(m)
           k == AP_list_append(m, a, d)
<1>1. m \in Views /\ IsFiniteSet(DOMAIN m.item)
      /\ \A x \in DOMAIN l.item : SameItem(m.item[x], l.item[x])
  BY DEF Copied
<1>2. PICK t \in Seq(Nat) : /\ Reads(m, t, w) /\ Range(t) \cap DOMAIN l.item = {}
                            /\ DOMAIN m.item = DOMAIN l.item \cup Range(t)
  BY DEF Copied
<1>3. a \in Nat \ {NoItem} /\ a \notin DOMAIN m.item
  BY <1>1, MallocNew
<1> HIDE DEF a
<1>4. /\ k \in Views /\ DOMAIN k.item = DOMAIN m.item \cup {a}
      /\ Reads(k, Append(t, a), Append(w, d)) /\ Leaves(m, k, t)
  BY <1>1, <1>2, <1>3, AppendReads
<1> HIDE DEF k
<1>5. Append(t, a) \in Seq(Nat) /\ Range(Append(t, a)) = Range(t) \cup {a}
  BY <1>3, RangeAppend
<1>6. Range(Append(t, a)) \cap DOMAIN l.item = {}
      /\ DOMAIN k.item = DOMAIN l.item \cup Range(Append(t, a))
  BY <1>2, <1>3, <1>4, <1>5
<1>7. IsFiniteSet(DOMAIN k.item)
  BY <1>1, <1>4, FS_AddElement
<1>8. ASSUME NEW x \in DOMAIN l.item PROVE SameItem(k.item[x], l.item[x])
  <2>1. x \in DOMAIN m.item /\ x \notin Range(t)
    BY <1>2
  <2>2. SameItem(k.item[x], m.item[x]) /\ SameItem(m.item[x], l.item[x])
    BY <2>1, <1>1, <1>4 DEF Leaves
  <2> QED
    BY <2>2 DEF SameItem
<1>9. Copied(l, k, Append(w, d))
  BY <1>4, <1>5, <1>6, <1>7, <1>8 DEF Copied
<1> QED
  BY <1>9 DEF k, a

\* The round that the loop makes, as one state leads to the next
LEMMA RoundCopies ==
  ASSUME NEW l, NEW c \in Loops, NEW i \in Nat, NEW w, Copied(l, CopyEnd(c, i), w),
         NEW d \in ListData
  PROVE  /\ CopyRound(c, Malloc(c), d) \in Loops
         /\ Copied(l, CopyEnd(CopyRound(c, Malloc(c), d), i + 1), Append(w, d))
<1> DEFINE m == CopyEnd(c, i)
           a == Malloc(c)
<1>1. DOMAIN m.item = DOMAIN c.item
  BY DEF CopyEnd
<1>2. IsFiniteSet(DOMAIN m.item)
  BY DEF Copied
<1>3. a \in Nat \ {NoItem} /\ a \notin DOMAIN c.item
  BY <1>1, <1>2, MallocNew
<1>4. Malloc(m) = a
  BY <1>1 DEF Malloc
<1>5. CopyEnd(CopyRound(c, a, d), i + 1) = AP_list_append(m, a, d)
  BY <1>3, RoundAppends
<1>6. CopyRound(c, a, d) \in Loops
  BY <1>3, RoundIsLoop
<1> HIDE DEF m, a
<1>7. Copied(l, m, w)
  BY DEF m
<1>8. Copied(l, AP_list_append(m, a, d), Append(w, d))
  BY <1>4, <1>7, CopyGoesOn
<1> QED
  BY <1>5, <1>6, <1>8 DEF a

\* AP_list_duplicate makes a list of items of its own with the same data.
LEMMA DuplicateReads ==
  ASSUME NEW l \in Views, NEW s, NEW v, Reads(l, s, v), IsFiniteSet(DOMAIN l.item)
  PROVE  Copied(l, AP_list_duplicate(l), v)
<1> DEFINE n == Len(s)
           e == [prev |-> NoItem, head |-> NoItem, item |-> l.item]
           P(f) == f = [i \in 0 .. n |->
                          IF i = 0 THEN e
                          ELSE CopyRound(f[i - 1], Malloc(f[i - 1]), l.item[s[i]].data)]
           copy == CHOOSE f : P(f)
           step == [z \in (1 .. n) \X Loops |->
                      CopyRound(z[2], Malloc(z[2]), l.item[s[z[1]]].data)]
           G == [i \in 0 .. n |->
                   {c \in Loops : Copied(l, CopyEnd(c, i), SubSeq(v, 1, i))}]
<1>1. s \in Seq(Nat) /\ v \in Seq(ListData) /\ Len(v) = n /\ n \in Nat /\ l.count = n
      /\ \A i \in 1 .. n : l.item[s[i]].data = v[i] /\ v[i] \in ListData
  BY DEF Reads
<1>2. AP_list_duplicate(l) = CopyEnd(copy[n], n)
  <2>1. Visited(l) = s
    BY ReadsVisited
  <2> QED
    BY <1>1, <2>1 DEF AP_list_duplicate
<1>3. \A i \in 1 .. n : SubSeq(v, 1, i) = Append(SubSeq(v, 1, i - 1), v[i])
  BY <1>1
<1>4. SubSeq(v, 1, 0) = <<>> /\ SubSeq(v, 1, n) = v
  BY <1>1
<1>5. \A i \in 0 .. n : \A c : c \in G[i] <=>
        c \in Loops /\ Copied(l, CopyEnd(c, i), SubSeq(v, 1, i))
  OBVIOUS
<1>6. \A i \in 1 .. n : \A c \in Loops :
        step[<<i, c>>] = CopyRound(c, Malloc(c), l.item[s[i]].data)
  OBVIOUS
<1>7. e \in Loops /\ Copied(l, CopyEnd(e, 0), <<>>)
  BY CopyStarts
<1> HIDE DEF G, step, e
<1>8. ASSUME NEW i \in 1 .. n, NEW c \in G[i - 1]
      PROVE  CopyRound(c, Malloc(c), l.item[s[i]].data) \in G[i]
  <2>1. i - 1 \in 0 .. n /\ i \in 0 .. n /\ i - 1 \in Nat /\ (i - 1) + 1 = i
    BY <1>1
  <2>2. c \in Loops /\ Copied(l, CopyEnd(c, i - 1), SubSeq(v, 1, i - 1))
    BY <2>1, <1>5
  <2>3. l.item[s[i]].data = v[i] /\ v[i] \in ListData
    BY <1>1
  <2>4. /\ CopyRound(c, Malloc(c), v[i]) \in Loops
        /\ Copied(l, CopyEnd(CopyRound(c, Malloc(c), v[i]), (i - 1) + 1),
                  Append(SubSeq(v, 1, i - 1), v[i]))
    BY <2>1, <2>2, <2>3, RoundCopies
  <2>5. Copied(l, CopyEnd(CopyRound(c, Malloc(c), v[i]), i), SubSeq(v, 1, i))
    BY <2>1, <2>4, <1>3
  <2>6. CopyRound(c, Malloc(c), v[i]) \in G[i]
    BY <2>1, <2>4, <2>5, <1>5
  <2> QED
    BY <2>3, <2>6
<1>9. e \in G[0]
  <2>1. 0 \in 0 .. n
    BY <1>1
  <2> QED
    BY <2>1, <1>4, <1>5, <1>7
<1>10. Leads(n, e, step, G)
  <2>1. ASSUME NEW i \in 1 .. n, NEW c \in G[i - 1] PROVE step[<<i, c>>] \in G[i]
    <3>1. i - 1 \in 0 .. n
      BY <1>1
    <3>2. c \in Loops
      BY <3>1, <1>5
    <3> QED
      BY <3>2, <1>6, <1>8
  <2> QED
    BY <2>1, <1>1, <1>9 DEF Leads
<1>11. PICK f : Recursion(n, e, step, f) /\ \A i \in 0 .. n : f[i] \in G[i]
  BY <1>10, RecursionExists
<1>12. P(f)
  <2>1. f = [i \in 0 .. n |-> IF i = 0 THEN e ELSE step[<<i, f[i - 1]>>]]
    BY <1>11 DEF Recursion
  <2>2. ASSUME NEW i \in 0 .. n, i # 0
        PROVE  step[<<i, f[i - 1]>>]
                 = CopyRound(f[i - 1], Malloc(f[i - 1]), l.item[s[i]].data)
    <3>1. i \in 1 .. n /\ i - 1 \in 0 .. n
      BY <2>2, <1>1
    <3>2. f[i - 1] \in Loops
      BY <3>1, <1>5, <1>11
    <3> QED
      BY <3>1, <3>2, <1>6
  <2>3. [i \in 0 .. n |-> IF i = 0 THEN e ELSE step[<<i, f[i - 1]>>]]
          = [i \in 0 .. n |->
               IF i = 0 THEN e
               ELSE CopyRound(f[i - 1], Malloc(f[i - 1]), l.item[s[i]].data)]
    BY <2>2
  <2> QED
    BY <2>1, <2>3
<1>13. P(copy)
  <2>1. \E g : P(g)
    BY <1>12
  <2> HIDE DEF P
  <2> QED
    BY <2>1, Zenon
<1> HIDE DEF copy
<1>14. \A i \in 0 .. n :
         copy[i] = IF i = 0 THEN e
                   ELSE CopyRound(copy[i - 1], Malloc(copy[i - 1]), l.item[s[i]].data)
  BY <1>13
<1> DEFINE T == {i \in 0 .. n : copy[i] \in G[i]}
<1>15. 0 \in T
  <2>1. 0 \in 0 .. n
    BY <1>1
  <2> QED
    BY <2>1, <1>9, <1>14
<1>16. \A i \in 0 .. n - 1 : i \in T => i + 1 \in T
  <2> TAKE i \in 0 .. n - 1
  <2> HAVE i \in T
  <2>1. i + 1 \in 1 .. n /\ i + 1 \in 0 .. n /\ (i + 1) - 1 = i /\ i + 1 # 0
    BY <1>1
  <2>2. copy[i + 1] = CopyRound(copy[i], Malloc(copy[i]), l.item[s[i + 1]].data)
    BY <2>1, <1>14
  <2>3. copy[i] \in G[(i + 1) - 1]
    BY <2>1
  <2>4. copy[i + 1] \in G[i + 1]
    BY <2>1, <2>2, <2>3, <1>8
  <2> QED
    BY <2>1, <2>4
<1> HIDE DEF T
<1>17. 0 .. n \subseteq T
  BY <1>1, <1>15, <1>16, BoundedInduction
<1>18. Copied(l, CopyEnd(copy[n], n), v)
  <2>1. n \in 0 .. n
    BY <1>1
  <2>2. copy[n] \in G[n]
    BY <2>1, <1>17 DEF T
  <2> QED
    BY <2>1, <2>2, <1>4, <1>5
<1> QED
  BY <1>2, <1>18

-----------------------------------------------------------------------------
(* The lists on one heap *)

ListRec == [head : Nat, tail : Nat, count : Nat, item : {<<>>}]

\* A new list on the heap h
EmptyOn(h) == [AP_list_new EXCEPT !.item = h]

\* The list m without the heap
Bare(m) == [m EXCEPT !.item = <<>>]

\* The function f with e for p
With(f, p, e) == [q \in DOMAIN f \cup {p} |-> IF q = p THEN e ELSE f[q]]

\* The function f without the arguments S
Without(f, S) == [q \in DOMAIN f \ S |-> f[q]]

\* The lists of x have the items ord and the data seqs, and share nothing but the heap.
Kept(x, ord, seqs) ==
  /\ x.heap \in Heaps /\ IsFiniteSet(DOMAIN x.heap)
  /\ DOMAIN x.lists \subseteq 1 .. MaxLists
  /\ ord = [p \in DOMAIN x.lists |-> ord[p]]
  /\ seqs = [p \in DOMAIN x.lists |-> seqs[p]]
  /\ \A p \in DOMAIN x.lists : x.lists[p] \in ListRec /\ Reads(View(x, p), ord[p], seqs[p])
  /\ \A p, q \in DOMAIN x.lists : p # q => \A a \in Range(ord[p]) : a \notin Range(ord[q])
  /\ \A a : a \in DOMAIN x.heap <=> \E p \in DOMAIN x.lists : a \in Range(ord[p])

\* What the state says of the lists
OrderOf(x) == [p \in DOMAIN x.lists |-> Visited(View(x, p))]
SeqsOf(x) == [p \in DOMAIN x.lists |-> Data(View(x, p))]

\* A list as its functions see it has the heap for its items.
LEMMA ViewFields ==
  ASSUME NEW x, NEW p, x.lists[p] \in ListRec
  PROVE  /\ View(x, p).head = x.lists[p].head /\ View(x, p).tail = x.lists[p].tail
         /\ View(x, p).count = x.lists[p].count /\ View(x, p).item = x.heap
         /\ x.heap \in Heaps => View(x, p) \in Views
<1> DEFINE r == x.lists[p]
           l == [r EXCEPT !.item = x.heap]
<1>1. View(x, p) = l /\ r \in ListRec
  BY DEF View
<1> HIDE DEF r
<1>2. l = [head |-> r.head, tail |-> r.tail, count |-> r.count, item |-> x.heap]
      /\ r.head \in Nat /\ r.tail \in Nat /\ r.count \in Nat
  BY <1>1 DEF ListRec
<1>3. x.heap \in Heaps => l \in Views
  BY <1>2 DEF Views
<1>4. l.head = r.head /\ l.tail = r.tail /\ l.count = r.count /\ l.item = x.heap
  BY <1>2
<1> QED
  BY <1>1, <1>3, <1>4 DEF r

\* What Kept says of one list
LEMMA KeptFacts ==
  ASSUME NEW x, NEW ord, NEW seqs, Kept(x, ord, seqs), NEW p \in DOMAIN x.lists
  PROVE  /\ View(x, p) \in Views /\ View(x, p).item = x.heap
         /\ IsFiniteSet(DOMAIN View(x, p).item)
         /\ Reads(View(x, p), ord[p], seqs[p])
         /\ ord[p] \in Seq(Nat) /\ seqs[p] \in Seq(ListData) /\ Len(seqs[p]) = Len(ord[p])
         /\ p \in 1 .. MaxLists /\ Len(ord[p]) \in Nat
<1>1. /\ x.heap \in Heaps /\ IsFiniteSet(DOMAIN x.heap) /\ p \in 1 .. MaxLists
      /\ x.lists[p] \in ListRec /\ Reads(View(x, p), ord[p], seqs[p])
  BY DEF Kept
<1>2. View(x, p) \in Views /\ View(x, p).item = x.heap
  BY <1>1, ViewFields
<1>3. ord[p] \in Seq(Nat) /\ seqs[p] \in Seq(ListData) /\ Len(seqs[p]) = Len(ord[p])
  BY <1>1 DEF Reads
<1> QED
  BY <1>1, <1>2, <1>3

\* There is only one way to read the lists.
LEMMA KeptOnce ==
  ASSUME NEW x, NEW ord, NEW seqs, Kept(x, ord, seqs)
  PROVE  ord = OrderOf(x) /\ seqs = SeqsOf(x)
<1>1. \A p \in DOMAIN x.lists : Visited(View(x, p)) = ord[p] /\ Data(View(x, p)) = seqs[p]
  BY KeptFacts, ReadsVisited
<1>2. ord = [p \in DOMAIN x.lists |-> ord[p]] /\ seqs = [p \in DOMAIN x.lists |-> seqs[p]]
  BY DEF Kept
<1>3. /\ [p \in DOMAIN x.lists |-> ord[p]] = OrderOf(x)
      /\ [p \in DOMAIN x.lists |-> seqs[p]] = SeqsOf(x)
  BY <1>1 DEF OrderOf, SeqsOf
<1> QED
  BY <1>2, <1>3

\* A list that was changed, or is new, without touching the others.
LEMMA StoreKeeps ==
  ASSUME NEW x, NEW ord, NEW seqs, Kept(x, ord, seqs), NEW p \in 1 .. MaxLists,
         NEW m \in Views, NEW t, NEW w, Reads(m, t, w), IsFiniteSet(DOMAIN m.item),
         \A a : a \in DOMAIN m.item <=>
           a \in Range(t) \/ \E q \in DOMAIN x.lists : q # p /\ a \in Range(ord[q]),
         \A q \in DOMAIN x.lists : q # p =>
           \A a \in Range(ord[q]) : a \notin Range(t) /\ SameItem(m.item[a], x.heap[a]),
         NEW y, y.heap = m.item, y.lists = With(x.lists, p, Bare(m))
  PROVE  Kept(y, With(ord, p, t), With(seqs, p, w))
<1> DEFINE D == DOMAIN x.lists
           r == Bare(m)
           o2 == With(ord, p, t)
           s2 == With(seqs, p, w)
<1>1. /\ DOMAIN ord = D /\ DOMAIN seqs = D /\ D \subseteq 1 .. MaxLists
      /\ \A q, u \in D : q # u => \A a \in Range(ord[q]) : a \notin Range(ord[u])
  <2>1. ord = [q \in D |-> ord[q]] /\ seqs = [q \in D |-> seqs[q]]
    BY DEF Kept
  <2>2. DOMAIN [q \in D |-> ord[q]] = D /\ DOMAIN [q \in D |-> seqs[q]] = D
    OBVIOUS
  <2>3. DOMAIN ord = D /\ DOMAIN seqs = D
    BY <2>1, <2>2, Zenon
  <2> QED
    BY <2>3 DEF Kept
<1>2. /\ r = [head |-> m.head, tail |-> m.tail, count |-> m.count, item |-> <<>>]
      /\ m.head \in Nat /\ m.tail \in Nat /\ m.count \in Nat /\ m.item \in Heaps
  BY DEF Views, Bare
<1>3. r \in ListRec /\ r.head = m.head /\ r.tail = m.tail /\ r.count = m.count
  BY <1>2 DEF ListRec
<1>4. /\ DOMAIN y.lists = D \cup {p} /\ y.lists[p] = r
      /\ \A q \in D : q # p => y.lists[q] = x.lists[q]
  <2>1. y.lists = With(x.lists, p, r)
    OBVIOUS
  <2> HIDE DEF r
  <2>2. /\ DOMAIN With(x.lists, p, r) = D \cup {p} /\ With(x.lists, p, r)[p] = r
        /\ \A q \in D : q # p => With(x.lists, p, r)[q] = x.lists[q]
    BY DEF With
  <2> QED
    BY <2>1, <2>2, Zenon
<1> HIDE DEF r
<1>5. /\ DOMAIN o2 = D \cup {p} /\ o2[p] = t /\ \A q \in D : q # p => o2[q] = ord[q]
      /\ DOMAIN s2 = D \cup {p} /\ s2[p] = w /\ \A q \in D : q # p => s2[q] = seqs[q]
      /\ o2 = [q \in D \cup {p} |-> o2[q]] /\ s2 = [q \in D \cup {p} |-> s2[q]]
  <2>1. /\ DOMAIN o2 = DOMAIN ord \cup {p} /\ o2[p] = t
        /\ \A q \in DOMAIN ord : q # p => o2[q] = ord[q]
        /\ o2 = [q \in DOMAIN ord \cup {p} |-> o2[q]]
    BY DEF With
  <2>2. /\ DOMAIN s2 = DOMAIN seqs \cup {p} /\ s2[p] = w
        /\ \A q \in DOMAIN seqs : q # p => s2[q] = seqs[q]
        /\ s2 = [q \in DOMAIN seqs \cup {p} |-> s2[q]]
    BY DEF With
  <2> HIDE DEF o2, s2
  <2> QED
    BY <1>1, <2>1, <2>2
<1> HIDE DEF o2, s2
<1>6. y.heap \in Heaps /\ IsFiniteSet(DOMAIN y.heap)
  BY <1>2
<1>7. y.lists[p] \in ListRec /\ Reads(View(y, p), o2[p], s2[p])
  <2>1. /\ View(y, p).head = m.head /\ View(y, p).tail = m.tail
        /\ View(y, p).count = m.count /\ View(y, p).item = m.item
    BY <1>3, <1>4, ViewFields
  <2>2. \A i \in 1 .. Len(t) : t[i] \in DOMAIN View(y, p).item
                               /\ SameItem(View(y, p).item[t[i]], m.item[t[i]])
    BY <2>1 DEF Reads, SameItem
  <2>3. Reads(View(y, p), t, w)
    BY <2>1, <2>2, ReadsSame
  <2> QED
    BY <2>3, <1>3, <1>4, <1>5
<1>8. ASSUME NEW q \in D, q # p
      PROVE  y.lists[q] \in ListRec /\ Reads(View(y, q), o2[q], s2[q])
  <2>1. x.lists[q] \in ListRec /\ Reads(View(x, q), ord[q], seqs[q])
    BY DEF Kept
  <2>2. y.lists[q] = x.lists[q]
    BY <1>4, <1>8
  <2>3. /\ View(y, q).head = View(x, q).head /\ View(y, q).tail = View(x, q).tail
        /\ View(y, q).count = View(x, q).count /\ View(y, q).item = m.item
        /\ View(x, q).item = x.heap
    <3>1. y.lists[q] \in ListRec
      BY <2>1, <2>2
    <3> QED
      BY <3>1, <2>1, <2>2, ViewFields
  <2>4. \A i \in 1 .. Len(ord[q]) : ord[q][i] \in DOMAIN View(y, q).item
                 /\ SameItem(View(y, q).item[ord[q][i]], View(x, q).item[ord[q][i]])
    <3> TAKE i \in 1 .. Len(ord[q])
    <3>1. ord[q] \in Seq(Nat)
      BY <2>1 DEF Reads
    <3>2. ord[q][i] \in Range(ord[q])
      BY <3>1, SeqFacts
    <3> QED
      BY <3>2, <2>3, <1>8
  <2>5. Reads(View(y, q), ord[q], seqs[q])
    BY <2>1, <2>3, <2>4, ReadsSame
  <2> QED
    BY <2>1, <2>2, <2>5, <1>5, <1>8
<1>9. \A q, u \in D \cup {p} : q # u => \A a \in Range(o2[q]) : a \notin Range(o2[u])
  <2> TAKE q \in D \cup {p}, u \in D \cup {p}
  <2> HAVE q # u
  <2>1. CASE q = p
    BY <2>1, <1>5
  <2>2. CASE u = p
    BY <2>2, <1>5
  <2>3. CASE q # p /\ u # p
    BY <2>3, <1>1, <1>5
  <2> QED
    BY <2>1, <2>2, <2>3
<1>10. \A a : a \in DOMAIN y.heap <=> \E q \in D \cup {p} : a \in Range(o2[q])
  BY <1>5
<1>11. D \cup {p} \subseteq 1 .. MaxLists
  BY <1>1
<1>12. Kept(y, o2, s2)
  BY <1>4, <1>5, <1>6, <1>7, <1>8, <1>9, <1>10, <1>11 DEF Kept
<1> QED
  BY <1>12 DEF o2, s2

\* The items that are not of list p are those of the other lists.
LEMMA OtherItems ==
  ASSUME NEW x, NEW ord, NEW seqs, Kept(x, ord, seqs), NEW p \in DOMAIN x.lists
  PROVE  /\ \A a : a \in DOMAIN x.heap <=>
              a \in Range(ord[p]) \/ \E q \in DOMAIN x.lists : q # p /\ a \in Range(ord[q])
         /\ \A q \in DOMAIN x.lists : q # p =>
              \A a \in Range(ord[q]) : a \notin Range(ord[p]) /\ a \in DOMAIN x.heap
<1>1. /\ \A q, u \in DOMAIN x.lists : q # u => \A a \in Range(ord[q]) : a \notin Range(ord[u])
      /\ \A a : a \in DOMAIN x.heap <=> \E q \in DOMAIN x.lists : a \in Range(ord[q])
  BY DEF Kept
<1> QED
  BY <1>1

\* An item that nobody wrote is the same.
LEMMA SameItemItself == \A i : SameItem(i, i)
BY DEF SameItem

\* AP_list_new
LEMMA NewKeeps ==
  ASSUME NEW x, NEW ord, NEW seqs, Kept(x, ord, seqs),
         NEW p \in 1 .. MaxLists, p \notin DOMAIN x.lists,
         NEW m, m = EmptyOn(x.heap),
         NEW y, y.heap = m.item, y.lists = With(x.lists, p, Bare(m))
  PROVE  /\ Kept(y, With(ord, p, <<>>), With(seqs, p, <<>>))
         /\ y.heap = x.heap
<1>1. m = [head |-> NoItem, tail |-> NoItem, count |-> 0, item |-> x.heap]
  BY DEF AP_list_new, EmptyOn
<1>2. x.heap \in Heaps /\ IsFiniteSet(DOMAIN x.heap)
  BY DEF Kept
<1>3. m \in Views /\ m.item = x.heap /\ m.count = 0 /\ m.head = NoItem /\ m.tail = NoItem
  <2>1. m.item = x.heap /\ m.count = 0 /\ m.head = NoItem /\ m.tail = NoItem
    BY <1>1
  <2>2. [head |-> NoItem, tail |-> NoItem, count |-> 0, item |-> x.heap] \in Views
    BY <1>2 DEF Views, NoItem
  <2> QED
    BY <2>1, <2>2, <1>1
<1>4. <<>> \in Seq(Nat) /\ <<>> \in Seq(ListData) /\ Len(<<>>) = 0 /\ Range(<<>>) = {}
  BY SeqFacts DEF Range
<1>5. Reads(m, <<>>, <<>>)
  BY <1>3, <1>4 DEF Reads
<1>6. \A a : a \in DOMAIN m.item <=>
        a \in Range(<<>>) \/ \E q \in DOMAIN x.lists : q # p /\ a \in Range(ord[q])
  <2>1. \A a : a \in DOMAIN x.heap <=> \E q \in DOMAIN x.lists : a \in Range(ord[q])
    BY DEF Kept
  <2> QED
    BY <2>1, <1>3, <1>4
<1>7. \A q \in DOMAIN x.lists : q # p =>
        \A a \in Range(ord[q]) : a \notin Range(<<>>) /\ SameItem(m.item[a], x.heap[a])
  BY <1>3, <1>4, SameItemItself
<1>8. Kept(y, With(ord, p, <<>>), With(seqs, p, <<>>))
  BY <1>2, <1>3, <1>5, <1>6, <1>7, StoreKeeps
<1> QED
  BY <1>3, <1>8

\* AP_list_append of an item that is new on the heap
LEMMA AppendKeeps ==
  ASSUME NEW x, NEW ord, NEW seqs, Kept(x, ord, seqs), NEW p \in DOMAIN x.lists,
         NEW d \in ListData, NEW a, a = Malloc(View(x, p)),
         NEW m, m = AP_list_append(View(x, p), a, d),
         NEW y, y.heap = m.item, y.lists = With(x.lists, p, Bare(m))
  PROVE  /\ Kept(y, With(ord, p, Append(ord[p], a)), With(seqs, p, Append(seqs[p], d)))
         /\ DOMAIN y.heap = DOMAIN x.heap \cup {a} /\ a \notin DOMAIN x.heap
<1> DEFINE l == View(x, p)
           t == Append(ord[p], a)
<1>1. /\ l \in Views /\ l.item = x.heap /\ IsFiniteSet(DOMAIN l.item)
      /\ Reads(l, ord[p], seqs[p]) /\ ord[p] \in Seq(Nat) /\ p \in 1 .. MaxLists
  BY KeptFacts
<1>2. m = AP_list_append(l, a, d) /\ a = Malloc(l)
  OBVIOUS
<1> HIDE DEF l
<1>3. a \in Nat \ {NoItem} /\ a \notin DOMAIN x.heap
  BY <1>1, <1>2, MallocNew
<1>4. /\ m \in Views /\ DOMAIN m.item = DOMAIN x.heap \cup {a}
      /\ Reads(m, t, Append(seqs[p], d)) /\ Leaves(l, m, ord[p])
  BY <1>1, <1>2, <1>3, AppendReads
<1>5. Range(t) = Range(ord[p]) \cup {a}
  BY <1>1, <1>3, RangeAppend
<1>6. IsFiniteSet(DOMAIN m.item)
  BY <1>1, <1>4, FS_AddElement
<1> HIDE DEF t
<1>7. \A b : b \in DOMAIN m.item <=>
        b \in Range(t) \/ \E q \in DOMAIN x.lists : q # p /\ b \in Range(ord[q])
  BY <1>4, <1>5, OtherItems
<1>8. \A q \in DOMAIN x.lists : q # p =>
        \A b \in Range(ord[q]) : b \notin Range(t) /\ SameItem(m.item[b], x.heap[b])
  <2> TAKE q \in DOMAIN x.lists
  <2> HAVE q # p
  <2> TAKE b \in Range(ord[q])
  <2>1. b \notin Range(ord[p]) /\ b \in DOMAIN x.heap
    BY OtherItems
  <2> QED
    BY <2>1, <1>1, <1>3, <1>4, <1>5 DEF Leaves
<1>9. Kept(y, With(ord, p, t), With(seqs, p, Append(seqs[p], d)))
  BY <1>1, <1>4, <1>6, <1>7, <1>8, StoreKeeps
<1> QED
  BY <1>3, <1>4, <1>9 DEF t

\* The addresses of a sequence with one more before them
LEMMA RangePrepend ==
  ASSUME NEW S, NEW t \in Seq(S), NEW a \in S
  PROVE  /\ Range(<<a>> \o t) = Range(t) \cup {a} /\ <<a>> \o t \in Seq(S)
         /\ Len(<<a>> \o t) = Len(t) + 1 /\ Len(t) \in Nat
         /\ (<<a>> \o t)[1] = a /\ \A i \in 1 .. Len(t) : (<<a>> \o t)[i + 1] = t[i]
<1> DEFINE u == <<a>> \o t
<1>1. /\ u \in Seq(S) /\ Len(u) = Len(t) + 1 /\ Len(t) \in Nat
      /\ u[1] = a /\ \A i \in 1 .. Len(t) : u[i + 1] = t[i]
  <2>1. <<a>> \in Seq(S) /\ Len(<<a>>) = 1 /\ <<a>>[1] = a
    OBVIOUS
  <2> QED
    BY <2>1, ConcatProperties
<1>2. \A i : i \in 1 .. Len(t) + 1 <=> i = 1 \/ \E j \in 1 .. Len(t) : i = j + 1
  <2> DEFINE n == Len(t)
  <2>1. n \in Nat
    OBVIOUS
  <2> HIDE DEF n
  <2>2. \A i \in 1 .. n + 1 : i # 1 => i - 1 \in 1 .. n /\ i = (i - 1) + 1
    BY <2>1
  <2>3. 1 \in 1 .. n + 1 /\ \A j \in 1 .. n : j + 1 \in 1 .. n + 1
    BY <2>1
  <2>4. \A i : i \in 1 .. n + 1 <=> i = 1 \/ \E j \in 1 .. n : i = j + 1
    BY <2>2, <2>3
  <2> QED
    BY <2>4 DEF n
<1> HIDE DEF u
<1>3. \A x : x \in Range(u) <=> \E i \in 1 .. Len(t) + 1 : u[i] = x
  BY <1>1, SeqFacts
<1>4. \A x : x \in Range(t) <=> \E i \in 1 .. Len(t) : t[i] = x
  BY SeqFacts
<1>5. \A x : x \in Range(u) <=> x \in Range(t) \/ x = a
  <2> TAKE x
  <2>1. ASSUME x \in Range(u) PROVE x \in Range(t) \/ x = a
    <3>1. PICK i \in 1 .. Len(t) + 1 : u[i] = x
      BY <2>1, <1>3
    <3>2. i = 1 => x = a
      BY <3>1, <1>1
    <3>3. ASSUME NEW j \in 1 .. Len(t), i = j + 1 PROVE x \in Range(t)
      BY <3>1, <3>3, <1>1, <1>4
    <3> QED
      BY <1>2, <3>1, <3>2, <3>3
  <2>2. ASSUME x \in Range(t) PROVE x \in Range(u)
    <3>1. PICK j \in 1 .. Len(t) : t[j] = x
      BY <2>2, <1>4
    <3>2. j + 1 \in 1 .. Len(t) + 1 /\ u[j + 1] = x
      BY <3>1, <1>1
    <3> QED
      BY <3>2, <1>3
  <2>3. a \in Range(u)
    BY <1>1, <1>2, <1>3
  <2> QED
    BY <2>1, <2>2, <2>3
<1>6. Range(u) = Range(t) \cup {a}
  BY <1>5
<1> QED
  BY <1>1, <1>6 DEF u

\* AP_list_prepend of an item that is new on the heap
LEMMA PrependKeeps ==
  ASSUME NEW x, NEW ord, NEW seqs, Kept(x, ord, seqs), NEW p \in DOMAIN x.lists,
         NEW d \in ListData, NEW a, a = Malloc(View(x, p)),
         NEW m, m = AP_list_prepend(View(x, p), a, d),
         NEW y, y.heap = m.item, y.lists = With(x.lists, p, Bare(m))
  PROVE  /\ Kept(y, With(ord, p, <<a>> \o ord[p]), With(seqs, p, <<d>> \o seqs[p]))
         /\ DOMAIN y.heap = DOMAIN x.heap \cup {a} /\ a \notin DOMAIN x.heap
         /\ a \in Nat
<1> DEFINE l == View(x, p)
           t == <<a>> \o ord[p]
<1>1. /\ l \in Views /\ l.item = x.heap /\ IsFiniteSet(DOMAIN l.item)
      /\ Reads(l, ord[p], seqs[p]) /\ ord[p] \in Seq(Nat) /\ p \in 1 .. MaxLists
  BY KeptFacts
<1>2. m = AP_list_prepend(l, a, d) /\ a = Malloc(l)
  OBVIOUS
<1> HIDE DEF l
<1>3. a \in Nat \ {NoItem} /\ a \notin DOMAIN x.heap
  BY <1>1, <1>2, MallocNew
<1>4. /\ m \in Views /\ DOMAIN m.item = DOMAIN x.heap \cup {a}
      /\ Reads(m, t, <<d>> \o seqs[p]) /\ Leaves(l, m, ord[p])
  BY <1>1, <1>2, <1>3, PrependReads
<1>5. Range(t) = Range(ord[p]) \cup {a}
  BY <1>1, <1>3, RangePrepend
<1>6. IsFiniteSet(DOMAIN m.item)
  <2>1. IsFiniteSet(DOMAIN x.heap)
    BY <1>1
  <2>2. IsFiniteSet(DOMAIN x.heap \cup {a})
    BY <2>1, FS_AddElement
  <2> QED
    BY <2>2, <1>4
<1> HIDE DEF t
<1>7. \A b : b \in DOMAIN m.item <=>
        b \in Range(t) \/ \E q \in DOMAIN x.lists : q # p /\ b \in Range(ord[q])
  BY <1>4, <1>5, OtherItems
<1>8. \A q \in DOMAIN x.lists : q # p =>
        \A b \in Range(ord[q]) : b \notin Range(t) /\ SameItem(m.item[b], x.heap[b])
  <2> TAKE q \in DOMAIN x.lists
  <2> HAVE q # p
  <2> TAKE b \in Range(ord[q])
  <2>1. b \notin Range(ord[p]) /\ b \in DOMAIN x.heap
    BY OtherItems
  <2> QED
    BY <2>1, <1>1, <1>3, <1>4, <1>5 DEF Leaves
<1>9. Kept(y, With(ord, p, t), With(seqs, p, <<d>> \o seqs[p]))
  BY <1>1, <1>4, <1>6, <1>7, <1>8, StoreKeeps
<1> QED
  BY <1>3, <1>4, <1>9 DEF t

\* The addresses of a sequence without its k-th
LEMMA RangeRemove ==
  ASSUME NEW S, NEW s \in Seq(S), NEW k \in 1 .. Len(s),
         \A i, j \in 1 .. Len(s) : s[i] = s[j] => i = j
  PROVE  Range(RemoveAt(s, k)) = Range(s) \ {s[k]}
<1> DEFINE u == RemoveAt(s, k)
           n == Len(s)
<1>1. /\ u \in Seq(S) /\ Len(u) = n - 1 /\ n - 1 \in Nat /\ n \in Nat /\ k \in 1 .. n
      /\ \A i \in 1 .. n - 1 : u[i] = IF i < k THEN s[i] ELSE s[i + 1]
      /\ \A i, j \in 1 .. n : s[i] = s[j] => i = j
  <2>1. /\ u \in Seq(S) /\ Len(u) = n - 1 /\ n - 1 \in Nat
        /\ \A i \in 1 .. n - 1 : u[i] = IF i < k THEN s[i] ELSE s[i + 1]
    BY RemoveFacts, SMTT(30)
  <2>2. n \in Nat
    OBVIOUS
  <2> QED
    BY <2>1, <2>2
<1>2. \A x : x \in Range(s) <=> \E i \in 1 .. n : s[i] = x
  BY SeqFacts
<1> HIDE DEF u, n
<1>3. \A x : x \in Range(u) <=> \E i \in 1 .. n - 1 : u[i] = x
  BY <1>1, SeqFacts
<1>4. \A i \in 1 .. n - 1 : \E j \in 1 .. n : j # k /\ u[i] = s[j]
  <2> TAKE i \in 1 .. n - 1
  <2>1. i \in 1 .. n /\ i + 1 \in 1 .. n /\ (i < k => i # k) /\ (~(i < k) => i + 1 # k)
    BY <1>1
  <2> QED
    BY <2>1, <1>1
<1>5. \A j \in 1 .. n : j # k => \E i \in 1 .. n - 1 : u[i] = s[j]
  <2> TAKE j \in 1 .. n
  <2> HAVE j # k
  <2>1. CASE j < k
    <3>1. j \in 1 .. n - 1
      BY <2>1, <1>1
    <3> QED
      BY <3>1, <2>1, <1>1
  <2>2. CASE ~(j < k)
    <3>1. j - 1 \in 1 .. n - 1 /\ ~(j - 1 < k) /\ (j - 1) + 1 = j
      BY <2>2, <1>1
    <3> QED
      BY <3>1, <1>1
  <2> QED
    BY <2>1, <2>2
<1>6. \A x : x \in Range(u) <=> x \in Range(s) /\ x # s[k]
  <2> TAKE x
  <2>1. ASSUME x \in Range(u) PROVE x \in Range(s) /\ x # s[k]
    <3>1. PICK i \in 1 .. n - 1 : u[i] = x
      BY <2>1, <1>3
    <3>2. PICK j \in 1 .. n : j # k /\ u[i] = s[j]
      BY <1>4
    <3> QED
      BY <3>1, <3>2, <1>1, <1>2
  <2>2. x \in Range(s) /\ x # s[k] => x \in Range(u)
    BY <1>2, <1>3, <1>5
  <2> QED
    BY <2>1, <2>2
<1>7. Range(u) = Range(s) \ {s[k]}
  BY <1>6
<1> QED
  BY <1>7 DEF u

\* AP_list_delete_item of the k-th item
LEMMA DeleteKeeps ==
  ASSUME NEW x, NEW ord, NEW seqs, Kept(x, ord, seqs), NEW p \in DOMAIN x.lists,
         NEW k \in 1 .. Len(ord[p]),
         NEW m, m = AP_list_delete_item(View(x, p), ord[p][k]),
         NEW y, y.heap = m.item, y.lists = With(x.lists, p, Bare(m))
  PROVE  /\ Kept(y, With(ord, p, RemoveAt(ord[p], k)), With(seqs, p, RemoveAt(seqs[p], k)))
         /\ DOMAIN y.heap = DOMAIN x.heap \ {ord[p][k]} /\ ord[p][k] \in DOMAIN x.heap
<1> DEFINE l == View(x, p)
           s == ord[p]
           t == RemoveAt(s, k)
<1>1. /\ l \in Views /\ l.item = x.heap /\ IsFiniteSet(DOMAIN x.heap)
      /\ Reads(l, s, seqs[p]) /\ s \in Seq(Nat) /\ p \in 1 .. MaxLists
  BY KeptFacts
<1>2. m = AP_list_delete_item(l, s[k]) /\ k \in 1 .. Len(s)
  OBVIOUS
<1> HIDE DEF l, s
<1>3. s[k] \in DOMAIN x.heap /\ s[k] \in Range(s)
      /\ \A i, j \in 1 .. Len(s) : s[i] = s[j] => i = j
  <2>1. s[k] \in Range(s)
    BY <1>1, <1>2, SeqFacts
  <2> QED
    BY <2>1, <1>1, <1>2 DEF Reads
<1>4. /\ m \in Views /\ DOMAIN m.item = DOMAIN x.heap \ {s[k]}
      /\ Reads(m, t, RemoveAt(seqs[p], k)) /\ Leaves(l, m, s)
  BY <1>1, <1>2, DeleteReads
<1>5. Range(t) = Range(s) \ {s[k]}
  BY <1>1, <1>2, <1>3, RangeRemove
<1>6. IsFiniteSet(DOMAIN m.item)
  BY <1>1, <1>4, FS_RemoveElement
<1> HIDE DEF t
<1>7. \A q \in DOMAIN x.lists : q # p =>
        \A b \in Range(ord[q]) : b \notin Range(s) /\ b \in DOMAIN x.heap
  BY OtherItems DEF s
<1>8. \A b : b \in DOMAIN m.item <=>
        b \in Range(t) \/ \E q \in DOMAIN x.lists : q # p /\ b \in Range(ord[q])
  <2>1. \A b : b \in DOMAIN x.heap <=>
          b \in Range(s) \/ \E q \in DOMAIN x.lists : q # p /\ b \in Range(ord[q])
    BY OtherItems DEF s
  <2> QED
    BY <2>1, <1>3, <1>4, <1>5, <1>7
<1>9. \A q \in DOMAIN x.lists : q # p =>
        \A b \in Range(ord[q]) : b \notin Range(t) /\ SameItem(m.item[b], x.heap[b])
  BY <1>1, <1>4, <1>5, <1>7 DEF Leaves
<1>10. Kept(y, With(ord, p, t), With(seqs, p, RemoveAt(seqs[p], k)))
  BY <1>1, <1>4, <1>6, <1>8, <1>9, StoreKeeps
<1> QED
  BY <1>3, <1>4, <1>10 DEF t, s

\* AP_list_duplicate
LEMMA DuplicateKeeps ==
  ASSUME NEW x, NEW ord, NEW seqs, Kept(x, ord, seqs), NEW p \in DOMAIN x.lists,
         NEW q \in 1 .. MaxLists, q \notin DOMAIN x.lists,
         NEW m, m = AP_list_duplicate(View(x, p)),
         NEW y, y.heap = m.item, y.lists = With(x.lists, q, Bare(m))
  PROVE  \E t \in Seq(Nat) :
           /\ Kept(y, With(ord, q, t), With(seqs, q, seqs[p]))
           /\ DOMAIN y.heap = DOMAIN x.heap \cup Range(t) /\ Range(t) \cap DOMAIN x.heap = {}
           /\ IsFiniteSet(Range(t)) /\ Cardinality(Range(t)) = Len(ord[p])
<1> DEFINE l == View(x, p)
<1>1. /\ l \in Views /\ l.item = x.heap /\ IsFiniteSet(DOMAIN l.item)
      /\ Reads(l, ord[p], seqs[p]) /\ Len(seqs[p]) = Len(ord[p])
  BY KeptFacts
<1> HIDE DEF l
<1>2. Copied(l, m, seqs[p])
  <2>1. m = AP_list_duplicate(l)
    BY DEF l
  <2> QED
    BY <2>1, <1>1, DuplicateReads
<1>3. PICK t \in Seq(Nat) : /\ Reads(m, t, seqs[p]) /\ Range(t) \cap DOMAIN x.heap = {}
                            /\ DOMAIN m.item = DOMAIN x.heap \cup Range(t)
  BY <1>1, <1>2 DEF Copied
<1>4. /\ m \in Views /\ IsFiniteSet(DOMAIN m.item)
      /\ \A a \in DOMAIN x.heap : SameItem(m.item[a], x.heap[a])
  BY <1>1, <1>2 DEF Copied
<1>5. \A a : a \in DOMAIN x.heap <=> \E u \in DOMAIN x.lists : a \in Range(ord[u])
  BY DEF Kept
<1>6. \A b : b \in DOMAIN m.item <=>
        b \in Range(t) \/ \E u \in DOMAIN x.lists : u # q /\ b \in Range(ord[u])
  BY <1>3, <1>5
<1>7. \A u \in DOMAIN x.lists : u # q =>
        \A b \in Range(ord[u]) : b \notin Range(t) /\ SameItem(m.item[b], x.heap[b])
  BY <1>3, <1>4, <1>5
<1>8. Kept(y, With(ord, q, t), With(seqs, q, seqs[p]))
  BY <1>3, <1>4, <1>6, <1>7, StoreKeeps
<1>9. IsFiniteSet(Range(t)) /\ Cardinality(Range(t)) = Len(ord[p])
  <2>1. Len(t) = Len(seqs[p])
    BY <1>3 DEF Reads
  <2> QED
    BY <2>1, <1>1, <1>3, <1>4, HeapSize
<1> QED
  BY <1>3, <1>8, <1>9

\* AP_list_free
LEMMA FreeKeeps ==
  ASSUME NEW x, NEW ord, NEW seqs, Kept(x, ord, seqs), NEW p \in DOMAIN x.lists,
         NEW y, y.heap = Without(x.heap, Range(ord[p])), y.lists = Without(x.lists, {p})
  PROVE  /\ Kept(y, Without(ord, {p}), Without(seqs, {p}))
         /\ Cardinality(DOMAIN y.heap) = Cardinality(DOMAIN x.heap) - Len(ord[p])
<1> DEFINE D == DOMAIN x.lists \ {p}
           o2 == Without(ord, {p})
           s2 == Without(seqs, {p})
<1>1. /\ DOMAIN y.lists = D /\ \A q \in D : y.lists[q] = x.lists[q]
      /\ DOMAIN y.heap = DOMAIN x.heap \ Range(ord[p])
      /\ \A a \in DOMAIN y.heap : y.heap[a] = x.heap[a]
  BY DEF Without
<1>2. o2 = [q \in D |-> o2[q]] /\ s2 = [q \in D |-> s2[q]]
      /\ \A q \in D : o2[q] = ord[q] /\ s2[q] = seqs[q]
  <2>1. ord = [q \in DOMAIN x.lists |-> ord[q]] /\ seqs = [q \in DOMAIN x.lists |-> seqs[q]]
    BY DEF Kept
  <2>2. DOMAIN ord = DOMAIN x.lists /\ DOMAIN seqs = DOMAIN x.lists
    BY <2>1, Zenon
  <2> QED
    BY <2>2 DEF Without
<1>3. /\ x.heap \in Heaps /\ IsFiniteSet(DOMAIN x.heap) /\ DOMAIN x.lists \subseteq 1 .. MaxLists
      /\ \A q \in DOMAIN x.lists : x.lists[q] \in ListRec /\ Reads(View(x, q), ord[q], seqs[q])
      /\ \A q, u \in DOMAIN x.lists : q # u => \A a \in Range(ord[q]) : a \notin Range(ord[u])
      /\ \A a : a \in DOMAIN x.heap <=> \E q \in DOMAIN x.lists : a \in Range(ord[q])
  BY DEF Kept
<1>4. y.heap \in Heaps /\ IsFiniteSet(DOMAIN y.heap)
  <2>1. PICK E \in SUBSET (Nat \ {NoItem}) : x.heap \in [E -> ItemType]
    BY <1>3 DEF Heaps
  <2>2. E \ Range(ord[p]) \in SUBSET (Nat \ {NoItem})
        /\ y.heap \in [E \ Range(ord[p]) -> ItemType]
    BY <2>1 DEF Without
  <2>3. y.heap \in Heaps
    BY <2>2, Zenon DEF Heaps
  <2> QED
    BY <2>3, <1>1, <1>3, FS_Subset
<1> HIDE DEF o2, s2
<1>5. ASSUME NEW q \in D PROVE y.lists[q] \in ListRec /\ Reads(View(y, q), o2[q], s2[q])
  <2>1. x.lists[q] \in ListRec /\ y.lists[q] = x.lists[q]
        /\ Reads(View(x, q), ord[q], seqs[q])
    BY <1>1, <1>3
  <2>2. /\ View(y, q).head = View(x, q).head /\ View(y, q).tail = View(x, q).tail
        /\ View(y, q).count = View(x, q).count /\ View(y, q).item = y.heap
        /\ View(x, q).item = x.heap
    <3>1. y.lists[q] \in ListRec
      BY <2>1
    <3> QED
      BY <3>1, <2>1, ViewFields
  <2>3. ASSUME NEW i \in 1 .. Len(ord[q])
        PROVE  ord[q][i] \in DOMAIN View(y, q).item
               /\ SameItem(View(y, q).item[ord[q][i]], View(x, q).item[ord[q][i]])
    <3>1. ord[q] \in Seq(Nat)
      BY <2>1 DEF Reads
    <3>2. ord[q][i] \in Range(ord[q])
      BY <3>1, SeqFacts
    <3>3. ord[q][i] \in DOMAIN y.heap
      BY <3>2, <1>1, <1>3
    <3>4. y.heap[ord[q][i]] = x.heap[ord[q][i]]
      BY <3>3, <1>1
    <3> QED
      BY <3>3, <3>4, <2>2, SameItemItself
  <2>4. Reads(View(y, q), ord[q], seqs[q])
    BY <2>1, <2>2, <2>3, ReadsSame
  <2> QED
    BY <2>1, <2>4, <1>2
<1>6. \A q, u \in D : q # u => \A a \in Range(o2[q]) : a \notin Range(o2[u])
  BY <1>2, <1>3
<1>7. \A a : a \in DOMAIN y.heap <=> \E q \in D : a \in Range(o2[q])
  BY <1>1, <1>2, <1>3
<1>8. Kept(y, o2, s2)
  BY <1>1, <1>2, <1>3, <1>4, <1>5, <1>6, <1>7 DEF Kept
<1>9. Cardinality(DOMAIN y.heap) = Cardinality(DOMAIN x.heap) - Len(ord[p])
  <2>1. /\ IsFiniteSet(DOMAIN View(x, p).item) /\ View(x, p).item = x.heap
        /\ Reads(View(x, p), ord[p], seqs[p])
    BY KeptFacts
  <2>2. Cardinality(Range(ord[p])) = Len(ord[p]) /\ Range(ord[p]) \subseteq DOMAIN x.heap
    BY <2>1, HeapSize
  <2>3. DOMAIN x.heap \cap Range(ord[p]) = Range(ord[p])
    BY <2>2
  <2>4. Cardinality(DOMAIN x.heap \ Range(ord[p]))
          = Cardinality(DOMAIN x.heap) - Cardinality(DOMAIN x.heap \cap Range(ord[p]))
    BY <1>3, FS_Difference
  <2> QED
    BY <2>2, <2>3, <2>4, <1>1
<1> QED
  BY <1>8, <1>9 DEF o2, s2

-----------------------------------------------------------------------------
(* The program                                                             *)

\* The lists and the counts of x agree, and the cursor c is at an item of its list.
StateSound(x, c) ==
  /\ x = [heap |-> x.heap, lists |-> x.lists,
          itemcount |-> x.itemcount, headcount |-> x.headcount]
  /\ Kept(x, OrderOf(x), SeqsOf(x))
  /\ x.itemcount = Cardinality(DOMAIN x.heap)
  /\ x.headcount = Cardinality(DOMAIN x.lists)
  /\ c \in [list : Nat, temp : Nat]
  /\ c.list = 0 => c.temp = NoItem
  /\ c.list # 0 => c.list \in DOMAIN x.lists
  /\ c.temp # NoItem => c.temp \in Range(OrderOf(x)[c.list])

ListsInv == StateSound(ls, cursor)

\* Nothing is allocated at the beginning.
LEMMA ListInitSound == ListInit => ListsInv
<1> SUFFICES ASSUME ListInit PROVE StateSound(ls, cursor)
  BY DEF ListsInv
<1>1. /\ ls = [heap |-> <<>>, lists |-> <<>>, itemcount |-> 0, headcount |-> 0]
      /\ ls.heap = <<>> /\ ls.lists = <<>> /\ ls.itemcount = 0 /\ ls.headcount = 0
      /\ cursor = [list |-> 0, temp |-> 0] /\ cursor.list = 0 /\ cursor.temp = 0
  BY DEF ListInit, NoCursor, NoItem
<1>2. DOMAIN ls.heap = {} /\ DOMAIN ls.lists = {}
  BY <1>1, DOMAIN <<>> = {}
<1>3. <<>> \in Heaps
  <2>1. <<>> \in [{} -> ItemType]
    OBVIOUS
  <2>2. {} \in SUBSET (Nat \ {NoItem})
    OBVIOUS
  <2> QED
    BY <2>1, <2>2, Zenon DEF Heaps
<1>4. IsFiniteSet({}) /\ Cardinality({}) = 0
  BY FS_EmptySet
<1>5. Kept(ls, OrderOf(ls), SeqsOf(ls))
  <2>1. /\ OrderOf(ls) = [p \in DOMAIN ls.lists |-> OrderOf(ls)[p]]
        /\ SeqsOf(ls) = [p \in DOMAIN ls.lists |-> SeqsOf(ls)[p]]
    BY DEF OrderOf, SeqsOf
  <2> QED
    BY <2>1, <1>1, <1>2, <1>3, <1>4 DEF Kept
<1> QED
  BY <1>1, <1>2, <1>4, <1>5 DEF StateSound, NoItem

\* What the invariant says of the lists
LEMMA SoundFacts ==
  ASSUME NEW x, NEW c, StateSound(x, c)
  PROVE  /\ Kept(x, OrderOf(x), SeqsOf(x))
         /\ DOMAIN OrderOf(x) = DOMAIN x.lists /\ DOMAIN SeqsOf(x) = DOMAIN x.lists
         /\ IsFiniteSet(DOMAIN x.heap) /\ IsFiniteSet(DOMAIN x.lists)
         /\ x.itemcount = Cardinality(DOMAIN x.heap) /\ x.itemcount \in Nat
         /\ x.headcount = Cardinality(DOMAIN x.lists) /\ x.headcount \in Nat
         /\ DOMAIN x.lists \subseteq 1 .. MaxLists
         /\ c.list \in Nat /\ c.temp \in Nat /\ c = [list |-> c.list, temp |-> c.temp]
<1>1. Kept(x, OrderOf(x), SeqsOf(x)) /\ c \in [list : Nat, temp : Nat]
      /\ x.itemcount = Cardinality(DOMAIN x.heap) /\ x.headcount = Cardinality(DOMAIN x.lists)
  BY DEF StateSound
<1>2. IsFiniteSet(DOMAIN x.heap) /\ DOMAIN x.lists \subseteq 1 .. MaxLists
  BY <1>1 DEF Kept
<1>3. IsFiniteSet(DOMAIN x.lists)
  <2>1. IsFiniteSet(1 .. MaxLists)
    BY FS_Interval, ListUseAssumption
  <2> QED
    BY <2>1, <1>2, FS_Subset
<1>4. DOMAIN OrderOf(x) = DOMAIN x.lists /\ DOMAIN SeqsOf(x) = DOMAIN x.lists
  BY DEF OrderOf, SeqsOf
<1> QED
  BY <1>1, <1>2, <1>3, <1>4, FS_CardinalityType

\* The cursor is at the k-th item of its list.
LEMMA CursorPlace ==
  ASSUME NEW x, NEW c, StateSound(x, c), c.temp # NoItem
  PROVE  /\ c.list # 0 /\ c.list \in DOMAIN x.lists
         /\ \E k \in 1 .. Len(OrderOf(x)[c.list]) : OrderOf(x)[c.list][k] = c.temp
<1>1. c.list # 0 /\ c.list \in DOMAIN x.lists /\ c.temp \in Range(OrderOf(x)[c.list])
  BY DEF StateSound
<1>2. OrderOf(x)[c.list] \in Seq(Nat)
  BY <1>1, SoundFacts, KeptFacts
<1> QED
  BY <1>1, <1>2, SeqFacts

\* A part of one element
LEMMA SubSeqOne ==
  ASSUME NEW S, NEW v \in Seq(S), NEW k \in 1 .. Len(v)
  PROVE  SubSeq(v, k, k) = <<v[k]>>
<1>1. SubSeq(v, k, k) \in Seq(S) /\ Len(SubSeq(v, k, k)) = 1 /\ SubSeq(v, k, k)[1] = v[k]
  BY SubSeqProperties
<1>2. SubSeq(v, k, k) = [i \in 1 .. 1 |-> SubSeq(v, k, k)[i]]
  BY <1>1
<1>3. \A i \in 1 .. 1 : SubSeq(v, k, k)[i] = v[k]
  BY <1>1
<1>4. <<v[k]>> = [i \in 1 .. 1 |-> v[k]]
  OBVIOUS
<1> QED
  BY <1>2, <1>3, <1>4

\* What the calls say of a list with the data s
Answers(l, s) ==
  LET n == Len(s)
  IN  /\ l.count = n
      /\ DataBack(l) = Reverse(s)
      /\ AP_list_end(l, l.head) = SubSeq(s, 1, IF n = 0 THEN 0 ELSE 1)
      /\ AP_list_end(l, l.tail) = SubSeq(s, IF n = 0 THEN 1 ELSE n, n)
      /\ \A d \in ListData :
           /\ AP_list_search(l, d) # NoItem <=> d \in Range(s)
           /\ AP_list_apply(l, [x \in ListData |-> IF x = d THEN 1 ELSE 0])
                = Cardinality({i \in DOMAIN s : s[i] = d})

\* A list whose links spell the data answers every call by them.
LEMMA ListAnswers ==
  ASSUME NEW l \in Views, NEW s, NEW v, Reads(l, s, v), IsFiniteSet(DOMAIN l.item)
  PROVE  Answers(l, v)
<1> DEFINE n == Len(v)
<1>1. /\ s \in Seq(Nat) /\ v \in Seq(ListData) /\ n = Len(s) /\ n \in Nat
      /\ l.count = n /\ l.head = (IF n = 0 THEN NoItem ELSE s[1])
      /\ l.tail = (IF n = 0 THEN NoItem ELSE s[n])
      /\ \A i \in 1 .. n : s[i] # NoItem /\ l.item[s[i]].data = v[i]
  BY DEF Reads
<1>2. DataBack(l) = Reverse(v)
  BY ReadsBack
<1>3. AP_list_end(l, l.head) = SubSeq(v, 1, IF n = 0 THEN 0 ELSE 1)
  <2>1. CASE n = 0
    <3>1. SubSeq(v, 1, 0) = <<>>
      BY <1>1
    <3> QED
      BY <2>1, <3>1, <1>1 DEF AP_list_end
  <2>2. CASE n # 0
    <3>1. 1 \in 1 .. n
      BY <2>2, <1>1
    <3>2. SubSeq(v, 1, 1) = <<v[1]>>
      BY <3>1, <1>1, SubSeqOne
    <3> QED
      BY <2>2, <3>1, <3>2, <1>1 DEF AP_list_end
  <2> QED
    BY <2>1, <2>2
<1>4. AP_list_end(l, l.tail) = SubSeq(v, IF n = 0 THEN 1 ELSE n, n)
  <2>1. CASE n = 0
    <3>1. SubSeq(v, 1, 0) = <<>>
      BY <1>1
    <3> QED
      BY <2>1, <3>1, <1>1 DEF AP_list_end
  <2>2. CASE n # 0
    <3>1. n \in 1 .. n
      BY <2>2, <1>1
    <3>2. SubSeq(v, n, n) = <<v[n]>>
      BY <3>1, <1>1, SubSeqOne
    <3> QED
      BY <2>2, <3>1, <3>2, <1>1 DEF AP_list_end
  <2> QED
    BY <2>1, <2>2
<1>5. ASSUME NEW d \in ListData
      PROVE  /\ AP_list_search(l, d) # NoItem <=> d \in Range(v)
             /\ AP_list_apply(l, [x \in ListData |-> IF x = d THEN 1 ELSE 0])
                  = Cardinality({i \in DOMAIN v : v[i] = d})
  <2>1. AP_list_search(l, d) = IF First(v, d) = 0 THEN NoItem ELSE s[First(v, d)]
    BY SearchReads
  <2>2. \/ First(v, d) = 0 /\ \A i \in 1 .. n : v[i] # d
        \/ First(v, d) \in 1 .. n /\ v[First(v, d)] = d /\ First(v, d) # 0
    BY <1>1, FirstFacts
  <2>3. d \in Range(v) <=> \E i \in 1 .. n : v[i] = d
    BY <1>1, SeqFacts
  <2>4. AP_list_search(l, d) # NoItem <=> d \in Range(v)
    BY <2>1, <2>2, <2>3, <1>1
  <2>5. DOMAIN v = 1 .. Len(v)
    BY <1>1
  <2>6. AP_list_apply(l, [x \in ListData |-> IF x = d THEN 1 ELSE 0])
          = Cardinality({i \in 1 .. Len(v) : v[i] = d})
    BY ApplyReads
  <2> QED
    BY <2>4, <2>5, <2>6
<1> QED
  BY <1>1, <1>2, <1>3, <1>4, <1>5 DEF Answers

\* The invariant has the consequence that is asked for.
LEMMA SoundAnswers == ListsInv => NothingLost
<1> SUFFICES ASSUME StateSound(ls, cursor) PROVE Accounted /\ AnswersTrue
  BY DEF ListsInv, NothingLost
<1> DEFINE D == DOMAIN ls.lists
           ord == OrderOf(ls)
           seqs == SeqsOf(ls)
<1>1. /\ Kept(ls, ord, seqs)
      /\ ls.itemcount = Cardinality(DOMAIN ls.heap) /\ ls.headcount = Cardinality(D)
      /\ IsFiniteSet(DOMAIN ls.heap) /\ IsFiniteSet(D)
  BY SoundFacts
<1>2. \A p \in D : ItemsOf(p) = ord[p] /\ Data(View(ls, p)) = seqs[p]
  BY DEF ItemsOf, OrderOf, SeqsOf
<1>3. cursor.temp # NoItem => cursor.list \in D /\ cursor.temp \in Range(ord[cursor.list])
  BY CursorPlace DEF StateSound
<1> HIDE DEF ord, seqs
<1>4. /\ \A p, q \in D : p # q => \A a \in Range(ord[p]) : a \notin Range(ord[q])
      /\ \A a : a \in DOMAIN ls.heap <=> \E p \in D : a \in Range(ord[p])
  BY <1>1 DEF Kept
<1>5. \A p \in D : /\ View(ls, p) \in Views /\ View(ls, p).item = ls.heap
                   /\ IsFiniteSet(DOMAIN View(ls, p).item)
                   /\ Reads(View(ls, p), ord[p], seqs[p])
  BY <1>1, KeptFacts
<1>6. ASSUME NEW p \in D
      PROVE  IsList([View(ls, p) EXCEPT !.item = [a \in Range(ItemsOf(p)) |-> ls.heap[a]]],
                    ItemsOf(p))
  <2> DEFINE l == View(ls, p)
             s == ord[p]
  <2>1. l \in Views /\ l.item = ls.heap /\ Reads(l, s, seqs[p]) /\ ItemsOf(p) = s
    BY <1>2, <1>5
  <2> HIDE DEF l, s
  <2>2. IsList(Part(l, s), s)
    BY <2>1, ReadsPart
  <2>3. Part(l, s) = [l EXCEPT !.item = [a \in Range(s) |-> ls.heap[a]]]
    BY <2>1 DEF Part, Views
  <2> QED
    BY <2>1, <2>2, <2>3 DEF l
<1>7. \A p, q \in D : p # q => Range(ItemsOf(p)) \cap Range(ItemsOf(q)) = {}
  BY <1>2, <1>4
<1>8. DOMAIN ls.heap = UNION {Range(ItemsOf(p)) : p \in D}
  BY <1>2, <1>4
<1>9. cursor.temp # NoItem => cursor.temp \in Range(ItemsOf(cursor.list))
  BY <1>2, <1>3
<1>10. Accounted
  BY <1>1, <1>6, <1>7, <1>8, <1>9 DEF Accounted
<1>11. AP_listitem_verify(ls) <=> D # {}
  <2>1. (ls.itemcount # 0 <=> DOMAIN ls.heap # {}) /\ (ls.headcount # 0 <=> D # {})
    BY <1>1, FS_EmptySet
  <2>2. D = {} => DOMAIN ls.heap = {}
    BY <1>4
  <2> QED
    BY <2>1, <2>2 DEF AP_listitem_verify
<1>12. \A p \in D : Answers(View(ls, p), Data(View(ls, p)))
  BY <1>2, <1>5, ListAnswers
<1>13. AnswersTrue
  BY <1>11, <1>12, Zenon DEF AnswersTrue, Answers
<1> QED
  BY <1>10, <1>13

-----------------------------------------------------------------------------
(* The steps                                                               *)

\* The place of the traversal c among the items ord
AtOf(ord, c) == [list |-> c.list,
                 pos |-> IF c.temp = NoItem THEN 0 ELSE First(ord[c.list], c.temp)]

\* Where the cursor is, by the links and by the places in the sequence
LEMMA AtSound ==
  ASSUME NEW x, NEW c, StateSound(x, c)
  PROVE  [list |-> c.list, pos |-> Place(Visited(View(x, c.list)), c.temp)] = AtOf(OrderOf(x), c)
<1>1. c.temp # NoItem => OrderOf(x)[c.list] = Visited(View(x, c.list))
  BY CursorPlace DEF OrderOf
<1>2. Place(Visited(View(x, c.list)), c.temp)
        = IF c.temp = NoItem THEN 0 ELSE First(OrderOf(x)[c.list], c.temp)
  <2>1. CASE c.temp = NoItem
    BY <2>1 DEF Place
  <2>2. CASE c.temp # NoItem
    <3> DEFINE s == Visited(View(x, c.list))
    <3>1. Place(s, c.temp) = First(s, c.temp)
      <4> HIDE DEF s
      <4> QED
        BY <2>2, Zenon DEF Place, First
    <3> QED
      BY <3>1, <1>1, <2>2
  <2> QED
    BY <2>1, <2>2
<1> QED
  BY <1>2, Zenon DEF AtOf

\* The cursor at the item k is at the place k.
LEMMA AtPlace ==
  ASSUME NEW x, NEW c, StateSound(x, c), c.temp # NoItem,
         NEW k \in 1 .. Len(OrderOf(x)[c.list]), OrderOf(x)[c.list][k] = c.temp
  PROVE  AtOf(OrderOf(x), c) = [list |-> c.list, pos |-> k]
<1> DEFINE s == OrderOf(x)[c.list]
<1>1. c.list \in DOMAIN x.lists
  BY CursorPlace
<1>2. s \in Seq(Nat) /\ Reads(View(x, c.list), s, SeqsOf(x)[c.list])
  BY <1>1, SoundFacts, KeptFacts
<1>3. \A i, j \in 1 .. Len(s) : s[i] = s[j] => i = j
  BY <1>2 DEF Reads
<1>4. First(s, s[k]) = k
  BY <1>2, <1>3, FirstAt
<1> QED
  BY <1>4 DEF AtOf

\* What a step has to come to
LEMMA StateMade ==
  ASSUME NEW y, NEW c, NEW o2, NEW s2,
         y = [heap |-> y.heap, lists |-> y.lists,
              itemcount |-> y.itemcount, headcount |-> y.headcount],
         Kept(y, o2, s2),
         y.itemcount = Cardinality(DOMAIN y.heap), y.headcount = Cardinality(DOMAIN y.lists),
         c \in [list : Nat, temp : Nat],
         c.list = 0 => c.temp = NoItem, c.list # 0 => c.list \in DOMAIN y.lists,
         c.temp # NoItem => c.temp \in Range(o2[c.list])
  PROVE  StateSound(y, c) /\ OrderOf(y) = o2 /\ SeqsOf(y) = s2
<1>1. OrderOf(y) = o2 /\ SeqsOf(y) = s2
  BY KeptOnce
<1>2. StateSound(y, c)
  BY <1>1 DEF StateSound
<1> QED
  BY <1>1, <1>2

\* The lists after one of them was changed
LEMMA StoreShape ==
  ASSUME NEW x, NEW p, NEW m,
         x = [heap |-> x.heap, lists |-> x.lists,
              itemcount |-> x.itemcount, headcount |-> x.headcount]
  PROVE  Store(x, p, m) = [heap |-> m.item, lists |-> With(x.lists, p, Bare(m)),
                           itemcount |-> x.itemcount, headcount |-> x.headcount]
<1> DEFINE e == With(x.lists, p, Bare(m))
           h == m.item
<1>1. Store(x, p, m) = [x EXCEPT !.heap = h, !.lists = e]
  BY DEF Store, With, Bare
<1> HIDE DEF e, h
<1>2. [x EXCEPT !.heap = h, !.lists = e]
        = [heap |-> h, lists |-> e, itemcount |-> x.itemcount, headcount |-> x.headcount]
  <2> DEFINE H == x.heap
             L == x.lists
             I == x.itemcount
             C == x.headcount
  <2>1. x = [heap |-> H, lists |-> L, itemcount |-> I, headcount |-> C]
    OBVIOUS
  <2> HIDE DEF H, L, I, C
  <2> DEFINE y == [x EXCEPT !.heap = h]
  <2>2. y = [heap |-> h, lists |-> L, itemcount |-> I, headcount |-> C]
    BY <2>1
  <2> HIDE DEF y
  <2>3. [y EXCEPT !.lists = e] = [heap |-> h, lists |-> e, itemcount |-> I, headcount |-> C]
    BY <2>2
  <2> QED
    BY <2>3 DEF I, C, y
<1> QED
  BY <1>1, <1>2 DEF e, h

\* There is a handle for another list.
LEMMA HandleNew ==
  ASSUME NEW x, NEW c, StateSound(x, c), Cardinality(DOMAIN x.lists) < MaxLists
  PROVE  NewHandle(x) \in 1 .. MaxLists /\ NewHandle(x) \notin DOMAIN x.lists
<1>1. DOMAIN x.lists \subseteq 1 .. MaxLists /\ IsFiniteSet(DOMAIN x.lists)
      /\ Cardinality(DOMAIN x.lists) \in Nat
  BY SoundFacts
<1>2. \E p \in 1 .. MaxLists : p \notin DOMAIN x.lists
  <2> SUFFICES ASSUME 1 .. MaxLists \subseteq DOMAIN x.lists PROVE FALSE
    OBVIOUS
  <2>1. 1 .. MaxLists = DOMAIN x.lists
    BY <1>1
  <2>2. Cardinality(1 .. MaxLists) = MaxLists
    BY FS_Interval, ListUseAssumption
  <2> QED
    BY <2>1, <2>2, ListUseAssumption
<1> QED
  BY <1>2, Zenon DEF NewHandle

\* The sequences and the place that ListUse says its state stands for
LEMMA AbsFacts ==
  /\ Seqs = SeqsOf(ls)
  /\ Seqs' = SeqsOf(ls')
  /\ At = [list |-> cursor.list, pos |-> Place(Visited(View(ls, cursor.list)), cursor.temp)]
  /\ At' = [list |-> cursor'.list,
            pos |-> Place(Visited(View(ls', cursor'.list)), cursor'.temp)]
BY DEF Seqs, SeqsOf, At, ItemsOf

\* The instance of DataLists has operators of its own for the sequences.
LEMMA AbsOperators ==
  /\ \A v, k : DataSequences!RemoveAt(v, k) = RemoveAt(v, k)
  /\ \A v, d : DataSequences!SelectInSeq(v, LAMBDA x : x = d) = First(v, d)
<1>1. \A v, k : DataSequences!RemoveAt(v, k) = RemoveAt(v, k)
  BY DEF DataSequences!RemoveAt, RemoveAt
<1>2. ASSUME NEW v, NEW d PROVE DataSequences!SelectInSeq(v, LAMBDA x : x = d) = First(v, d)
  <2> DEFINE I == {i \in 1 .. Len(v) : v[i] = d}
  <2>1. DataSequences!Min(I) = Min(I)
    <3> HIDE DEF I
    <3> QED
      BY DEF DataSequences!Min, Min
  <2> QED
    BY <2>1 DEF DataSequences!SelectInSeq, First, SelectInSeq
<1> QED
  BY <1>1, <1>2

\* AP_list_new
LEMMA NewSteps ==
  ASSUME ListsInv, NewList
  PROVE  ListsInv' /\ DataSequences!Step
<1> DEFINE p == NewHandle(ls)
           m == EmptyOn(ls.heap)
           o2 == With(OrderOf(ls), p, <<>>)
           s2 == With(SeqsOf(ls), p, <<>>)
<1>1. StateSound(ls, cursor)
  BY DEF ListsInv
<1>2. /\ Cardinality(DOMAIN ls.lists) < MaxLists
      /\ ls' = [Store(ls, p, m) EXCEPT !.headcount = @ + 1]
      /\ ret' = <<>> /\ cursor' = cursor
  BY DEF NewList, EmptyOn
<1>3. p \in 1 .. MaxLists /\ p \notin DOMAIN ls.lists
  BY <1>1, <1>2, HandleNew
<1> HIDE DEF p
<1>4. ls' = [heap |-> m.item, lists |-> With(ls.lists, p, Bare(m)),
             itemcount |-> ls.itemcount, headcount |-> ls.headcount + 1]
  <2>1. Store(ls, p, m)
          = [heap |-> m.item, lists |-> With(ls.lists, p, Bare(m)),
             itemcount |-> ls.itemcount, headcount |-> ls.headcount]
    BY <1>1, StoreShape DEF StateSound
  <2> HIDE DEF m
  <2> QED
    BY <2>1, <1>2
<1>5. /\ ls'.heap = m.item /\ ls'.lists = With(ls.lists, p, Bare(m))
      /\ ls'.itemcount = ls.itemcount /\ ls'.headcount = ls.headcount + 1
      /\ ls' = [heap |-> ls'.heap, lists |-> ls'.lists,
                itemcount |-> ls'.itemcount, headcount |-> ls'.headcount]
  <2> HIDE DEF m
  <2> QED
    BY <1>4
<1>6. Kept(ls', o2, s2) /\ ls'.heap = ls.heap
  <2>1. Kept(ls, OrderOf(ls), SeqsOf(ls))
    BY <1>1, SoundFacts
  <2>2. m = EmptyOn(ls.heap)
    OBVIOUS
  <2> HIDE DEF m
  <2> QED
    BY <2>1, <2>2, <1>3, <1>5, NewKeeps
<1> HIDE DEF m
<1>7. DOMAIN ls'.lists = DOMAIN ls.lists \cup {p}
  BY <1>5 DEF With
<1>8. ls'.itemcount = Cardinality(DOMAIN ls'.heap) /\ ls'.headcount = Cardinality(DOMAIN ls'.lists)
  <2>1. /\ IsFiniteSet(DOMAIN ls.lists) /\ ls.headcount = Cardinality(DOMAIN ls.lists)
        /\ ls.itemcount = Cardinality(DOMAIN ls.heap)
    BY <1>1, SoundFacts
  <2>2. Cardinality(DOMAIN ls.lists \cup {p}) = Cardinality(DOMAIN ls.lists) + 1
    BY <2>1, <1>3, FS_AddElement
  <2> QED
    BY <2>1, <2>2, <1>5, <1>6, <1>7
<1>9. cursor.temp # NoItem => o2[cursor.list] = OrderOf(ls)[cursor.list]
  BY <1>1, <1>3, CursorPlace DEF With, OrderOf
<1>10. StateSound(ls', cursor') /\ OrderOf(ls') = o2 /\ SeqsOf(ls') = s2
  <2>1. /\ cursor' \in [list : Nat, temp : Nat]
        /\ cursor'.list = 0 => cursor'.temp = NoItem
        /\ cursor'.list # 0 => cursor'.list \in DOMAIN ls'.lists
        /\ cursor'.temp # NoItem => cursor'.temp \in Range(o2[cursor'.list])
    BY <1>1, <1>2, <1>7, <1>9 DEF StateSound
  <2> HIDE DEF o2, s2
  <2> QED
    BY <2>1, <1>5, <1>6, <1>8, StateMade
<1>11. At' = At
  <2>1. At' = AtOf(o2, cursor) /\ At = AtOf(OrderOf(ls), cursor)
    BY <1>1, <1>2, <1>10, AbsFacts, AtSound
  <2> QED
    BY <2>1, <1>9 DEF AtOf
<1>12. DataSequences!New(p)
  <2>1. p \notin DOMAIN Seqs /\ Seqs' = With(Seqs, p, <<>>)
    BY <1>3, <1>10, AbsFacts DEF SeqsOf
  <2> QED
    BY <2>1, <1>2, <1>11 DEF DataSequences!New, DataSequences!Set, With
<1> QED
  BY <1>3, <1>10, <1>12 DEF DataSequences!Step, ListsInv

\* A step that changes list p and leaves the cursor
LEMMA ChangeMade ==
  ASSUME NEW x, NEW c, StateSound(x, c), NEW p \in DOMAIN x.lists, NEW t, NEW w, NEW m, NEW y,
         y = [heap |-> y.heap, lists |-> y.lists,
              itemcount |-> y.itemcount, headcount |-> y.headcount],
         Kept(y, With(OrderOf(x), p, t), With(SeqsOf(x), p, w)),
         y.lists = With(x.lists, p, Bare(m)),
         y.itemcount = Cardinality(DOMAIN y.heap), y.headcount = x.headcount,
         c.list = p /\ c.temp # NoItem => c.temp \in Range(t)
  PROVE  /\ StateSound(y, c)
         /\ OrderOf(y) = With(OrderOf(x), p, t) /\ SeqsOf(y) = With(SeqsOf(x), p, w)
         /\ OrderOf(y)[p] = t
         /\ c.list # p \/ c.temp = NoItem => AtOf(OrderOf(y), c) = AtOf(OrderOf(x), c)
<1> DEFINE o2 == With(OrderOf(x), p, t)
           s2 == With(SeqsOf(x), p, w)
<1>1. DOMAIN y.lists = DOMAIN x.lists
  BY DEF With
<1>2. o2[p] = t /\ \A q \in DOMAIN x.lists : q # p => o2[q] = OrderOf(x)[q]
  BY DEF With, OrderOf
<1> HIDE DEF o2, s2
<1>3. /\ c \in [list : Nat, temp : Nat]
      /\ c.list = 0 => c.temp = NoItem
      /\ c.list # 0 => c.list \in DOMAIN y.lists
      /\ c.temp # NoItem => c.temp \in Range(o2[c.list])
  BY <1>1, <1>2, CursorPlace DEF StateSound
<1>4. y.headcount = Cardinality(DOMAIN y.lists)
  BY <1>1 DEF StateSound
<1>5. Kept(y, o2, s2)
  BY DEF o2, s2
<1>6. StateSound(y, c) /\ OrderOf(y) = o2 /\ SeqsOf(y) = s2
  BY <1>3, <1>4, <1>5, StateMade
<1>7. c.list # p \/ c.temp = NoItem => AtOf(o2, c) = AtOf(OrderOf(x), c)
  BY <1>2, CursorPlace DEF AtOf
<1> QED
  BY <1>2, <1>6, <1>7 DEF o2, s2

\* List p is m, and n items are counted.
Stored(x, p, m, n) == [Store(x, p, m) EXCEPT !.itemcount = n]

\* The lists after a call that changed one of them and the count of the items
LEMMA StoredFields ==
  ASSUME NEW x, NEW c, StateSound(x, c), NEW p, NEW m, NEW n, NEW y,
         y = Stored(x, p, m, n)
  PROVE  /\ y.heap = m.item /\ y.lists = With(x.lists, p, Bare(m))
         /\ y.itemcount = n /\ y.headcount = x.headcount
         /\ y = [heap |-> y.heap, lists |-> y.lists,
                 itemcount |-> y.itemcount, headcount |-> y.headcount]
<1> DEFINE h == m.item
           e == With(x.lists, p, Bare(m))
           i == x.itemcount
           k == x.headcount
           z == Store(x, p, m)
<1>1. z = [heap |-> h, lists |-> e, itemcount |-> i, headcount |-> k]
  BY StoreShape DEF StateSound
<1>2. y = [z EXCEPT !.itemcount = n]
  BY DEF Stored
<1> HIDE DEF h, e, i, k, z
<1>3. y = [heap |-> h, lists |-> e, itemcount |-> n, headcount |-> k]
  BY <1>1, <1>2
<1>4. y.heap = h /\ y.lists = e /\ y.itemcount = n /\ y.headcount = k
  BY <1>3
<1>5. y = [heap |-> y.heap, lists |-> y.lists,
           itemcount |-> y.itemcount, headcount |-> y.headcount]
  BY <1>3, <1>4
<1> QED
  BY <1>4, <1>5 DEF h, e, k

\* AP_list_append
LEMMA AppendSteps ==
  ASSUME ListsInv, NEW p \in DOMAIN ls.lists, NEW d \in ListData, AppendItem(p, d)
  PROVE  ListsInv' /\ DataSequences!Step
<1> DEFINE a == Malloc(View(ls, p))
           m == AP_list_append(View(ls, p), a, d)
           s == OrderOf(ls)[p]
           v == SeqsOf(ls)[p]
           t == Append(s, a)
           w == Append(v, d)
<1>1. StateSound(ls, cursor)
  BY DEF ListsInv
<1>2. /\ ls' = [Store(ls, p, m) EXCEPT !.itemcount = @ + 1]
      /\ ret' = <<>> /\ cursor' = cursor
  BY DEF AppendItem, Adds, AP_listitem_malloc
<1>3. Store(ls, p, m).itemcount = ls.itemcount
  BY <1>1, StoreShape DEF StateSound
<1>4. /\ Kept(ls, OrderOf(ls), SeqsOf(ls))
      /\ ls.itemcount = Cardinality(DOMAIN ls.heap) /\ IsFiniteSet(DOMAIN ls.heap)
      /\ DOMAIN SeqsOf(ls) = DOMAIN ls.lists
  BY <1>1, SoundFacts
<1>5. /\ ls'.heap = m.item /\ ls'.lists = With(ls.lists, p, Bare(m))
      /\ ls'.itemcount = ls.itemcount + 1 /\ ls'.headcount = ls.headcount
      /\ ls' = [heap |-> ls'.heap, lists |-> ls'.lists,
                itemcount |-> ls'.itemcount, headcount |-> ls'.headcount]
  <2> HIDE DEF m
  <2>1. ls' = Stored(ls, p, m, ls.itemcount + 1)
    BY <1>2, <1>3 DEF Stored
  <2> QED
    BY <2>1, <1>1, StoredFields
<1>6. /\ Kept(ls', With(OrderOf(ls), p, t), With(SeqsOf(ls), p, w))
      /\ DOMAIN ls'.heap = DOMAIN ls.heap \cup {a} /\ a \notin DOMAIN ls.heap
  BY <1>4, <1>5, AppendKeeps
<1>7. ls'.itemcount = Cardinality(DOMAIN ls'.heap)
  BY <1>4, <1>5, <1>6, FS_AddElement
<1> HIDE DEF a, m
<1>8. /\ s \in Seq(Nat) /\ a \in Nat
      /\ \A i \in 1 .. Len(s) : t[i] = s[i] /\ i \in 1 .. Len(t)
      /\ \A i \in Range(s) : i \in Range(t)
  <2>1. s \in Seq(Nat)
    BY <1>4, KeptFacts
  <2>2. a \in Nat
    <3>1. IsFiniteSet(DOMAIN View(ls, p).item)
      BY <1>4, KeptFacts
    <3> QED
      BY <3>1, MallocNew DEF a
  <2>3. Range(t) = Range(s) \cup {a}
    BY <2>1, <2>2, RangeAppend
  <2> QED
    BY <2>1, <2>2, <2>3
<1>9. cursor.list = p /\ cursor.temp # NoItem =>
        \E k \in 1 .. Len(s) : s[k] = cursor.temp
  BY <1>1, CursorPlace
<1> HIDE DEF s, t, v, w
<1>10. cursor.list = p /\ cursor.temp # NoItem => cursor.temp \in Range(t)
  BY <1>8, <1>9, SeqFacts
<1>11. /\ StateSound(ls', cursor)
       /\ OrderOf(ls') = With(OrderOf(ls), p, t) /\ SeqsOf(ls') = With(SeqsOf(ls), p, w)
       /\ OrderOf(ls')[p] = t
       /\ cursor.list # p \/ cursor.temp = NoItem =>
            AtOf(OrderOf(ls'), cursor) = AtOf(OrderOf(ls), cursor)
  BY <1>1, <1>5, <1>6, <1>7, <1>10, ChangeMade
<1>12. At' = At
  <2>1. At' = AtOf(OrderOf(ls'), cursor) /\ At = AtOf(OrderOf(ls), cursor)
    BY <1>1, <1>2, <1>11, AbsFacts, AtSound
  <2>2. ASSUME cursor.list = p, cursor.temp # NoItem
        PROVE  AtOf(OrderOf(ls'), cursor) = AtOf(OrderOf(ls), cursor)
    <3>1. PICK k \in 1 .. Len(s) : s[k] = cursor.temp
      BY <2>2, <1>9
    <3>2. t[k] = cursor.temp /\ k \in 1 .. Len(t)
      BY <3>1, <1>8
    <3>3. AtOf(OrderOf(ls), cursor) = [list |-> cursor.list, pos |-> k]
      BY <3>1, <2>2, <1>1, AtPlace DEF s
    <3>4. AtOf(OrderOf(ls'), cursor) = [list |-> cursor.list, pos |-> k]
      BY <3>2, <2>2, <1>11, AtPlace
    <3> QED
      BY <3>3, <3>4
  <2> QED
    BY <2>1, <2>2, <1>11
<1>13. DataSequences!PutLast(p, d)
  <2>1. Seqs' = With(Seqs, p, Append(Seqs[p], d))
    BY <1>11, AbsFacts DEF v, w
  <2> QED
    BY <2>1, <1>2, <1>12 DEF DataSequences!PutLast, DataSequences!Set, With
<1> QED
  <2>1. p \in DOMAIN Seqs
    BY <1>4, AbsFacts
  <2> QED
    BY <2>1, <1>2, <1>11, <1>13 DEF DataSequences!Step, ListsInv

\* AP_list_prepend
LEMMA PrependSteps ==
  ASSUME ListsInv, NEW p \in DOMAIN ls.lists, NEW d \in ListData, PrependItem(p, d)
  PROVE  ListsInv' /\ DataSequences!Step
<1> DEFINE a == Malloc(View(ls, p))
           m == AP_list_prepend(View(ls, p), a, d)
           s == OrderOf(ls)[p]
           v == SeqsOf(ls)[p]
           t == <<a>> \o s
           w == <<d>> \o v
<1>1. StateSound(ls, cursor)
  BY DEF ListsInv
<1>2. /\ ls' = [Store(ls, p, m) EXCEPT !.itemcount = @ + 1]
      /\ ret' = <<>> /\ cursor' = cursor
  BY DEF PrependItem, Adds, AP_listitem_malloc
<1>3. Store(ls, p, m).itemcount = ls.itemcount
  BY <1>1, StoreShape DEF StateSound
<1>4. /\ Kept(ls, OrderOf(ls), SeqsOf(ls))
      /\ ls.itemcount = Cardinality(DOMAIN ls.heap) /\ IsFiniteSet(DOMAIN ls.heap)
      /\ DOMAIN SeqsOf(ls) = DOMAIN ls.lists
  BY <1>1, SoundFacts
<1>5. /\ ls'.heap = m.item /\ ls'.lists = With(ls.lists, p, Bare(m))
      /\ ls'.itemcount = ls.itemcount + 1 /\ ls'.headcount = ls.headcount
      /\ ls' = [heap |-> ls'.heap, lists |-> ls'.lists,
                itemcount |-> ls'.itemcount, headcount |-> ls'.headcount]
  <2> HIDE DEF m
  <2>1. ls' = Stored(ls, p, m, ls.itemcount + 1)
    BY <1>2, <1>3 DEF Stored
  <2> QED
    BY <2>1, <1>1, StoredFields
<1>6. /\ Kept(ls', With(OrderOf(ls), p, t), With(SeqsOf(ls), p, w))
      /\ DOMAIN ls'.heap = DOMAIN ls.heap \cup {a} /\ a \notin DOMAIN ls.heap /\ a \in Nat
  BY <1>4, <1>5, PrependKeeps
<1>7. ls'.itemcount = Cardinality(DOMAIN ls'.heap)
  BY <1>4, <1>5, <1>6, FS_AddElement
<1> HIDE DEF a, m
<1>8. /\ s \in Seq(Nat) /\ Len(s) \in Nat /\ Len(t) = Len(s) + 1
      /\ \A i \in 1 .. Len(s) : t[i + 1] = s[i]
      /\ \A i \in Range(s) : i \in Range(t)
  <2>1. s \in Seq(Nat)
    BY <1>4, KeptFacts
  <2>2. Range(t) = Range(s) \cup {a} /\ Len(t) = Len(s) + 1 /\ Len(s) \in Nat
        /\ \A i \in 1 .. Len(s) : t[i + 1] = s[i]
    <3>1. a \in Nat
      BY <1>6
    <3> QED
      BY <2>1, <3>1, RangePrepend
  <2> QED
    BY <2>1, <2>2
<1>9. cursor.list = p /\ cursor.temp # NoItem =>
        \E k \in 1 .. Len(s) : s[k] = cursor.temp
  BY <1>1, CursorPlace
<1> HIDE DEF s, t, v, w
<1>10. cursor.list = p /\ cursor.temp # NoItem => cursor.temp \in Range(t)
  BY <1>8, <1>9, SeqFacts
<1>11. /\ StateSound(ls', cursor)
       /\ OrderOf(ls') = With(OrderOf(ls), p, t) /\ SeqsOf(ls') = With(SeqsOf(ls), p, w)
       /\ OrderOf(ls')[p] = t
       /\ cursor.list # p \/ cursor.temp = NoItem =>
            AtOf(OrderOf(ls'), cursor) = AtOf(OrderOf(ls), cursor)
  BY <1>1, <1>5, <1>6, <1>7, <1>10, ChangeMade, SMTT(30)
<1>12. At' = IF At.list = p /\ At.pos > 0 THEN [At EXCEPT !.pos = @ + 1] ELSE At
  <2>1. At' = AtOf(OrderOf(ls'), cursor) /\ At = AtOf(OrderOf(ls), cursor)
    BY <1>1, <1>2, <1>11, AbsFacts, AtSound
  <2>2. CASE cursor.list = p /\ cursor.temp # NoItem
    <3>1. PICK k \in 1 .. Len(s) : s[k] = cursor.temp
      BY <2>2, <1>9
    <3>2. t[k + 1] = cursor.temp /\ k + 1 \in 1 .. Len(t) /\ k > 0
      BY <3>1, <1>8
    <3>3. At = [list |-> p, pos |-> k]
      BY <3>1, <2>1, <2>2, <1>1, AtPlace DEF s
    <3>4. At' = [list |-> p, pos |-> k + 1]
      BY <3>2, <2>1, <2>2, <1>11, AtPlace
    <3>5. [At EXCEPT !.pos = @ + 1] = [list |-> p, pos |-> k + 1]
      BY <3>3
    <3> QED
      BY <3>2, <3>3, <3>4, <3>5
  <2>3. CASE cursor.list # p \/ cursor.temp = NoItem
    <3>1. At' = At
      BY <2>1, <2>3, <1>11
    <3>2. At.list = cursor.list /\ (cursor.temp = NoItem => At.pos = 0)
      BY <2>1 DEF AtOf
    <3> QED
      BY <3>1, <3>2, <2>3
  <2> QED
    BY <2>2, <2>3
<1>13. DataSequences!PutFirst(p, d)
  <2>1. Seqs' = With(Seqs, p, <<d>> \o Seqs[p])
    BY <1>11, AbsFacts DEF v, w
  <2> QED
    BY <2>1, <1>2, <1>12 DEF DataSequences!PutFirst, DataSequences!Set, With
<1> QED
  <2>1. p \in DOMAIN Seqs
    BY <1>4, AbsFacts
  <2> QED
    BY <2>1, <1>2, <1>11, <1>13 DEF DataSequences!Step, ListsInv

\* AP_list_delete
LEMMA DeleteSteps ==
  ASSUME ListsInv, NEW p \in DOMAIN ls.lists, NEW d \in ListData, DeleteData(p, d)
  PROVE  ListsInv' /\ (DataSequences!Step \/ DataSequences!Delete(p, d))
<1> DEFINE l == View(ls, p)
           s == OrderOf(ls)[p]
           v == SeqsOf(ls)[p]
           k == First(v, d)
           a == AP_list_search(l, d)
<1>1. StateSound(ls, cursor)
  BY DEF ListsInv
<1>2. /\ Kept(ls, OrderOf(ls), SeqsOf(ls))
      /\ ls.itemcount = Cardinality(DOMAIN ls.heap) /\ IsFiniteSet(DOMAIN ls.heap)
      /\ DOMAIN SeqsOf(ls) = DOMAIN ls.lists
  BY <1>1, SoundFacts
<1>3. /\ Reads(l, s, v) /\ IsFiniteSet(DOMAIN l.item)
      /\ s \in Seq(Nat) /\ v \in Seq(ListData) /\ Len(v) = Len(s) /\ Len(s) \in Nat
  BY <1>2, KeptFacts
<1>4. a = IF k = 0 THEN NoItem ELSE s[k]
  <2> HIDE DEF l, s, v
  <2> QED
    BY <1>3, SearchReads
<1>5. k = 0 \/ (k \in 1 .. Len(s) /\ k # 0 /\ s[k] # NoItem)
  <2> HIDE DEF l, s, v
  <2> QED
    BY <1>3, FirstFacts DEF Reads
<1>6. /\ a # NoItem => a # cursor.temp
      /\ ls' = IF a = NoItem THEN ls
               ELSE [Store(ls, p, AP_list_delete(l, d)) EXCEPT !.itemcount = @ - 1]
      /\ ret' = <<IF a = NoItem THEN 0 ELSE 1>>
      /\ cursor' = cursor
  BY DEF DeleteData
<1>7. CASE k = 0
  <2>1. ls' = ls /\ ret' = <<0>> /\ cursor' = cursor
    BY <1>4, <1>6, <1>7
  <2>2. Seqs' = Seqs /\ At' = At
    BY <2>1, AbsFacts
  <2>3. ListsInv'
    BY <1>1, <2>1 DEF ListsInv
  <2>4. First(Seqs[p], d) = 0
    BY <1>7, AbsFacts
  <2>5. DataSequences!Delete(p, d)
    BY <2>1, <2>2, <2>4, AbsOperators, Zenon DEF DataSequences!Delete
  <2> QED
    BY <2>3, <2>5
<1>8. CASE k # 0
  <2> DEFINE m == AP_list_delete_item(l, s[k])
             t == RemoveAt(s, k)
             w == RemoveAt(v, k)
  <2>1. /\ k \in 1 .. Len(s) /\ s[k] # NoItem /\ a = s[k] /\ s[k] # cursor.temp
        /\ ret' = <<1>> /\ cursor' = cursor
    BY <1>4, <1>5, <1>6, <1>8
  <2>2. ls' = [Store(ls, p, m) EXCEPT !.itemcount = @ - 1]
    <3>1. AP_list_delete(l, d) = m
      BY <2>1 DEF AP_list_delete
    <3> HIDE DEF m, a
    <3> QED
      BY <2>1, <3>1, <1>6
  <2>3. Store(ls, p, m).itemcount = ls.itemcount
    BY <1>1, StoreShape DEF StateSound
  <2>4. /\ ls'.heap = m.item /\ ls'.lists = With(ls.lists, p, Bare(m))
        /\ ls'.itemcount = ls.itemcount - 1 /\ ls'.headcount = ls.headcount
        /\ ls' = [heap |-> ls'.heap, lists |-> ls'.lists,
                  itemcount |-> ls'.itemcount, headcount |-> ls'.headcount]
    <3> HIDE DEF m
    <3>1. ls' = Stored(ls, p, m, ls.itemcount - 1)
      BY <2>2, <2>3 DEF Stored
    <3> QED
      BY <3>1, <1>1, StoredFields
  <2> HIDE DEF k
  <2>5. /\ Kept(ls', With(OrderOf(ls), p, t), With(SeqsOf(ls), p, w))
        /\ DOMAIN ls'.heap = DOMAIN ls.heap \ {s[k]} /\ s[k] \in DOMAIN ls.heap
    BY <1>2, <2>1, <2>4, DeleteKeeps
  <2>6. ls'.itemcount = Cardinality(DOMAIN ls'.heap)
    BY <1>2, <2>4, <2>5, FS_RemoveElement
  <2> HIDE DEF m
  <2>7. /\ \A i, j \in 1 .. Len(s) : s[i] = s[j] => i = j
        /\ Len(t) = Len(s) - 1
        /\ \A i \in 1 .. Len(s) - 1 : t[i] = IF i < k THEN s[i] ELSE s[i + 1]
        /\ Range(t) = Range(s) \ {s[k]}
    <3>1. \A i, j \in 1 .. Len(s) : s[i] = s[j] => i = j
      BY <1>3 DEF Reads
    <3> QED
      BY <3>1, <1>3, <2>1, RemoveFacts, RangeRemove
  <2>8. cursor.list = p /\ cursor.temp # NoItem =>
          \E i \in 1 .. Len(s) : s[i] = cursor.temp
    BY <1>1, CursorPlace
  <2> HIDE DEF s, v, l, t, w
  <2>9. cursor.list = p /\ cursor.temp # NoItem => cursor.temp \in Range(t)
    BY <1>3, <2>1, <2>7, <2>8, SeqFacts
  <2>10. /\ StateSound(ls', cursor)
         /\ OrderOf(ls') = With(OrderOf(ls), p, t) /\ SeqsOf(ls') = With(SeqsOf(ls), p, w)
         /\ OrderOf(ls')[p] = t
         /\ cursor.list # p \/ cursor.temp = NoItem =>
              AtOf(OrderOf(ls'), cursor) = AtOf(OrderOf(ls), cursor)
    BY <1>1, <2>4, <2>5, <2>6, <2>9, ChangeMade
  <2>11. At' = IF At.list = p /\ k < At.pos THEN [At EXCEPT !.pos = @ - 1] ELSE At
    <3>1. At' = AtOf(OrderOf(ls'), cursor) /\ At = AtOf(OrderOf(ls), cursor)
      BY <1>1, <2>1, <2>10, AbsFacts, AtSound
    <3>2. CASE cursor.list = p /\ cursor.temp # NoItem
      <4>1. PICK i \in 1 .. Len(s) : s[i] = cursor.temp
        BY <3>2, <2>8
      <4>2. At = [list |-> p, pos |-> i]
        BY <4>1, <3>1, <3>2, <1>1, AtPlace DEF s
      <4>3. i # k
        BY <4>1, <2>1
      <4>4. CASE k < i
        <5>1. i - 1 \in 1 .. Len(s) - 1 /\ ~(i - 1 < k) /\ (i - 1) + 1 = i
          BY <4>4, <1>3, <2>1
        <5>2. t[i - 1] = cursor.temp /\ i - 1 \in 1 .. Len(t)
          BY <5>1, <4>1, <2>7
        <5>3. At' = [list |-> p, pos |-> i - 1]
          BY <5>2, <3>1, <3>2, <2>10, AtPlace
        <5>4. [At EXCEPT !.pos = @ - 1] = [list |-> p, pos |-> i - 1]
          BY <4>2
        <5> QED
          BY <5>3, <5>4, <4>2, <4>4
      <4>5. CASE ~(k < i)
        <5>1. i \in 1 .. Len(s) - 1 /\ i < k
          BY <4>3, <4>5, <1>3, <2>1
        <5>2. t[i] = cursor.temp /\ i \in 1 .. Len(t)
          BY <5>1, <4>1, <2>7
        <5>3. At' = [list |-> p, pos |-> i]
          BY <5>2, <3>1, <3>2, <2>10, AtPlace
        <5> QED
          BY <5>3, <4>2, <4>5
      <4> QED
        BY <4>4, <4>5
    <3>3. CASE cursor.list # p \/ cursor.temp = NoItem
      <4>1. At' = At
        BY <3>1, <3>3, <2>10
      <4>2. At.list = cursor.list /\ (cursor.temp = NoItem => At.pos = 0)
        BY <3>1 DEF AtOf
      <4>3. ~(k < 0)
        BY <2>1
      <4> QED
        BY <4>1, <4>2, <4>3, <3>3
    <3> QED
      BY <3>2, <3>3
  <2>12. Seqs' = With(Seqs, p, RemoveAt(Seqs[p], k)) /\ First(Seqs[p], d) = k /\ k # 0
    BY <2>10, <1>8, AbsFacts DEF v, w, k
  <2>13. DataSequences!Set(p, RemoveAt(Seqs[p], k))
    BY <2>12 DEF DataSequences!Set, With
  <2>14. DataSequences!Delete(p, d)
    BY <2>1, <2>11, <2>12, <2>13, AbsOperators, Zenon DEF DataSequences!Delete
  <2> QED
    BY <2>1, <2>10, <2>14 DEF ListsInv
<1> QED
  BY <1>7, <1>8

\* List p is m, and one list and n items more are counted.
Added(x, p, m, n) == [Store(x, p, m) EXCEPT !.headcount = @ + 1, !.itemcount = @ + n]

\* The lists after AP_list_duplicate
LEMMA DuplicateFields ==
  ASSUME NEW x, NEW c, StateSound(x, c), NEW p, NEW m, NEW n, NEW y,
         y = Added(x, p, m, n)
  PROVE  /\ y.heap = m.item /\ y.lists = With(x.lists, p, Bare(m))
         /\ y.itemcount = x.itemcount + n /\ y.headcount = x.headcount + 1
         /\ y = [heap |-> y.heap, lists |-> y.lists,
                 itemcount |-> y.itemcount, headcount |-> y.headcount]
<1> DEFINE h == m.item
           e == With(x.lists, p, Bare(m))
           i == x.itemcount
           k == x.headcount
           z == Store(x, p, m)
           u == [z EXCEPT !.headcount = @ + 1]
<1>1. z = [heap |-> h, lists |-> e, itemcount |-> i, headcount |-> k]
  BY StoreShape DEF StateSound
<1>2. y = [u EXCEPT !.itemcount = @ + n]
  BY DEF Added
<1> HIDE DEF h, e, i, k, z
<1>3. u = [heap |-> h, lists |-> e, itemcount |-> i, headcount |-> k + 1]
  BY <1>1
<1> HIDE DEF u
<1>4. y = [heap |-> h, lists |-> e, itemcount |-> i + n, headcount |-> k + 1]
  BY <1>2, <1>3
<1>5. y.heap = h /\ y.lists = e /\ y.itemcount = i + n /\ y.headcount = k + 1
  BY <1>4
<1>6. y = [heap |-> y.heap, lists |-> y.lists,
           itemcount |-> y.itemcount, headcount |-> y.headcount]
  BY <1>4, <1>5
<1> QED
  BY <1>5, <1>6 DEF h, e, k, i

\* The lists after AP_list_free
LEMMA FreeFields ==
  ASSUME NEW x, NEW c, StateSound(x, c), NEW p, NEW y, y = AP_list_free(x, p),
         NEW gone, gone = Visited(View(x, p))
  PROVE  /\ y.heap = Without(x.heap, Range(gone)) /\ y.lists = Without(x.lists, {p})
         /\ y.itemcount = x.itemcount - Len(gone) /\ y.headcount = x.headcount - 1
         /\ y = [heap |-> y.heap, lists |-> y.lists,
                 itemcount |-> y.itemcount, headcount |-> y.headcount]
<1> DEFINE n == Len(gone)
           H == x.heap
           L == x.lists
           I == x.itemcount
           C == x.headcount
           h == Without(x.heap, Range(gone))
           e == Without(x.lists, {p})
           y1 == [x EXCEPT !.heap = h]
           y2 == [y1 EXCEPT !.itemcount = @ - n]
           y3 == [y2 EXCEPT !.lists = e]
<1>1. x = [heap |-> H, lists |-> L, itemcount |-> I, headcount |-> C]
  BY DEF StateSound
<1>2. y = [y3 EXCEPT !.headcount = @ - 1]
  BY DEF AP_list_free, Without
<1> HIDE DEF n, H, L, I, C, h, e
<1>3. y1 = [heap |-> h, lists |-> L, itemcount |-> I, headcount |-> C]
  BY <1>1
<1> HIDE DEF y1
<1>4. y2 = [heap |-> h, lists |-> L, itemcount |-> I - n, headcount |-> C]
  BY <1>3
<1> HIDE DEF y2
<1>5. y3 = [heap |-> h, lists |-> e, itemcount |-> I - n, headcount |-> C]
  BY <1>4
<1> HIDE DEF y3
<1>6. y = [heap |-> h, lists |-> e, itemcount |-> I - n, headcount |-> C - 1]
  BY <1>2, <1>5
<1>7. y.heap = h /\ y.lists = e /\ y.itemcount = I - n /\ y.headcount = C - 1
  BY <1>6
<1>8. y = [heap |-> y.heap, lists |-> y.lists,
           itemcount |-> y.itemcount, headcount |-> y.headcount]
  BY <1>6, <1>7
<1> QED
  BY <1>7, <1>8 DEF h, e, I, C, n

\* AP_list_duplicate
LEMMA DuplicateSteps ==
  ASSUME ListsInv, NEW p \in DOMAIN ls.lists, DuplicateList(p)
  PROVE  ListsInv' /\ DataSequences!Step
<1> DEFINE q == NewHandle(ls)
           m == AP_list_duplicate(View(ls, p))
           s == OrderOf(ls)[p]
           s2 == With(SeqsOf(ls), q, SeqsOf(ls)[p])
<1>1. StateSound(ls, cursor)
  BY DEF ListsInv
<1>2. /\ Cardinality(DOMAIN ls.lists) < MaxLists
      /\ ls' = Added(ls, q, m, Len(s))
      /\ ret' = <<>> /\ cursor' = cursor
  BY DEF DuplicateList, OrderOf, Added
<1>3. q \in 1 .. MaxLists /\ q \notin DOMAIN ls.lists
  BY <1>1, <1>2, HandleNew
<1> HIDE DEF q
<1>4. /\ Kept(ls, OrderOf(ls), SeqsOf(ls))
      /\ ls.itemcount = Cardinality(DOMAIN ls.heap) /\ IsFiniteSet(DOMAIN ls.heap)
      /\ ls.headcount = Cardinality(DOMAIN ls.lists) /\ IsFiniteSet(DOMAIN ls.lists)
      /\ DOMAIN SeqsOf(ls) = DOMAIN ls.lists
  BY <1>1, SoundFacts
<1>5. /\ ls'.heap = m.item /\ ls'.lists = With(ls.lists, q, Bare(m))
      /\ ls'.itemcount = ls.itemcount + Len(s) /\ ls'.headcount = ls.headcount + 1
      /\ ls' = [heap |-> ls'.heap, lists |-> ls'.lists,
                itemcount |-> ls'.itemcount, headcount |-> ls'.headcount]
  <2> HIDE DEF m, s
  <2> QED
    BY <1>1, <1>2, DuplicateFields
<1>6. PICK t \in Seq(Nat) :
        /\ Kept(ls', With(OrderOf(ls), q, t), s2)
        /\ DOMAIN ls'.heap = DOMAIN ls.heap \cup Range(t) /\ Range(t) \cap DOMAIN ls.heap = {}
        /\ IsFiniteSet(Range(t)) /\ Cardinality(Range(t)) = Len(s)
  BY <1>3, <1>4, <1>5, DuplicateKeeps, SMTT(30)
<1> HIDE DEF m
<1> DEFINE o2 == With(OrderOf(ls), q, t)
<1>7. DOMAIN ls'.lists = DOMAIN ls.lists \cup {q}
  BY <1>5 DEF With
<1>8. ls'.headcount = Cardinality(DOMAIN ls'.lists)
  <2>1. Cardinality(DOMAIN ls.lists \cup {q}) = Cardinality(DOMAIN ls.lists) + 1
    BY <1>3, <1>4, FS_AddElement
  <2> QED
    BY <2>1, <1>4, <1>5, <1>7
<1>9. ls'.itemcount = Cardinality(DOMAIN ls'.heap)
  <2>1. Cardinality(DOMAIN ls.heap \cup Range(t))
          = Cardinality(DOMAIN ls.heap) + Cardinality(Range(t))
              - Cardinality(DOMAIN ls.heap \cap Range(t))
    BY <1>4, <1>6, FS_Union
  <2>2. Cardinality(DOMAIN ls.heap \cap Range(t)) = 0
    <3>1. DOMAIN ls.heap \cap Range(t) = {}
      BY <1>6
    <3> QED
      BY <3>1, FS_EmptySet
  <2>3. Cardinality(DOMAIN ls.heap) \in Nat /\ Cardinality(Range(t)) \in Nat
    BY <1>4, <1>6, FS_CardinalityType
  <2> QED
    BY <2>1, <2>2, <2>3, <1>4, <1>5, <1>6
<1>10. cursor.temp # NoItem => o2[cursor.list] = OrderOf(ls)[cursor.list]
  BY <1>1, <1>3, CursorPlace DEF With, OrderOf
<1>11. StateSound(ls', cursor') /\ OrderOf(ls') = o2 /\ SeqsOf(ls') = s2
  <2>1. /\ cursor' \in [list : Nat, temp : Nat]
        /\ cursor'.list = 0 => cursor'.temp = NoItem
        /\ cursor'.list # 0 => cursor'.list \in DOMAIN ls'.lists
        /\ cursor'.temp # NoItem => cursor'.temp \in Range(o2[cursor'.list])
    BY <1>1, <1>2, <1>7, <1>10 DEF StateSound
  <2>2. Kept(ls', o2, s2)
    BY <1>6
  <2> HIDE DEF o2, s2
  <2> QED
    BY <2>1, <2>2, <1>5, <1>8, <1>9, StateMade
<1>12. At' = At
  <2>1. At' = AtOf(o2, cursor) /\ At = AtOf(OrderOf(ls), cursor)
    BY <1>1, <1>2, <1>11, AbsFacts, AtSound
  <2> QED
    BY <2>1, <1>10 DEF AtOf
<1>13. DataSequences!Duplicate(p, q)
  <2>1. q \notin DOMAIN Seqs /\ Seqs' = With(Seqs, q, Seqs[p])
    BY <1>3, <1>4, <1>11, AbsFacts
  <2> QED
    BY <2>1, <1>2, <1>12 DEF DataSequences!Duplicate, DataSequences!Set, With
<1> QED
  <2>1. p \in DOMAIN Seqs
    BY <1>4, AbsFacts
  <2> QED
    BY <2>1, <1>3, <1>11, <1>13 DEF DataSequences!Step, ListsInv

\* AP_list_free
LEMMA FreeSteps ==
  ASSUME ListsInv, NEW p \in DOMAIN ls.lists, FreeList(p)
  PROVE  ListsInv' /\ DataSequences!Step
<1> DEFINE s == OrderOf(ls)[p]
           D == DOMAIN ls.lists \ {p}
           o2 == Without(OrderOf(ls), {p})
           s2 == Without(SeqsOf(ls), {p})
<1>1. StateSound(ls, cursor)
  BY DEF ListsInv
<1>2. /\ Kept(ls, OrderOf(ls), SeqsOf(ls))
      /\ ls.itemcount = Cardinality(DOMAIN ls.heap) /\ IsFiniteSet(DOMAIN ls.heap)
      /\ ls.headcount = Cardinality(DOMAIN ls.lists) /\ IsFiniteSet(DOMAIN ls.lists)
      /\ DOMAIN SeqsOf(ls) = DOMAIN ls.lists
  BY <1>1, SoundFacts
<1>3. Visited(View(ls, p)) = s
  BY DEF OrderOf
<1>4. Freeable(View(ls, p))
  <2>1. Reads(View(ls, p), s, SeqsOf(ls)[p])
    BY <1>2, KeptFacts
  <2> QED
    BY <2>1, <1>3 DEF Freeable, Reads
<1>5. p # cursor.list /\ ls' = AP_list_free(ls, p) /\ ret' = <<>> /\ cursor' = cursor
  BY <1>4 DEF FreeList
<1>6. /\ ls'.heap = Without(ls.heap, Range(s)) /\ ls'.lists = Without(ls.lists, {p})
      /\ ls'.itemcount = ls.itemcount - Len(s) /\ ls'.headcount = ls.headcount - 1
      /\ ls' = [heap |-> ls'.heap, lists |-> ls'.lists,
                itemcount |-> ls'.itemcount, headcount |-> ls'.headcount]
  <2> HIDE DEF s
  <2> QED
    BY <1>1, <1>3, <1>5, FreeFields
<1>7. /\ Kept(ls', o2, s2)
      /\ Cardinality(DOMAIN ls'.heap) = Cardinality(DOMAIN ls.heap) - Len(s)
  BY <1>2, <1>6, FreeKeeps
<1>8. DOMAIN ls'.lists = D /\ ls'.headcount = Cardinality(DOMAIN ls'.lists)
  <2>1. DOMAIN ls'.lists = D
    BY <1>6 DEF Without
  <2>2. Cardinality(DOMAIN ls.lists \ {p}) = Cardinality(DOMAIN ls.lists) - 1
    BY <1>2, FS_RemoveElement
  <2> QED
    BY <2>1, <2>2, <1>2, <1>6
<1>9. ls'.itemcount = Cardinality(DOMAIN ls'.heap)
  BY <1>2, <1>6, <1>7
<1>10. cursor.temp # NoItem => cursor.list \in D /\ o2[cursor.list] = OrderOf(ls)[cursor.list]
  BY <1>1, <1>5, CursorPlace DEF Without, OrderOf
<1>11. StateSound(ls', cursor') /\ OrderOf(ls') = o2 /\ SeqsOf(ls') = s2
  <2>1. /\ cursor' \in [list : Nat, temp : Nat]
        /\ cursor'.list = 0 => cursor'.temp = NoItem
        /\ cursor'.list # 0 => cursor'.list \in DOMAIN ls'.lists
        /\ cursor'.temp # NoItem => cursor'.temp \in Range(o2[cursor'.list])
    BY <1>1, <1>5, <1>8, <1>10 DEF StateSound
  <2> HIDE DEF o2, s2
  <2> QED
    BY <2>1, <1>6, <1>7, <1>8, <1>9, StateMade
<1>12. At' = At
  <2>1. At' = AtOf(o2, cursor) /\ At = AtOf(OrderOf(ls), cursor)
    BY <1>1, <1>5, <1>11, AbsFacts, AtSound
  <2> QED
    BY <2>1, <1>10 DEF AtOf
<1>13. DataSequences!Free(p)
  <2>1. Seqs' = [q \in DOMAIN Seqs \ {p} |-> Seqs[q]]
    BY <1>2, <1>11, AbsFacts DEF Without
  <2> QED
    BY <2>1, <1>5, <1>12 DEF DataSequences!Free
<1> QED
  <2>1. p \in DOMAIN Seqs
    BY <1>2, AbsFacts
  <2> QED
    BY <2>1, <1>11, <1>13 DEF DataSequences!Step, ListsInv

\* The cursor of a sound state can be taken away, or to any item.
LEMMA CursorGone ==
  ASSUME NEW x, NEW c, StateSound(x, c)
  PROVE  /\ StateSound(x, NoCursor) /\ NoCursor.list = 0 /\ NoCursor.temp = NoItem
         /\ AtOf(OrderOf(x), NoCursor) = [list |-> 0, pos |-> 0]
<1>1. NoCursor \in [list : Nat, temp : Nat] /\ NoCursor.list = 0 /\ NoCursor.temp = NoItem
  BY DEF NoCursor, NoItem
<1>2. StateSound(x, NoCursor)
  BY <1>1 DEF StateSound
<1> QED
  BY <1>1, <1>2 DEF AtOf

\* A cursor may be put at any item of any list.
LEMMA CursorTo ==
  ASSUME NEW x, NEW c, StateSound(x, c), NEW p \in DOMAIN x.lists,
         NEW k \in 1 .. Len(OrderOf(x)[p]), NEW a, a = OrderOf(x)[p][k]
  PROVE  /\ StateSound(x, [list |-> p, temp |-> a])
         /\ AtOf(OrderOf(x), [list |-> p, temp |-> a]) = [list |-> p, pos |-> k]
<1> DEFINE s == OrderOf(x)[p]
           e == [list |-> p, temp |-> a]
<1>1. /\ Reads(View(x, p), s, SeqsOf(x)[p]) /\ s \in Seq(Nat) /\ p \in 1 .. MaxLists
  BY SoundFacts, KeptFacts
<1>2. a \in Nat /\ a # NoItem /\ a \in Range(s) /\ p # 0
  BY <1>1, SeqFacts DEF Reads
<1>3. e.list = p /\ e.temp = a /\ e \in [list : Nat, temp : Nat]
  BY <1>1, <1>2
<1> HIDE DEF e
<1>4. StateSound(x, e)
  BY <1>2, <1>3 DEF StateSound
<1>5. AtOf(OrderOf(x), e) = [list |-> p, pos |-> k]
  BY <1>2, <1>3, <1>4, AtPlace
<1> QED
  BY <1>4, <1>5 DEF e

\* AP_list_next from the NULL cursor: the head of a list
LEMMA BeginSteps ==
  ASSUME ListsInv, NEW p \in DOMAIN ls.lists, BeginTraversal(p)
  PROVE  ListsInv' /\ DataSequences!Step
<1>1. StateSound(ls, cursor)
  BY DEF ListsInv
<1>2. /\ cursor.list = 0 /\ cursor' = [list |-> p, temp |-> NoItem]
      /\ ret' = <<>> /\ ls' = ls
  BY DEF BeginTraversal
<1>3. p \in 1 .. MaxLists /\ DOMAIN SeqsOf(ls) = DOMAIN ls.lists
  BY <1>1, SoundFacts
<1>4. StateSound(ls', cursor')
  <2>1. cursor' \in [list : Nat, temp : Nat] /\ cursor'.list = p /\ cursor'.temp = NoItem
    BY <1>2, <1>3 DEF NoItem
  <2> QED
    BY <2>1, <1>1, <1>2, <1>3 DEF StateSound
<1>5. /\ At' = AtOf(OrderOf(ls), cursor') /\ At = AtOf(OrderOf(ls), cursor)
      /\ Seqs' = Seqs /\ DOMAIN Seqs = DOMAIN ls.lists
  BY <1>1, <1>2, <1>3, <1>4, AbsFacts, AtSound
<1>6. At.list = 0 /\ At' = [list |-> p, pos |-> 0]
  BY <1>2, <1>5 DEF AtOf
<1>7. DataSequences!Begin(p)
  BY <1>2, <1>5, <1>6 DEF DataSequences!Begin
<1> QED
  BY <1>4, <1>5, <1>7 DEF DataSequences!Step, ListsInv

\* The item after the k-th, or the first for k = 0, as next and head give it
LEMMA NextReads ==
  ASSUME NEW l, NEW s, NEW v, Reads(l, s, v), NEW k \in 0 .. Len(s), NEW a,
         a = IF k = 0 THEN l.head ELSE l.item[s[k]].next
  PROVE  /\ k = Len(s) => a = NoItem
         /\ k # Len(s) => /\ k + 1 \in 1 .. Len(s) /\ a = s[k + 1] /\ a # NoItem
                          /\ l.item[a].data = v[k + 1]
<1>1. s \in Seq(Nat) /\ Len(s) \in Nat
  BY DEF Reads
<1>2. k # Len(s) => k + 1 \in 1 .. Len(s)
  BY <1>1
<1>3. a = IF k = Len(s) THEN NoItem ELSE s[k + 1]
  <2>1. CASE k = 0
    <3>1. l.head = IF Len(s) = 0 THEN NoItem ELSE s[1]
      BY DEF Reads
    <3> QED
      BY <2>1, <3>1
  <2>2. CASE k # 0
    <3>1. k \in 1 .. Len(s)
      BY <2>2, <1>1
    <3> QED
      BY <2>2, <3>1 DEF Reads
  <2> QED
    BY <2>1, <2>2
<1> QED
  BY <1>2, <1>3 DEF Reads

\* Where a traversal goes on: the abstract step for the data w
LEMMA ReachesStands ==
  ASSUME StateSound(ls', NoCursor), NEW p \in DOMAIN ls'.lists, NEW k \in Nat, k # 0,
         NEW l, NEW a, Reaches(l, a), cursor.list = p, cursor \in [list : Nat, temp : Nat],
         NEW w, w = SeqsOf(ls')[p],
         k > Len(w) => a = NoItem,
         k <= Len(w) => a # NoItem /\ OrderOf(ls')[p][k] = a /\ l.item[a].data = w[k]
  PROVE  StateSound(ls', cursor') /\ DataSequences!Stands(p, w, k)
<1> DEFINE t == OrderOf(ls')[p]
<1>1. Len(w) = Len(t) /\ Len(t) \in Nat
  BY SoundFacts, KeptFacts
<1>2. CASE k > Len(w)
  <2>1. cursor' = NoCursor /\ ret' = <<0>>
    BY <1>2 DEF Reaches
  <2>2. StateSound(ls', cursor') /\ AtOf(OrderOf(ls'), cursor') = [list |-> 0, pos |-> 0]
    BY <2>1, CursorGone
  <2>3. At' = [list |-> 0, pos |-> 0]
    BY <2>2, AbsFacts, AtSound
  <2>4. ~(k <= Len(w))
    BY <1>1, <1>2
  <2> QED
    BY <2>1, <2>2, <2>3, <2>4 DEF DataSequences!Stands
<1>3. CASE k <= Len(w)
  <2>1. /\ cursor' = [cursor EXCEPT !.temp = a] /\ ret' = <<1, w[k]>>
        /\ k \in 1 .. Len(t) /\ a = t[k]
    BY <1>1, <1>3 DEF Reaches
  <2>2. cursor' = [list |-> p, temp |-> a]
    BY <2>1
  <2>3. StateSound(ls', cursor') /\ AtOf(OrderOf(ls'), cursor') = [list |-> p, pos |-> k]
    <3>1. /\ StateSound(ls', [list |-> p, temp |-> a])
          /\ AtOf(OrderOf(ls'), [list |-> p, temp |-> a]) = [list |-> p, pos |-> k]
      BY <2>1, CursorTo
    <3> QED
      BY <2>2, <3>1, Zenon
  <2>4. At' = [list |-> p, pos |-> k]
    BY <2>3, AbsFacts, AtSound
  <2> QED
    BY <2>1, <2>3, <2>4, <1>3 DEF DataSequences!Stands
<1> QED
  BY <1>1, <1>2, <1>3

\* AP_list_next from an item: the one behind it, or the end
LEMMA NextSteps ==
  ASSUME ListsInv, ListNextItem
  PROVE  ListsInv' /\ DataSequences!NextDatum
<1> DEFINE p == cursor.list
           l == View(ls, p)
           s == OrderOf(ls)[p]
           v == SeqsOf(ls)[p]
           a == AP_list_next(l, cursor.temp)
<1>1. StateSound(ls, cursor)
  BY DEF ListsInv
<1>2. p # 0 /\ Reaches(l, a) /\ ls' = ls
  BY DEF ListNextItem
<1>3. p \in DOMAIN ls.lists /\ cursor \in [list : Nat, temp : Nat]
  BY <1>1, <1>2 DEF StateSound
<1>4. Reads(l, s, v) /\ Len(v) = Len(s) /\ Len(s) \in Nat
  BY <1>1, <1>3, SoundFacts, KeptFacts
<1>5. PICK k \in 0 .. Len(s) : /\ k = 0 => cursor.temp = NoItem
                               /\ k # 0 => cursor.temp # NoItem /\ s[k] = cursor.temp
                               /\ At = [list |-> p, pos |-> k]
  <2>1. At = AtOf(OrderOf(ls), cursor)
    BY <1>1, AbsFacts, AtSound
  <2>2. CASE cursor.temp = NoItem
    <3>1. At = [list |-> p, pos |-> 0]
      BY <2>1, <2>2 DEF AtOf
    <3>2. 0 \in 0 .. Len(s)
      BY <1>4
    <3> QED
      BY <2>2, <3>1, <3>2
  <2>3. CASE cursor.temp # NoItem
    <3>1. PICK k \in 1 .. Len(s) : s[k] = cursor.temp
      BY <1>1, <2>3, CursorPlace
    <3>2. At = [list |-> p, pos |-> k]
      BY <2>1, <2>3, <3>1, <1>1, AtPlace
    <3>3. k \in 0 .. Len(s) /\ k # 0
      BY <1>4
    <3> QED
      BY <2>3, <3>1, <3>2, <3>3
  <2> QED
    BY <2>2, <2>3
<1>6. a = IF k = 0 THEN l.head ELSE l.item[s[k]].next
  BY <1>5 DEF AP_list_next
<1> HIDE DEF l, s, v, a
<1>7. /\ k = Len(s) => a = NoItem
      /\ k # Len(s) => /\ k + 1 \in 1 .. Len(s) /\ a = s[k + 1] /\ a # NoItem
                       /\ l.item[a].data = v[k + 1]
  BY <1>4, <1>6, NextReads
<1>8. StateSound(ls', NoCursor) /\ p \in DOMAIN ls'.lists
      /\ v = SeqsOf(ls')[p] /\ s = OrderOf(ls')[p]
  BY <1>1, <1>2, <1>3, CursorGone DEF v, s
<1>9. /\ k + 1 \in Nat /\ k + 1 # 0
      /\ k + 1 > Len(v) => a = NoItem
      /\ k + 1 <= Len(v) => a # NoItem /\ s[k + 1] = a /\ l.item[a].data = v[k + 1]
  BY <1>4, <1>7
<1>10. StateSound(ls', cursor') /\ DataSequences!Stands(p, v, k + 1)
  BY <1>2, <1>3, <1>8, <1>9, ReachesStands
<1>11. At.list = p /\ At.pos = k /\ Seqs[p] = v /\ Seqs' = Seqs
  BY <1>2, <1>5, AbsFacts DEF v
<1>12. DataSequences!NextDatum
  BY <1>2, <1>10, <1>11 DEF DataSequences!NextDatum
<1> QED
  BY <1>10, <1>12 DEF ListsInv

\* AP_list_delete_item of the item the cursor is at
LEMMA DeleteHereSteps ==
  ASSUME ListsInv, DeleteWhereItStands
  PROVE  ListsInv' /\ DataSequences!DeleteHere
<1> DEFINE p == cursor.list
           l == View(ls, p)
           s == OrderOf(ls)[p]
           v == SeqsOf(ls)[p]
           a == l.item[cursor.temp].next
<1>1. StateSound(ls, cursor)
  BY DEF ListsInv
<1>2. /\ cursor.temp # NoItem /\ Reaches(l, a)
      /\ ls' = [Store(ls, p, AP_list_delete_item(l, cursor.temp)) EXCEPT !.itemcount = @ - 1]
  BY DEF DeleteWhereItStands
<1>3. p # 0 /\ p \in DOMAIN ls.lists /\ cursor \in [list : Nat, temp : Nat]
      /\ \E k \in 1 .. Len(s) : s[k] = cursor.temp
  BY <1>1, <1>2, CursorPlace DEF StateSound
<1>4. PICK k \in 1 .. Len(s) : s[k] = cursor.temp
  BY <1>3
<1>5. /\ Kept(ls, OrderOf(ls), SeqsOf(ls))
      /\ ls.itemcount = Cardinality(DOMAIN ls.heap) /\ IsFiniteSet(DOMAIN ls.heap)
      /\ DOMAIN SeqsOf(ls) = DOMAIN ls.lists
  BY <1>1, SoundFacts
<1>6. /\ Reads(l, s, v) /\ s \in Seq(Nat) /\ v \in Seq(ListData)
      /\ Len(v) = Len(s) /\ Len(s) \in Nat
  BY <1>3, <1>5, KeptFacts
<1> DEFINE m == AP_list_delete_item(l, s[k])
           t == RemoveAt(s, k)
           w == RemoveAt(v, k)
<1>7. ls' = [Store(ls, p, m) EXCEPT !.itemcount = @ - 1]
  BY <1>2, <1>4
<1>8. Store(ls, p, m).itemcount = ls.itemcount
  BY <1>1, StoreShape DEF StateSound
<1>9. /\ ls'.heap = m.item /\ ls'.lists = With(ls.lists, p, Bare(m))
      /\ ls'.itemcount = ls.itemcount - 1 /\ ls'.headcount = ls.headcount
      /\ ls' = [heap |-> ls'.heap, lists |-> ls'.lists,
                itemcount |-> ls'.itemcount, headcount |-> ls'.headcount]
  <2> HIDE DEF m, p
  <2>1. ls' = Stored(ls, p, m, ls.itemcount - 1)
    BY <1>7, <1>8 DEF Stored
  <2> QED
    BY <2>1, <1>1, StoredFields
<1>10. /\ Kept(ls', With(OrderOf(ls), p, t), With(SeqsOf(ls), p, w))
       /\ DOMAIN ls'.heap = DOMAIN ls.heap \ {s[k]} /\ s[k] \in DOMAIN ls.heap
  BY <1>3, <1>5, <1>9, DeleteKeeps
<1>11. ls'.itemcount = Cardinality(DOMAIN ls'.heap)
  BY <1>5, <1>9, <1>10, FS_RemoveElement
<1> HIDE DEF m
<1>12. /\ Len(t) = Len(s) - 1 /\ Len(w) = Len(s) - 1
       /\ \A i \in 1 .. Len(s) - 1 : t[i] = IF i < k THEN s[i] ELSE s[i + 1]
       /\ \A i \in 1 .. Len(s) - 1 : w[i] = IF i < k THEN v[i] ELSE v[i + 1]
  <2>1. k \in 1 .. Len(v)
    BY <1>6
  <2> QED
    BY <1>6, <2>1, RemoveFacts
<1>13. /\ k = Len(s) => a = NoItem
       /\ k # Len(s) => /\ k + 1 \in 1 .. Len(s) /\ a = s[k + 1] /\ a # NoItem
                        /\ l.item[a].data = v[k + 1]
  <2>1. k \in 0 .. Len(s) /\ a = IF k = 0 THEN l.head ELSE l.item[s[k]].next
    BY <1>4, <1>6
  <2> HIDE DEF l, s, v, a
  <2> QED
    BY <1>6, <2>1, NextReads, SMTT(30)
<1>14. At = [list |-> p, pos |-> k]
  <2>1. At = AtOf(OrderOf(ls), cursor)
    BY <1>1, AbsFacts, AtSound
  <2> QED
    BY <2>1, <1>1, <1>2, <1>4, AtPlace
<1> HIDE DEF l, s, v, a, t, w, p
<1>15. /\ StateSound(ls', NoCursor)
       /\ OrderOf(ls') = With(OrderOf(ls), p, t) /\ SeqsOf(ls') = With(SeqsOf(ls), p, w)
       /\ OrderOf(ls')[p] = t
  <2>1. StateSound(ls, NoCursor) /\ NoCursor.temp = NoItem
    BY <1>1, CursorGone
  <2>2. p \in DOMAIN ls.lists
    BY <1>3
  <2>3. /\ ls' = [heap |-> ls'.heap, lists |-> ls'.lists,
                  itemcount |-> ls'.itemcount, headcount |-> ls'.headcount]
        /\ ls'.lists = With(ls.lists, p, Bare(m)) /\ ls'.headcount = ls.headcount
    BY <1>9
  <2>4. Kept(ls', With(OrderOf(ls), p, t), With(SeqsOf(ls), p, w))
    BY <1>10
  <2>5. \A c : StateSound(ls, c) /\ c.temp = NoItem =>
               /\ StateSound(ls', c)
               /\ OrderOf(ls') = With(OrderOf(ls), p, t) /\ SeqsOf(ls') = With(SeqsOf(ls), p, w)
               /\ OrderOf(ls')[p] = t
    BY <2>2, <2>3, <2>4, <1>11, ChangeMade, SMTT(60)
  <2> QED
    BY <2>1, <2>5
<1>16. p \in DOMAIN ls'.lists /\ SeqsOf(ls')[p] = w
  <2>1. p \in DOMAIN With(ls.lists, p, Bare(m))
    BY DEF With
  <2>2. With(SeqsOf(ls), p, w)[p] = w
    BY DEF With
  <2> QED
    BY <2>1, <2>2, <1>9, <1>15
<1>17. /\ k \in Nat /\ k # 0
       /\ k > Len(w) => a = NoItem
       /\ k <= Len(w) => a # NoItem /\ t[k] = a /\ l.item[a].data = w[k]
  <2>1. k > Len(w) => k = Len(s)
    BY <1>4, <1>6, <1>12
  <2>2. k <= Len(w) => k # Len(s) /\ k \in 1 .. Len(s) - 1 /\ ~(k < k)
    BY <1>4, <1>6, <1>12
  <2> QED
    BY <2>1, <2>2, <1>6, <1>12, <1>13
<1>18. StateSound(ls', cursor') /\ DataSequences!Stands(p, w, k)
  <2>1. cursor.list = p
    BY DEF p
  <2> QED
    BY <2>1, <1>2, <1>3, <1>15, <1>16, <1>17, ReachesStands
<1>19. At.list = p /\ At.pos = k /\ Seqs' = With(Seqs, p, DataSequences!RemoveAt(Seqs[p], k))
       /\ DataSequences!RemoveAt(Seqs[p], k) = w
  <2>1. DataSequences!RemoveAt(Seqs[p], k) = w
    BY AbsFacts, AbsOperators DEF w, v
  <2> QED
    BY <2>1, <1>14, <1>15, AbsFacts
<1>20. DataSequences!DeleteHere
  <2>1. DataSequences!Set(p, DataSequences!RemoveAt(Seqs[p], k))
    BY <1>19 DEF DataSequences!Set, With
  <2>2. k # 0
    BY <1>17
  <2> QED
    BY <2>1, <2>2, <1>3, <1>18, <1>19 DEF DataSequences!DeleteHere
<1> QED
  BY <1>18, <1>20 DEF ListsInv

-----------------------------------------------------------------------------
(* The theorems                                                            *)

\* Every call keeps the invariant and is a step of the sequences.
LEMMA ListSteps ==
  ASSUME ListsInv, ListNext
  PROVE  ListsInv' /\ DataSequences!Step
<1>1. CASE NewList
  BY <1>1, NewSteps
<1>2. CASE ListNextItem
  BY <1>2, NextSteps DEF DataSequences!Step
<1>3. CASE DeleteWhereItStands
  BY <1>3, DeleteHereSteps DEF DataSequences!Step
<1>4. ASSUME NEW p \in DOMAIN ls.lists,
             \/ DuplicateList(p) \/ FreeList(p) \/ BeginTraversal(p)
             \/ \E d \in ListData : PrependItem(p, d) \/ AppendItem(p, d) \/ DeleteData(p, d)
      PROVE  ListsInv' /\ DataSequences!Step
  <2>1. CASE DuplicateList(p)
    BY <2>1, DuplicateSteps
  <2>2. CASE FreeList(p)
    BY <2>2, FreeSteps
  <2>3. CASE BeginTraversal(p)
    BY <2>3, BeginSteps
  <2>4. ASSUME NEW d \in ListData, PrependItem(p, d) \/ AppendItem(p, d) \/ DeleteData(p, d)
        PROVE  ListsInv' /\ DataSequences!Step
    <3>1. CASE PrependItem(p, d)
      BY <3>1, PrependSteps
    <3>2. CASE AppendItem(p, d)
      BY <3>2, AppendSteps
    <3>3. CASE DeleteData(p, d)
      <4>1. p \in DOMAIN Seqs
        BY DEF Seqs
      <4> QED
        BY <3>3, <4>1, DeleteSteps DEF DataSequences!Step
    <3> QED
      BY <2>4, <3>1, <3>2, <3>3
  <2> QED
    BY <1>4, <2>1, <2>2, <2>3, <2>4
<1> QED
  BY <1>1, <1>2, <1>3, <1>4 DEF ListNext

\* The lists are sound in every reachable state.
LEMMA ListsInvariant == ListSpec => []ListsInv
<1>1. ListsInv /\ [ListNext]_listVars => ListsInv'
  <2> SUFFICES ASSUME ListsInv, [ListNext]_listVars PROVE ListsInv'
    OBVIOUS
  <2>1. CASE ListNext
    BY <2>1, ListSteps
  <2>2. CASE UNCHANGED listVars
    BY <2>2 DEF listVars, ListsInv
  <2> QED
    BY <2>1, <2>2
<1> QED
  BY <1>1, ListInitSound, PTL DEF ListSpec

\* NothingLost: in every reachable state the links of every list, followed from its head
\* and backwards from its tail, give all its data in order, and its count, its ends, its
\* searches and AP_list_apply agree with them (list.c).
THEOREM NothingIsLost == ListSpec => []NothingLost
BY ListsInvariant, SoundAnswers, PTL

\* SequencesSpec: whatever the calls of list.c do to the links, the lists behave as one
\* sequence of data each, and the cursor as a place in one of them (DataLists).
THEOREM ListsAreSequences == ListSpec => SequencesSpec
<1>1. ListInit => DataSequences!Init
  <2> SUFFICES ASSUME ListInit PROVE DataSequences!Init
    OBVIOUS
  <2>1. StateSound(ls, cursor)
    BY ListInitSound DEF ListsInv
  <2>2. /\ ls = [heap |-> <<>>, lists |-> <<>>, itemcount |-> 0, headcount |-> 0]
        /\ cursor = NoCursor /\ ret = <<>>
    BY DEF ListInit
  <2>3. Seqs = <<>>
    <3>1. DOMAIN ls.lists = {}
      BY <2>2, DOMAIN <<>> = {}
    <3> QED
      BY <3>1 DEF Seqs
  <2>4. At = [list |-> 0, pos |-> 0]
    BY <2>1, <2>2, AbsFacts, AtSound, CursorGone
  <2> QED
    BY <2>2, <2>3, <2>4 DEF DataSequences!Init
<1>2. ListsInv /\ [ListNext]_listVars => [DataSequences!Next]_(DataSequences!vars)
  <2> SUFFICES ASSUME ListsInv, [ListNext]_listVars,
                      DataSequences!vars' # DataSequences!vars
               PROVE  DataSequences!Next
    OBVIOUS
  <2>1. CASE ListNext
    BY <2>1, ListSteps DEF DataSequences!Next
  <2>2. CASE UNCHANGED listVars
    <3>1. Seqs' = Seqs /\ At' = At /\ ret' = ret
      BY <2>2, AbsFacts DEF listVars
    <3> QED
      BY <3>1 DEF DataSequences!vars
  <2> QED
    BY <2>1, <2>2
<1> QED
  BY <1>1, <1>2, ListsInvariant, PTL DEF ListSpec, SequencesSpec, DataSequences!Spec

-----------------------------------------------------------------------------
(* Collective calls *)

\* One rank, with its one send buffer
LEMMA OneRank ==
  /\ AsDefined!Ranks = {0}
  /\ \A x : Alone(x)[0] = x
<1>1. 0 .. 1 - 1 = {0}
  OBVIOUS
<1> QED
  BY <1>1 DEF AsDefined!Ranks, MPI_Comm_size, Alone, MPI_Comm_rank

\* A combination over one rank is the element of that rank.
LEMMA OneCombined ==
  ASSUME NEW c, NEW b, AsDefined!Combined(c, 0) = {0}
  PROVE  AsDefined!Combination(c, 0, b) = mem.send[b]
<1> DEFINE S == AsDefined!Combined(c, 0)
           body(u) == [s \in S |-> IF s = 0 THEN Alone(mem.send)[0][b]
                                   ELSE Combine(u[s - 1], Alone(mem.send)[s][b])]
           f == CHOOSE u : u = body(u)
<1>1. \E u : u = body(u)
  <2> DEFINE u == [s \in {0} |-> mem.send[b]]
  <2>1. u = body(u)
    BY OneRank
  <2> QED
    BY <2>1
<1>2. f = body(f)
  BY <1>1
<1>3. f[0] = mem.send[b]
  <2>1. 0 \in S
    OBVIOUS
  <2> HIDE DEF f
  <2>2. f[0] = Alone(mem.send)[0][b]
    BY <1>2, <2>1
  <2> QED
    BY <2>2, OneRank
<1>4. (CHOOSE s \in S : \A t \in S : t <= s) = 0
  BY OneRank
<1> QED
  BY <1>3, <1>4 DEF AsDefined!Combination

\* A call that copies between the two buffers, of a program compiled by c
Copies(a) == a.name \notin {"Barrier", "Bcast"} /\ a.root = 0

\* What it copies: so many words, to there and from there
Long(a, c) == a.sendcount * c[a.sendtype]
To(a, c)   == IF a.name \in RecvDispl THEN a.rdispl * c[a.recvtype] ELSE 0
From(a, c) == IF a.name \in SendDispl THEN a.sdispl * c[a.sendtype] ELSE 0

\* Position b of the receive buffer after the call
Result(a, c, b) == IF Copies(a) /\ b - To(a, c) \in 0 .. Long(a, c) - 1
                   THEN mem.send[From(a, c) + b - To(a, c)] ELSE mem.recv[b]

\* The arguments agree with each other and stay in the buffers.
Fits(a, c) ==
  /\ a.name \in Names /\ a.root \in {0, 1, MPI_ROOT}
  /\ a.sendtype \in Types /\ a.recvtype \in Types
  /\ a.sendcount \in Nat /\ a.recvcount \in Nat /\ a.sdispl \in Nat /\ a.rdispl \in Nat
  /\ Long(a, c) = a.recvcount * c[a.recvtype] /\ Long(a, c) \in Nat
  /\ To(a, c) \in Nat /\ From(a, c) \in Nat
  /\ a.root = 0 \/ a.name \in WithRoot

\* A call of one block
LEMMA OneMove ==
  ASSUME NEW c, NEW at, NEW to, NEW into, NEW len, NEW b,
         AsDefined!Moves(c) = {AsDefined!Move(0, at, to, into, len)},
         AsDefined!Combined(c, 0) = {}
  PROVE  AsDefined!Received(c, 0, b) =
           IF to = 0 /\ b - into \in 0 .. len - 1 THEN mem.send[at + b - into] ELSE mem.recv[b]
<1> DEFINE x == AsDefined!Move(0, at, to, into, len)
           here == {m \in AsDefined!Moves(c) : m.to = 0 /\ b - m.into \in 0 .. m.len - 1}
<1>1. x.from = 0 /\ x.at = at /\ x.to = to /\ x.into = into /\ x.len = len
  BY DEF AsDefined!Move
<1>2. Alone(mem.send)[0] = mem.send /\ Alone(mem.recv)[0] = mem.recv
  BY OneRank
<1>3. CASE to = 0 /\ b - into \in 0 .. len - 1
  <2>1. here = {x}
    BY <1>1, <1>3
  <2>2. (CHOOSE m \in here : TRUE) = x
    BY <2>1
  <2> QED
    BY <1>1, <1>2, <1>3, <2>1, <2>2 DEF AsDefined!Received
<1>4. CASE ~(to = 0 /\ b - into \in 0 .. len - 1)
  <2>1. here = {}
    BY <1>1, <1>4
  <2> QED
    BY <1>2, <1>4, <2>1 DEF AsDefined!Received
<1> QED
  BY <1>3, <1>4

\* A call that combines the elements of all ranks, or one that gives a rank nothing
LEMMA NoMove ==
  ASSUME NEW c, NEW b, AsDefined!Moves(c) = {}
  PROVE  /\ AsDefined!Combined(c, 0) = {} => AsDefined!Received(c, 0, b) = mem.recv[b]
         /\ AsDefined!Combined(c, 0) = {0} =>
              AsDefined!Received(c, 0, b) = IF b < AsDefined!SendLen(c, 0) THEN mem.send[b]
                                            ELSE mem.recv[b]
<1>1. {m \in AsDefined!Moves(c) : m.to = 0 /\ b - m.into \in 0 .. m.len - 1} = {}
  OBVIOUS
<1>2. Alone(mem.recv)[0] = mem.recv
  BY OneRank
<1> QED
  BY <1>1, <1>2, OneCombined DEF AsDefined!Received

\* What MPI says of the call, read for one rank
LEMMA ReceivedIs ==
  ASSUME NEW a, Fits(a, prog.compiler), NEW b \in Nat
  PROVE  AsDefined!Received(ByRank(a), 0, b) = Result(a, prog.compiler, b)
<1> DEFINE c == ByRank(a)
           p == prog.compiler
<1> SUFFICES AsDefined!Received(c, 0, b) = Result(a, p, b)
  OBVIOUS
<1>1. /\ c.name = a.name /\ c.root = a.root
      /\ c.scount[0] = a.sendcount /\ c.sdispl[0] = a.sdispl /\ c.ssize = p[a.sendtype]
      /\ c.rcount[0] = a.recvcount /\ c.rdispl[0] = a.rdispl /\ c.rsize = p[a.recvtype]
  <2>1. a # NoCall
    BY DEF Fits, NoCall, Names, WithRoot
  <2> QED
    BY <2>1, OneRank DEF ByRank
<1> HIDE DEF c
<1>2. PICK n : n = Long(a, p)
  OBVIOUS
<1>3. n \in Nat /\ AsDefined!RecvLen(c, 0) = n /\ AsDefined!SendLen(c, 0) = n
  BY <1>1, <1>2 DEF Fits, Long, AsDefined!RecvLen, AsDefined!SendLen
<1>4. /\ AsDefined!Varying(a.name) => /\ AsDefined!Into(c, 0) = a.rdispl * p[a.recvtype]
                                      /\ AsDefined!From(c, 0) = a.sdispl * p[a.sendtype]
      /\ ~AsDefined!Varying(a.name) => AsDefined!Into(c, 0) = 0 /\ AsDefined!From(c, 0) = 0
  BY <1>1, <1>3 DEF AsDefined!Into, AsDefined!From
<1>5. AsDefined!Ranks = {0}
  BY OneRank
<1>6. \A at, to, into :
          AsDefined!Moves(c) = {AsDefined!Move(0, at, to, into, n)} /\ AsDefined!Combined(c, 0) = {} =>
            AsDefined!Received(c, 0, b) =
              IF to = 0 /\ b - into \in 0 .. n - 1 THEN mem.send[at + b - into] ELSE mem.recv[b]
  BY OneMove
<1>7. PICK i, j : i = To(a, p) /\ j = From(a, p)
  OBVIOUS
<1>8. Result(a, p, b) = IF Copies(a) /\ b - i \in 0 .. n - 1 THEN mem.send[j + b - i] ELSE mem.recv[b]
  BY <1>2, <1>7 DEF Result
<1>9. a.name \notin {"Barrier", "Bcast"} => (Copies(a) <=> a.root = 0)
  BY DEF Copies
<1>10. CASE a.name \in {"Gather", "Gatherv"}
  <2>1. AsDefined!Moves(c) = {AsDefined!Move(0, 0, a.root, AsDefined!Into(c, 0), n)}
    BY <1>1, <1>3, <1>5, <1>10 DEF AsDefined!Moves
  <2>2. AsDefined!Combined(c, 0) = {}
    BY <1>1, <1>10 DEF AsDefined!Combined
  <2>3. AsDefined!Into(c, 0) = To(a, p) /\ From(a, p) = 0
    BY <1>4, <1>10 DEF To, From, RecvDispl, SendDispl, AsDefined!Varying
  <2> QED
    BY <2>1, <2>2, <2>3, <1>10, <1>6, <1>7, <1>8, <1>9
<1>11. CASE a.name \in {"Scatter", "Scatterv"}
  <2>1. AsDefined!Combined(c, 0) = {}
    BY <1>1, <1>11 DEF AsDefined!Combined
  <2>2. AsDefined!From(c, 0) = From(a, p) /\ To(a, p) = 0
    BY <1>4, <1>11 DEF To, From, RecvDispl, SendDispl, AsDefined!Varying
  <2>3. CASE a.root = 0
    <3>1. AsDefined!Moves(c) = {AsDefined!Move(0, AsDefined!From(c, 0), 0, 0, n)}
      BY <1>1, <1>3, <1>5, <1>11, <2>3 DEF AsDefined!Moves
    <3> QED
      BY <3>1, <2>1, <2>2, <2>3, <1>11, <1>6, <1>7, <1>8, <1>9
  <2>4. CASE a.root # 0
    <3>1. AsDefined!Moves(c) = {}
      BY <1>1, <1>3, <1>5, <1>11, <2>4 DEF AsDefined!Moves
    <3> QED
      BY <3>1, <2>1, <2>4, NoMove DEF Result, Copies
  <2> QED
    BY <2>3, <2>4
<1>12. CASE a.name \in {"Allgather", "Allgatherv"}
  <2>1. AsDefined!Moves(c) = {AsDefined!Move(0, 0, 0, AsDefined!Into(c, 0), n)}
    BY <1>1, <1>3, <1>5, <1>12 DEF AsDefined!Moves
  <2>2. AsDefined!Combined(c, 0) = {} /\ a.root = 0
    BY <1>1, <1>12 DEF AsDefined!Combined, Fits, WithRoot
  <2>3. AsDefined!Into(c, 0) = To(a, p) /\ From(a, p) = 0
    BY <1>4, <1>12 DEF To, From, RecvDispl, SendDispl, AsDefined!Varying
  <2> QED
    BY <2>1, <2>2, <2>3, <1>12, <1>6, <1>7, <1>8, <1>9
<1>13. CASE a.name \in {"Alltoall", "Alltoallv"}
  <2>1. AsDefined!Moves(c) =
          {AsDefined!Move(0, AsDefined!From(c, 0), 0, AsDefined!Into(c, 0), n)}
    BY <1>1, <1>3, <1>5, <1>13 DEF AsDefined!Moves
  <2>2. AsDefined!Combined(c, 0) = {} /\ a.root = 0
    BY <1>1, <1>13 DEF AsDefined!Combined, Fits, WithRoot
  <2>3. AsDefined!Into(c, 0) = To(a, p) /\ AsDefined!From(c, 0) = From(a, p)
    BY <1>4, <1>13 DEF To, From, RecvDispl, SendDispl, AsDefined!Varying
  <2> QED
    BY <2>1, <2>2, <2>3, <1>13, <1>6, <1>7, <1>8, <1>9
<1>14. CASE a.name \in {"Reduce", "Allreduce", "Scan"}
  <2>1. AsDefined!Moves(c) = {}
    BY <1>1, <1>14 DEF AsDefined!Moves
  <2>2. AsDefined!Combined(c, 0) = IF a.root = 0 THEN {0} ELSE {}
    <3>1. 0 .. 0 = {0}
      OBVIOUS
    <3>2. a.name # "Reduce" => a.root = 0
      BY <1>14 DEF Fits, WithRoot
    <3> QED
      BY <3>1, <3>2, <1>1, <1>5, <1>14 DEF AsDefined!Combined
  <2>3. To(a, p) = 0 /\ From(a, p) = 0
    BY <1>14 DEF To, From, RecvDispl, SendDispl
  <2>4. /\ b - 0 \in 0 .. n - 1 <=> b < n
        /\ 0 + b - 0 = b
    BY <1>3
  <2>5. Copies(a) <=> a.root = 0
    BY <1>14 DEF Copies
  <2> QED
    BY <2>1, <2>2, <2>3, <2>4, <2>5, <1>2, <1>3, NoMove DEF Result
<1>15. CASE a.name \in {"Barrier", "Bcast"}
  <2>1. AsDefined!Moves(c) = {} /\ AsDefined!Combined(c, 0) = {}
    BY <1>1, <1>15 DEF AsDefined!Moves, AsDefined!Combined
  <2> QED
    BY <2>1, <1>15, NoMove DEF Result, Copies
<1> QED
  BY <1>10, <1>11, <1>12, <1>13, <1>14, <1>15 DEF Fits, Names, WithRoot

\* mpi_init_fort lets a program through whose types are as long as its compiler
\* makes them, also MPI_2REAL, which it does not look at.
LEMMA SizesAgree ==
  ASSUME NEW f \in FORT_SIZE, NEW c \in Compilers, VerifyConsistent(f, c)
  PROVE  \A type \in Types : f[type] = c[type]
<1>1. f["REAL2"] = 2 * f["REAL"]
  BY DEF FORT_SIZE, real4double8, real8double8, real8double16, Mpif, MpifConstants, MpifStatus
<1>2. c["REAL2"] = 2 * c["REAL"]
  BY DEF Compilers, Compiler
<1>3. f["REAL"] = c["REAL"] /\ f["DOUBLE_PRECISION"] = c["DOUBLE_PRECISION"]
  BY DEF VerifyConsistent, VerifySize
<1> QED
  BY <1>1, <1>2, <1>3 DEF Types

\* The types have lengths.
LEMMA TypeLengths ==
  ASSUME NEW c \in Compilers, NEW type \in Types
  PROVE  c[type] \in Nat
BY DEF Compilers, Compiler, Types

\* The program passes arguments that fit.
LEMMA ArgumentsFit ==
  ASSUME NEW c \in Compilers, NEW a \in Arguments[c]
  PROVE  Fits(a, c)
<1>1. /\ a \in [name : Names, root : {0, 1, MPI_ROOT}, sendtype : Types, recvtype : Types,
                sendcount : 1 .. Words, recvcount : 1 .. Words, sdispl : Buffer, rdispl : Buffer]
      /\ a.sendcount * c[a.sendtype] = a.recvcount * c[a.recvtype]
      /\ a.root = 0 \/ (a.name \in WithRoot /\ a.sendcount = 1)
  BY DEF Arguments
<1>2. /\ a.sendcount \in Nat /\ a.recvcount \in Nat /\ a.sdispl \in Nat /\ a.rdispl \in Nat
      /\ a.sendtype \in Types /\ a.recvtype \in Types
      /\ a.name \in Names /\ a.root \in {0, 1, MPI_ROOT}
  BY <1>1, WordsAssumption DEF Buffer
<1>3. c[a.sendtype] \in Nat /\ c[a.recvtype] \in Nat
  BY <1>2, TypeLengths
<1>4. /\ a.sendcount * c[a.sendtype] \in Nat
      /\ a.sdispl * c[a.sendtype] \in Nat /\ a.rdispl * c[a.recvtype] \in Nat
  BY <1>2, <1>3
<1> QED
  BY <1>1, <1>2, <1>4 DEF Fits, Long, To, From

\* The buffers are those of the program, which goes on only with types of the
\* right length; the last call fits, and what it copied is there.
CollInv ==
  /\ mem = [send |-> mem.send, recv |-> mem.recv, abort |-> mem.abort]
  /\ DOMAIN mem.send = Buffer /\ DOMAIN mem.recv = Buffer
  /\ mem.send = [b \in Buffer |-> mem.send[b]] /\ mem.recv = [b \in Buffer |-> mem.recv[b]]
  /\ prog = <<>> => lastCall.args = NoCall
  /\ prog # <<>> /\ mem.abort = "no" =>
       /\ prog.compiler \in Compilers
       /\ \A type \in Types : prog.mpif[type] = prog.compiler[type]
       /\ lastCall.args # NoCall =>
            /\ Fits(lastCall.args, prog.compiler)
            /\ \A b \in Buffer : mem.recv[b] = Result(lastCall.args, prog.compiler, b)

\* The buffers with another receive buffer
Filled(recv) == [mem EXCEPT !.recv = recv]

\* A copy between the buffers
LEMMA CopiesTo ==
  ASSUME CollInv, NEW into, NEW at, NEW len, NEW m,
         m = Filled(memcpy(mem.recv, into, mem.send, at, len))
  PROVE  /\ m = [send |-> mem.send, recv |-> m.recv, abort |-> mem.abort]
         /\ m.recv = [b \in Buffer |-> IF b - into \in 0 .. len - 1 THEN mem.send[at + b - into]
                                       ELSE mem.recv[b]]
<1>1. mem = [send |-> mem.send, recv |-> mem.recv, abort |-> mem.abort] /\ DOMAIN mem.recv = Buffer
  BY DEF CollInv
<1>2. memcpy(mem.recv, into, mem.send, at, len) =
        [b \in Buffer |-> IF b - into \in 0 .. len - 1 THEN mem.send[at + b - into] ELSE mem.recv[b]]
  BY <1>1 DEF memcpy
<1> QED
  BY <1>1, <1>2 DEF Filled

\* MPI_ROOT is not the rank of the process.
LEMMA RootIsNoRank == MPI_ROOT # 0
BY DEF MPI_ROOT

\* What the code does of a call, on the other side
LEMMA CallResult ==
  ASSUME CollInv, prog # <<>>, mem.abort = "no", NEW a \in Arguments[prog.compiler], Call(a)
  PROVE  /\ mem' = [send |-> mem'.send, recv |-> mem'.recv, abort |-> mem'.abort]
         /\ mem'.send = mem.send
         /\ mem'.recv = [b \in Buffer |-> Result(a, prog.compiler, b)]
<1> DEFINE p == prog.compiler
           s == prog.mpif[a.sendtype]
           r == prog.mpif[a.recvtype]
           n == Long(a, p)
           i == To(a, p)
           j == From(a, p)
           Copy == Filled(memcpy(mem.recv, i, mem.send, j, n))
<1>1. p \in Compilers /\ \A type \in Types : prog.mpif[type] = p[type]
  BY DEF CollInv
<1>2. Fits(a, p)
  BY <1>1, ArgumentsFit
<1>3. /\ a.sendcount * s = n /\ a.recvcount * r = n /\ n \in Nat
      /\ i = IF a.name \in RecvDispl THEN a.rdispl * r ELSE 0
      /\ j = IF a.name \in SendDispl THEN a.sdispl * s ELSE 0
  BY <1>1, <1>2 DEF Fits, Long, To, From
<1>4. /\ mem = [send |-> mem.send, recv |-> mem.recv, abort |-> mem.abort]
      /\ mem.recv = [b \in Buffer |-> mem.recv[b]]
  BY DEF CollInv
<1>5. /\ Copy = [send |-> mem.send, recv |-> Copy.recv, abort |-> mem.abort]
      /\ Copy.recv = [b \in Buffer |-> IF b - i \in 0 .. n - 1 THEN mem.send[j + b - i]
                                       ELSE mem.recv[b]]
  <2>1. PICK m : m = Filled(memcpy(mem.recv, i, mem.send, j, n))
    OBVIOUS
  <2> HIDE DEF i, j, n
  <2>2. /\ m = [send |-> mem.send, recv |-> m.recv, abort |-> mem.abort]
        /\ m.recv = [b \in Buffer |-> IF b - i \in 0 .. n - 1 THEN mem.send[j + b - i]
                                      ELSE mem.recv[b]]
    BY <2>1, CopiesTo
  <2> QED
    BY <2>1, <2>2 DEF Copy
<1> HIDE DEF s, r, n, i, j, Copy
<1>6. \/ mem' \in {mem, [mem EXCEPT !.abort = "root"]} /\ ~Copies(a)
      \/ mem' = Copy /\ Copies(a)
  <2> DEFINE Goal == \/ mem' \in {mem, [mem EXCEPT !.abort = "root"]} /\ ~Copies(a)
                     \/ mem' = Copy /\ Copies(a)
  <2>1. \A recv : mem' = Rooted(mem, a.root, recv) =>
          \/ mem' \in {mem, [mem EXCEPT !.abort = "root"]} /\ a.root # 0
          \/ mem' = [mem EXCEPT !.recv = recv] /\ a.root = 0
    BY RootIsNoRank, Zenon DEF Rooted
  <2>2. a.root = 0 \/ a.name \in WithRoot
    BY <1>2 DEF Fits
  <2>3. [mem EXCEPT !.recv = mem.recv] = mem
    BY <1>4
  <2>4. ASSUME a.name = "Barrier", mem' = mem PROVE Goal
    BY <2>4 DEF Copies
  <2>5. ASSUME a.name = "Bcast", mem' = MPI_Bcast(mem, a) PROVE Goal
    BY <2>1, <2>3, <2>5 DEF Copies, MPI_Bcast
  <2>6. ASSUME a.name = "Gather", mem' = MPI_Gather(mem, a, s) PROVE Goal
    BY <1>3, <2>1, <2>6 DEF Copies, Copy, Filled, MPI_Gather, RecvDispl, SendDispl
  <2>7. ASSUME a.name = "Gatherv", mem' = MPI_Gatherv(mem, a, r) PROVE Goal
    BY <1>3, <2>1, <2>7 DEF Copies, Copy, Filled, MPI_Gatherv, RecvDispl, SendDispl
  <2>8. ASSUME a.name = "Allgather", mem' = MPI_Allgather(mem, a, s) PROVE Goal
    BY <1>3, <2>2, <2>8 DEF Copies, Copy, Filled, MPI_Allgather, RecvDispl, SendDispl, WithRoot
  <2>9. ASSUME a.name = "Allgatherv", mem' = MPI_Allgatherv(mem, a, r) PROVE Goal
    BY <1>3, <2>2, <2>9 DEF Copies, Copy, Filled, MPI_Allgatherv, RecvDispl, SendDispl, WithRoot
  <2>10. ASSUME a.name = "Scatter", mem' = MPI_Scatter(mem, a, s) PROVE Goal
    BY <1>3, <2>1, <2>10 DEF Copies, Copy, Filled, MPI_Scatter, RecvDispl, SendDispl
  <2>11. ASSUME a.name = "Scatterv", mem' = MPI_Scatterv(mem, a, s) PROVE Goal
    BY <1>3, <2>1, <2>11 DEF Copies, Copy, Filled, MPI_Scatterv, RecvDispl, SendDispl
  <2>12. ASSUME a.name = "Reduce", mem' = MPI_Reduce(mem, a, s) PROVE Goal
    BY <1>3, <2>1, <2>12 DEF Copies, Copy, Filled, MPI_Reduce, RecvDispl, SendDispl
  <2>13. ASSUME a.name = "Allreduce", mem' = MPI_Allreduce(mem, a, s) PROVE Goal
    BY <1>3, <2>2, <2>13 DEF Copies, Copy, Filled, MPI_Allreduce, RecvDispl, SendDispl, WithRoot
  <2>14. ASSUME a.name = "Scan", mem' = MPI_Scan(mem, a, s) PROVE Goal
    BY <1>3, <2>2, <2>14 DEF Copies, Copy, Filled, MPI_Scan, RecvDispl, SendDispl, WithRoot
  <2>15. ASSUME a.name = "Alltoall", mem' = MPI_Alltoall(mem, a, s) PROVE Goal
    BY <1>3, <2>2, <2>15 DEF Copies, Copy, Filled, MPI_Alltoall, RecvDispl, SendDispl, WithRoot
  <2>16. ASSUME a.name = "Alltoallv", mem' = MPI_Alltoallv(mem, a, s, r) PROVE Goal
    BY <1>3, <2>2, <2>16 DEF Copies, Copy, Filled, MPI_Alltoallv, RecvDispl, SendDispl, WithRoot
  <2> HIDE DEF Goal
  <2>17. Goal
    BY <2>4, <2>5, <2>6, <2>7, <2>8, <2>9, <2>10, <2>11, <2>12, <2>13, <2>14, <2>15, <2>16 DEF Call, s, r
  <2> QED
    BY <2>17 DEF Goal
<1>7. CASE ~Copies(a) /\ mem' \in {mem, [mem EXCEPT !.abort = "root"]}
  <2>1. \A b \in Buffer : Result(a, p, b) = mem.recv[b]
    BY <1>7 DEF Result
  <2>2. /\ mem' = [send |-> mem'.send, recv |-> mem'.recv, abort |-> mem'.abort]
        /\ mem'.send = mem.send /\ mem'.recv = mem.recv
    BY <1>4, <1>7
  <2>3. [b \in Buffer |-> Result(a, p, b)] = [b \in Buffer |-> mem.recv[b]]
    BY <2>1
  <2> QED
    BY <2>2, <2>3, <1>4
<1>8. CASE Copies(a) /\ mem' = Copy
  <2>1. \A b \in Buffer : Result(a, p, b) = IF b - i \in 0 .. n - 1 THEN mem.send[j + b - i]
                                            ELSE mem.recv[b]
    BY <1>8 DEF Result, i, j, n
  <2>2. [b \in Buffer |-> Result(a, p, b)] =
          [b \in Buffer |-> IF b - i \in 0 .. n - 1 THEN mem.send[j + b - i] ELSE mem.recv[b]]
    BY <2>1
  <2>3. mem'.recv = Copy.recv /\ mem' = [send |-> mem.send, recv |-> mem'.recv, abort |-> mem.abort]
    BY <1>5, <1>8
  <2>4. mem' = [send |-> mem'.send, recv |-> mem'.recv, abort |-> mem'.abort] /\ mem'.send = mem.send
    <3>1. mem'.send = mem.send
      BY <2>3
    <3>2. mem'.abort = mem.abort
      BY <2>3
    <3> QED
      BY <2>3, <3>1, <3>2
  <2>5. mem'.recv = [b \in Buffer |-> Result(a, p, b)]
    BY <2>2, <2>3, <1>5, Zenon
  <2> QED
    BY <2>4, <2>5
<1> QED
  BY <1>6, <1>7, <1>8

\* The start of a program
LEMMA CollInitSound == CollInit => CollInv /\ AsDefined!Init
<1> SUFFICES ASSUME CollInit PROVE CollInv /\ AsDefined!Init
  OBVIOUS
<1>1. CollInv
  BY DEF CollInit, CollInv
<1>2. ByRank(lastCall.args).name = "none"
  BY DEF CollInit, ByRank, NoCall
<1> QED
  BY <1>1, <1>2 DEF AsDefined!Init

\* mpi_init_fort, before which no call was made
LEMMA InitFortSteps ==
  ASSUME CollInv, NEW mpif \in FORT_SIZE, NEW c \in Compilers, MPI_Init_fort(mpif, c)
  PROVE  CollInv' /\ UNCHANGED AsDefined!vars
<1>1. /\ prog' = [mpif |-> mpif, compiler |-> c] /\ lastCall' = lastCall
      /\ mem' = [mem EXCEPT !.abort = IF VerifyConsistent(mpif, c) THEN "no" ELSE "init"]
      /\ lastCall.args = NoCall
  BY DEF MPI_Init_fort, CollInv
<1>2. /\ mem = [send |-> mem.send, recv |-> mem.recv, abort |-> mem.abort]
      /\ DOMAIN mem.send = Buffer /\ DOMAIN mem.recv = Buffer
      /\ mem.send = [b \in Buffer |-> mem.send[b]] /\ mem.recv = [b \in Buffer |-> mem.recv[b]]
  BY DEF CollInv
<1>3. /\ mem'.send = mem.send /\ mem'.recv = mem.recv
      /\ mem'.abort = IF VerifyConsistent(mpif, c) THEN "no" ELSE "init"
      /\ mem' = [send |-> mem'.send, recv |-> mem'.recv, abort |-> mem'.abort]
  BY <1>1, <1>2
<1>4. prog'.mpif = mpif /\ prog'.compiler = c /\ prog' # <<>>
  BY <1>1
<1>5. mem'.abort = "no" => \A type \in Types : prog'.mpif[type] = prog'.compiler[type]
  BY <1>3, <1>4, SizesAgree
<1>6. CollInv'
  BY <1>1, <1>2, <1>3, <1>4, <1>5 DEF CollInv
<1>7. ByRank(lastCall.args)' = ByRank(lastCall.args)
  BY <1>1 DEF ByRank
<1> QED
  BY <1>3, <1>6, <1>7 DEF AsDefined!vars, Alone

\* A collective call.  Made twice, it changes nothing the second time.
LEMMA CallSteps ==
  ASSUME CollInv, prog # <<>>, mem.abort = "no", NEW a \in Arguments[prog.compiler], Call(a)
  PROVE  CollInv' /\ [AsDefined!Next]_(AsDefined!vars)
<1> DEFINE p == prog.compiler
<1>1. p \in Compilers /\ \A type \in Types : prog.mpif[type] = p[type]
  BY DEF CollInv
<1>2. Fits(a, p)
  BY <1>1, ArgumentsFit
<1>3. /\ mem' = [send |-> mem'.send, recv |-> mem'.recv, abort |-> mem'.abort]
      /\ mem'.send = mem.send
      /\ mem'.recv = [b \in Buffer |-> Result(a, p, b)]
  BY CallResult
<1>4. prog' = prog /\ lastCall'.args = a
  BY DEF Call
<1>5. DOMAIN mem.send = Buffer /\ DOMAIN mem.recv = Buffer
  BY DEF CollInv
<1>6. \A b \in Buffer : mem'.recv[b] = Result(a, p, b)
  BY <1>3
<1>7. CollInv'
  <2>1. \A b \in Buffer : mem'.recv[b] = Result(a, p, b)'
    <3> TAKE b \in Buffer
    <3> DEFINE inside == Copies(a) /\ b - To(a, p) \in 0 .. Long(a, p) - 1
               k == From(a, p) + b - To(a, p)
    <3>1. p' = p
      BY <1>4
    <3>2. mem'.recv[b] = IF inside THEN mem.send[k] ELSE mem.recv[b]
      BY <1>6 DEF Result
    <3>3. Result(a, p, b)' = IF inside THEN mem'.send[k] ELSE mem'.recv[b]
      BY <3>1 DEF Result
    <3> HIDE DEF inside, k
    <3> QED
      BY <3>2, <3>3, <1>3
  <2>2. DOMAIN mem'.recv = Buffer /\ mem'.recv = [b \in Buffer |-> mem'.recv[b]]
    BY <1>3, <1>6
  <2>3. mem'.send = [b \in Buffer |-> mem'.send[b]]
    BY <1>3 DEF CollInv
  <2> QED
    BY <2>1, <2>2, <2>3, <1>1, <1>2, <1>3, <1>4, <1>5 DEF CollInv
<1>8. PICK c : c = ByRank(a)
  OBVIOUS
<1>9. ByRank(lastCall.args)' = c
  BY <1>4, <1>8 DEF ByRank
<1>10. \A b \in Buffer : AsDefined!Received(c, 0, b) = Result(a, p, b)
  <2>1. \A b \in Buffer : b \in Nat
    BY DEF Buffer
  <2> QED
    BY <2>1, <1>2, <1>8, ReceivedIs
<1>11. CASE c # ByRank(lastCall.args)
  <2>1. [r \in {0} |-> [b \in DOMAIN Alone(mem.recv)[r] |-> AsDefined!Received(c, r, b)]]
          = [r \in {0} |-> mem'.recv]
    <3>1. [b \in DOMAIN Alone(mem.recv)[0] |-> AsDefined!Received(c, 0, b)] = mem'.recv
      BY <1>3, <1>5, <1>10, OneRank
    <3> QED
      BY <3>1
  <2>2. [r \in {0} |-> [b \in DOMAIN Alone(mem.send)[r] |-> AsDefined!Broadcast(c, r, b)]]
          = [r \in {0} |-> mem'.send]
    <3>1. \A b : AsDefined!Broadcast(c, 0, b) = mem.send[b]
      BY OneRank DEF AsDefined!Broadcast
    <3>2. [b \in DOMAIN Alone(mem.send)[0] |-> AsDefined!Broadcast(c, 0, b)] = mem'.send
      BY <3>1, <1>3, <1>5, OneRank DEF CollInv
    <3> QED
      BY <3>2
  <2>3. Alone(mem.recv)' = [r \in {0} |-> mem'.recv] /\ Alone(mem.send)' = [r \in {0} |-> mem'.send]
    BY DEF Alone, MPI_Comm_rank
  <2>4. AsDefined!Next
    BY <2>1, <2>2, <2>3, <1>9, <1>11, OneRank DEF AsDefined!Next
  <2> QED
    BY <2>4, <1>7
<1>12. CASE c = ByRank(lastCall.args)
  <2>1. lastCall.args # NoCall
    <3>1. c.name = a.name /\ a.name # "none"
      BY <1>2, <1>8 DEF ByRank, Fits, Names, WithRoot, NoCall
    <3>2. ByRank(NoCall).name = "none"
      BY DEF ByRank, NoCall
    <3> QED
      BY <3>1, <3>2, <1>12
  <2>2. Fits(lastCall.args, p) /\ \A b \in Buffer : mem.recv[b] = Result(lastCall.args, p, b)
    BY <2>1 DEF CollInv
  <2>3. \A b \in Buffer : AsDefined!Received(c, 0, b) = Result(lastCall.args, p, b)
    <3>1. \A b \in Buffer : b \in Nat
      BY DEF Buffer
    <3> QED
      BY <3>1, <2>2, <1>12, ReceivedIs
  <2>4. \A b \in Buffer : mem'.recv[b] = mem.recv[b]
    BY <2>2, <2>3, <1>6, <1>10
  <2>5. mem'.recv = mem.recv
    <3>1. mem.recv = [b \in Buffer |-> mem.recv[b]]
      BY DEF CollInv
    <3>2. mem'.recv = [b \in Buffer |-> mem'.recv[b]]
      BY <1>3, <1>6
    <3> QED
      BY <3>1, <3>2, <2>4
  <2>6. UNCHANGED AsDefined!vars
    BY <2>5, <1>3, <1>9, <1>12 DEF AsDefined!vars, Alone
  <2> QED
    BY <2>6, <1>7
<1> QED
  BY <1>11, <1>12

\* Every step of the program is one of the definition, or none.
LEMMA CollSteps ==
  ASSUME CollInv, [CollNext]_collVars
  PROVE  CollInv' /\ [AsDefined!Next]_(AsDefined!vars)
<1>1. ASSUME NEW mpif \in FORT_SIZE, NEW c \in Compilers, MPI_Init_fort(mpif, c)
      PROVE  CollInv' /\ [AsDefined!Next]_(AsDefined!vars)
  BY <1>1, InitFortSteps
<1>2. ASSUME prog # <<>>, mem.abort = "no", NEW a \in Arguments[prog.compiler], Call(a)
      PROVE  CollInv' /\ [AsDefined!Next]_(AsDefined!vars)
  BY <1>2, CallSteps
<1>3. CASE UNCHANGED collVars
  <2>1. prog' = prog /\ mem' = mem /\ lastCall' = lastCall
    BY <1>3 DEF collVars
  <2>2. CollInv'
    BY <2>1 DEF CollInv, Result
  <2>3. UNCHANGED AsDefined!vars
    BY <2>1 DEF AsDefined!vars, Alone, ByRank
  <2> QED
    BY <2>2, <2>3
<1> QED
  BY <1>1, <1>2, <1>3 DEF CollNext

\* CollectivesSpec: a program that mpi_init_fort lets through makes collective calls that
\* move the elements MPI says for one rank, to their place, and nothing else
\* (collective.c), whatever the lengths of its buffers and the number of its calls.
THEOREM CollectivesAsDefined == CollSpec => CollectivesSpec
<1>1. CollInv /\ [CollNext]_collVars => CollInv' /\ [AsDefined!Next]_(AsDefined!vars)
  BY CollSteps
<1> QED
  BY <1>1, CollInitSound, PTL DEF CollSpec, CollectivesSpec, AsDefined!Spec

=============================================================================
