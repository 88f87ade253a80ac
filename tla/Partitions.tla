----------------------------- MODULE Partitions ------------------------------
(***************************************************************************)
(* Decompositions: how the processes of a component describe which points  *)
(* of the global index space they have (oasis_def_partition and            *)
(* oasis_part_create in mod_oasis_part.F90), what MCT keeps of it          *)
(* (m_GlobalSegMap.F90), and how it finds from the decompositions of two   *)
(* components who sends which points to whom (m_Router.F90).               *)
(*                                                                         *)
(* Points are numbered from 1 on.  A segment is a first point and a        *)
(* length; the points of a process are in the order of its segments, which *)
(* is the order of its arrays.                                             *)
(***************************************************************************)
EXTENDS Integers, SequencesExt

Segment(start, length) == [start |-> start, length |-> length]

Points(seg) == [k \in 1 .. seg.length |-> seg.start + k - 1]

\* The point or piece is added to the last segment when it comes next to it.
AddSpan(segs, start, length) ==
  IF segs # <<>> /\ Last(segs).start + Last(segs).length = start
  THEN [segs EXCEPT ![Len(segs)].length = @ + length]
  ELSE Append(segs, Segment(start, length))

\* Runs of consecutive numbers, in the order of the list.
Runs(points) ==
  LET runs[k \in 0 .. Len(points)] ==
        IF k = 0 THEN <<>> ELSE AddSpan(runs[k - 1], points[k], 1)
  IN  runs[Len(points)]

\* What a list has at some of its places, in the order of the list.
Picked(list, places) ==
  LET picked[n \in 0 .. Len(list)] ==
        IF n = 0 THEN <<>>
        ELSE IF n \in places THEN Append(picked[n - 1], list[n]) ELSE picked[n - 1]
  IN  picked[Len(list)]

-----------------------------------------------------------------------------
\* kparal, by strategy: the segments of a process.
Serial(k) == IF k.length = 0 THEN <<>> ELSE <<Segment(1, k.length)>>

Apple(k) == IF k.length = 0 THEN <<>> ELSE <<Segment(k.offset + 1, k.length)>>

Box(k) == IF k.sizeX * k.sizeY = 0 THEN <<>>
          ELSE [n \in 1 .. k.sizeY |-> Segment(k.offset + (n - 1) * k.ldX + 1, k.sizeX)]

Orange(k) == LET used == Picked(k.segments, {n \in DOMAIN k.segments : k.segments[n].extent > 0})
             IN  [n \in DOMAIN used |-> Segment(used[n].offset + 1, used[n].extent)]

oasis_def_partition(k) ==
  CASE k.strategy = "Serial" -> Serial(k)
    [] k.strategy = "Apple"  -> Apple(k)
    [] k.strategy = "Box"    -> Box(k)
    [] k.strategy = "Orange" -> Orange(k)
    [] k.strategy = "Points" -> Runs(k.points)

\* The decomposition that the coupling layer makes itself, for the grid of the
\* other component: gsize points over mpisize processes.
Part1d(gsize, mpisize, mpirank) ==
  LET share == gsize \div mpisize
      pts   == gsize - share * mpisize
  IN  Segment(share * mpirank + (IF mpirank < pts THEN mpirank ELSE pts) + 1,
              IF mpirank < pts THEN share + 1 ELSE share)

-----------------------------------------------------------------------------
\* The segments of all processes, gathered in the order of their ranks: own[i]
\* has those of rank i - 1.
Gathered(own) ==
  FlattenSeq([i \in DOMAIN own |->
    [n \in DOMAIN own[i] |-> [start |-> own[i][n].start, length |-> own[i][n].length, pe_loc |-> i - 1]]])

\* The size of the grid is isize, or the number of points when that is not given.
GlobalSegMap(own, isize) ==
  LET segs == Gathered(own)
  IN  [segs |-> segs,
       gsize |-> IF isize > 0 THEN isize
                 ELSE FoldLeft(LAMBDA sum, s : sum + s.length, 0, segs)]

SegmentsOf(gsmap, pe) == Picked(gsmap.segs, {n \in DOMAIN gsmap.segs : gsmap.segs[n].pe_loc = pe})

OrderedPoints(gsmap, pe) ==
  LET mine == SegmentsOf(gsmap, pe) IN FlattenSeq([n \in DOMAIN mine |-> Points(mine[n])])

\* The segments of each process are in ascending order and apart.
increasing(gsmap) ==
  \A s \in Range(gsmap.segs) :
    LET mine == SegmentsOf(gsmap, s.pe_loc)
    IN  \A n \in 2 .. Len(mine) : mine[n].start >= mine[n - 1].start + mine[n - 1].length

\* The places of the smallest, the next, ... of a list.
IndexSort(list) ==
  SetToSortSeq(DOMAIN list,
               LAMBDA i, j : list[i] < list[j] \/ (list[i] = list[j] /\ i < j))

Permute(ary, indx) == [i \in DOMAIN ary |-> ary[indx[i]]]

Unpermute(ary, indx) == [l \in DOMAIN ary |-> ary[CHOOSE i \in DOMAIN indx : indx[i] = l]]

\* The map that a router works with in place of one that is not increasing: each
\* process of the component that makes the router sorts the points of the rank
\* that it has itself, and the result is gathered over them.
Corrected(gsmap, mysize) ==
  IF increasing(gsmap) THEN gsmap
  ELSE [gsmap EXCEPT !.segs =
          Gathered([i \in 1 .. mysize |->
                      LET points == OrderedPoints(gsmap, i - 1)
                      IN  Runs(Permute(points, IndexSort(points)))])]

\* Do two segments have a point in common?
MeetsLeft(mine, theirs) ==        \* mutant: nor when mine begins where theirs ends
  ~(mine.start + mine.length - 1 < theirs.start \/ mine.start >= theirs.start + theirs.length - 1)

Meets(mine, theirs) ==
  ~(mine.start + mine.length - 1 < theirs.start \/ mine.start > theirs.start + theirs.length - 1)

\* The places in the array of a process, which has the segments mine, of the
\* points that it has in common with a process that has the segments theirs:
\* segments of places.
Overlaps(mine, theirs) ==
  LET lstart[i \in 1 .. Len(mine)] == IF i = 1 THEN 1 ELSE lstart[i - 1] + mine[i - 1].length
      end(s) == s.start + s.length
      left(i, j) == IF mine[i].start > theirs[j].start THEN mine[i].start ELSE theirs[j].start
      right(i, j) == IF end(mine[i]) < end(theirs[j]) THEN end(mine[i]) ELSE end(theirs[j])
      found[i \in 0 .. Len(mine)] ==
        IF i = 0 THEN <<>>
        ELSE LET upto[j \in 0 .. Len(theirs)] ==
                   IF j = 0 THEN found[i - 1]
                   ELSE IF Meets(mine[i], theirs[j])
                        THEN AddSpan(upto[j - 1], lstart[i] + left(i, j) - mine[i].start,
                                     right(i, j) - left(i, j))
                        ELSE upto[j - 1]
             IN  upto[Len(theirs)]
  IN  found[Len(mine)]

\* The router of rank myPid of a component of mysize processes, to another of
\* nprocs: the ranks it exchanges with and the places of the data, and the order
\* to bring the array into first when the own map was not increasing.
Router(gsmap, rgsmap, myPid, mysize, nprocs) ==
  LET mine == SegmentsOf(Corrected(gsmap, mysize), myPid)
      remote == Corrected(rgsmap, mysize)
      segs == [pe \in 0 .. nprocs - 1 |-> Overlaps(mine, SegmentsOf(remote, pe))]
      pe_list == Picked([i \in 1 .. nprocs |-> i - 1], {i \in 1 .. nprocs : segs[i - 1] # <<>>})
  IN  [pe_list |-> pe_list,
       segs |-> [pe \in Range(pe_list) |-> segs[pe]],
       permarr |-> IF increasing(gsmap) THEN <<>> ELSE IndexSort(OrderedPoints(gsmap, myPid))]

\* The places of the array that are exchanged with a rank, in order.
Places(segs) == FlattenSeq([n \in DOMAIN segs |-> Points(segs[n])])

=============================================================================
