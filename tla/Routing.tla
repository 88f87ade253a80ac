------------------------------ MODULE Routing --------------------------------
(***************************************************************************)
(* One coupler without a remapping, seen by every process of its source    *)
(* and its target component: the decompositions are defined, the routers   *)
(* made from them (mct_router_init), and then each process of the source   *)
(* puts its part of a field (mct_waitsend and mct_isend of m_Transfer.F90) *)
(* and each one of the target gets its own (mct_recv), some rounds long.   *)
(* No process waits for the others of its component.                       *)
(***************************************************************************)
EXTENDS Partitions, FiniteSets

CONSTANTS Layouts,        \* pairs of decompositions, of the source and the target
          Rounds          \* bound: the fields sent and received

ASSUME RoundsAssumption == Rounds \in Nat

VARIABLES
  layout,   \* the decompositions of this run: src and dst, <<>> before the first definition
  gsmap,    \* the decomposition of each component as MCT keeps it
  routers,  \* of each component, by rank
  put,      \* by rank of the source: round and the requests not complete, by rank
  get,      \* by rank of the target: round, av (the array of the coupler), the
            \* ranks it still waits for and the receive buffers; waiting: in mct_recv
  wire,     \* the messages under way, by rank of the source and of the target
  halt      \* "no", or why MCT has stopped the run

routeVars == <<layout, gsmap, routers, put, get, wire, halt>>

RouteInit == /\ layout = <<>> /\ gsmap = <<>> /\ routers = <<>>
             /\ put = <<>> /\ get = <<>> /\ wire = <<>>
             /\ halt = "no"

-----------------------------------------------------------------------------
\* A decomposition is that of a grid by the coupling layer, or what each process
\* has passed to oasis_def_partition.
Size(d) == IF d.kind = "1d" THEN d.mpisize ELSE Len(d.kparal)

OwnSegments(d) ==
  [i \in 1 .. Size(d) |-> IF d.kind = "1d" THEN <<Part1d(d.gsize, d.mpisize, i - 1)>>
                          ELSE oasis_def_partition(d.kparal[i])]

\* The value of a point in a round.
Value(point, round) == <<point, round>>

Zero == <<>>

Ranks(c) == 0 .. Size(layout[c]) - 1

\* The function f with x for the argument a
Extended(f, a, x) == [b \in DOMAIN f \cup {a} |-> IF b = a THEN x ELSE f[b]]

MapOf(d) == GlobalSegMap(OwnSegments(d), IF d.kind = "1d" THEN 0 ELSE d.isize)

\* Collective in a component.
DefPartition(c) ==
  /\ c \notin DOMAIN gsmap
  /\ layout' \in IF layout = <<>> THEN Layouts ELSE {layout}
  /\ gsmap' = Extended(gsmap, c, MapOf(layout'[c]))
  /\ UNCHANGED <<routers, put, get, wire, halt>>

\* The maps have been exchanged (see CouplerSetup); both roots compare the sizes.
Mismatch == /\ DOMAIN gsmap = {"src", "dst"}
            /\ gsmap["src"].gsize # gsmap["dst"].gsize
            /\ halt' = "gsize"
            /\ UNCHANGED <<layout, gsmap, routers, put, get, wire>>

\* Collective too, when a map has to be corrected.
RouterInit(c, other) ==
  /\ DOMAIN gsmap = {"src", "dst"} /\ gsmap[c].gsize = gsmap[other].gsize
  /\ c \notin DOMAIN routers
  /\ routers' = Extended(routers, c, [pe \in Ranks(c) |->
                  Router(gsmap[c], gsmap[other], pe, Size(layout[c]), Size(layout[other]))])
  /\ IF c = "src" THEN /\ put' = [pe \in Ranks(c) |-> [round |-> 0, ireqs |-> {}]]
                       /\ wire' = [pq \in Ranks("src") \X Ranks("dst") |-> <<>>]
                       /\ UNCHANGED get
     ELSE /\ get' = [pe \in Ranks(c) |->
                       [round |-> 0, waiting |-> FALSE, from |-> {}, buffer |-> <<>>,
                        av |-> [i \in DOMAIN OrderedPoints(gsmap[c], pe) |-> Zero]]]
          /\ UNCHANGED <<put, wire>>
  /\ UNCHANGED <<layout, gsmap, halt>>

-----------------------------------------------------------------------------
InOrder(rout, av) == IF rout.permarr = <<>> THEN av ELSE Permute(av, rout.permarr)

\* What a rank with these points sends to rank q in a round.
Message(rout, point, q, round) ==
  LET av    == InOrder(rout, [i \in DOMAIN point |-> Value(point[i], round)])
      place == Places(rout.segs[q])
  IN  [k \in DOMAIN place |-> av[place[k]]]

\* mct_waitsend, which waits for the sends of the last round, and mct_isend.
MayPut(pe) == put[pe].ireqs = {} /\ put[pe].round < Rounds

Put(pe) ==
  /\ MayPut(pe)
  /\ LET rout  == routers["src"][pe]
         point == OrderedPoints(gsmap["src"], pe)
     IN  /\ put' = [put EXCEPT ![pe] = [round |-> @.round + 1, ireqs |-> Range(rout.pe_list)]]
         /\ wire' = [pq \in DOMAIN wire |->
                       IF pq[1] = pe /\ pq[2] \in Range(rout.pe_list)
                       THEN Append(wire[pq], Message(rout, point, pq[2], put[pe].round + 1))
                       ELSE wire[pq]]
  /\ UNCHANGED <<layout, gsmap, routers, get, halt>>

\* MPI has buffered a message, as it may.
SendBuffered(pe, q) ==
  /\ q \in put[pe].ireqs
  /\ put' = [put EXCEPT ![pe].ireqs = @ \ {q}]
  /\ UNCHANGED <<layout, gsmap, routers, get, wire, halt>>

\* mct_recv up to the wait: without partners there is nothing to do.
MayGet(q) == ~get[q].waiting /\ get[q].round < Rounds

PostedEmpty(rout, g) ==           \* mutant: a rank without partners waits, too
  [g EXCEPT !.waiting = TRUE, !.from = Range(rout.pe_list), !.buffer = <<>>]

Posted(rout, g) ==
  LET from == Range(rout.pe_list)
  IN  IF from = {} THEN [g EXCEPT !.round = @ + 1]
      ELSE [g EXCEPT !.waiting = TRUE, !.from = from, !.buffer = <<>>]

Get(q) ==
  /\ MayGet(q)
  /\ get' = [get EXCEPT ![q] = Posted(routers["dst"][q], @)]
  /\ UNCHANGED <<layout, gsmap, routers, put, wire, halt>>

\* The data of a rank into their places.
Placed(av, place, data) ==
  [i \in DOMAIN av |-> IF i \in Range(place) THEN data[CHOOSE k \in DOMAIN place : place[k] = i] ELSE av[i]]

UnpermutedWrongWay(rout, av) == InOrder(rout, av)   \* mutant: sorted once more

Unpermuted(rout, av) == IF rout.permarr = <<>> THEN av ELSE Unpermute(av, rout.permarr)

\* The wait is over: what is in the receive buffers is loaded, in the order of
\* pe_list, and the whole array is brought back into the order of the program.
FromBuffer(rout, g, pe, av) ==
  IF pe \in DOMAIN g.buffer THEN Placed(av, Places(rout.segs[pe]), g.buffer[pe]) ELSE av

Loaded(rout, g) ==
  LET av[n \in 0 .. Len(rout.pe_list)] ==
        IF n = 0 THEN g.av ELSE FromBuffer(rout, g, rout.pe_list[n], av[n - 1])
  IN  Unpermuted(rout, av[Len(rout.pe_list)])

\* A message arrives.  When its points are one segment it was received into the
\* array itself.  MPI stops the run when it is longer than what is expected, and
\* what is missing of a shorter one stays unset, which is made the same here.
Taken(rout, g, pe, data) ==
  LET place == Places(rout.segs[pe])
  IN  [g EXCEPT !.from = @ \ {pe},
                !.av = IF Len(rout.segs[pe]) = 1 THEN Placed(@, place, data) ELSE @,
                !.buffer = IF Len(rout.segs[pe]) > 1 THEN Extended(@, pe, data) ELSE @]

Ended(rout, g) == [g EXCEPT !.av = Loaded(rout, g), !.buffer = <<>>, !.waiting = FALSE, !.round = @ + 1]

Arrival(rout, g, pe, data) ==
  LET came == Taken(rout, g, pe, data) IN IF came.from # {} THEN came ELSE Ended(rout, came)

MayArrive(pe, q) == "src" \in DOMAIN routers /\ pe \in get[q].from /\ wire[<<pe, q>>] # <<>>

Arrive(pe, q) ==
  /\ MayArrive(pe, q)
  /\ LET rout  == routers["dst"][q]
         data  == Head(wire[<<pe, q>>])
     IN  IF Len(data) # Len(Places(rout.segs[pe])) THEN halt' = "length" /\ UNCHANGED <<get, put>>
         ELSE /\ get' = [get EXCEPT ![q] = Arrival(rout, @, pe, data)]
              /\ put' = IF Len(wire[<<pe, q>>]) = 1 THEN [put EXCEPT ![pe].ireqs = @ \ {q}] ELSE put
              /\ UNCHANGED halt
  /\ wire' = [wire EXCEPT ![<<pe, q>>] = Tail(@)]
  /\ UNCHANGED <<layout, gsmap, routers>>

RouteNext ==
  /\ halt = "no"
  /\ \/ \E c \in {"src", "dst"} : DefPartition(c)
     \/ Mismatch
     \/ RouterInit("src", "dst") \/ RouterInit("dst", "src")
     \/ \E pe \in DOMAIN put : Put(pe) \/ \E q \in put[pe].ireqs : SendBuffered(pe, q)
     \/ \E q \in DOMAIN get : Get(q) \/ \E pe \in get[q].from : Arrive(pe, q)

RouteSpec == RouteInit /\ [][RouteNext]_routeVars

-----------------------------------------------------------------------------
(* Properties *)

\* The points of rank pe in the order of its arrays, as the program means them.
LocalPoints(d, pe) ==
  IF d.kind = "1d" THEN Points(Part1d(d.gsize, d.mpisize, pe))
  ELSE LET k == d.kparal[pe + 1] IN
    CASE k.strategy = "Serial" -> [i \in 1 .. k.length |-> i]
      [] k.strategy = "Apple"  -> [i \in 1 .. k.length |-> k.offset + i]
      [] k.strategy = "Box"    -> [i \in 1 .. k.sizeX * k.sizeY |->
                                     k.offset + ((i - 1) \div k.sizeX) * k.ldX + ((i - 1) % k.sizeX) + 1]
      [] k.strategy = "Orange" -> FlattenSeq([n \in DOMAIN k.segments |->
                                     [i \in 1 .. k.segments[n].extent |-> k.segments[n].offset + i]])
      [] k.strategy = "Points" -> k.points

Covered == UNION {Range(LocalPoints(layout.src, pe)) : pe \in Ranks("src")}

\* Whatever the two decompositions, when a get of round n is over each point of
\* the target that the source has is at the place where the program of the
\* target has it, with the value that the source gave it in its put of round n
\* (isend_ and recv_ of m_Transfer.F90 over the routers that each rank has made
\* for itself).
Delivered ==
  \A q \in DOMAIN get : ~get[q].waiting /\ get[q].round > 0 =>
    LET point == LocalPoints(layout.dst, q)
    IN  /\ DOMAIN get[q].av = DOMAIN point
        /\ \A i \in DOMAIN point :
             point[i] \in Covered => get[q].av[i] = Value(point[i], get[q].round)

\* All the ranks have put and got all the fields, and nothing is left over.
AllServed == /\ DOMAIN routers = {"src", "dst"}
             /\ \A pe \in Ranks("src") : put[pe].round = Rounds
             /\ \A q \in Ranks("dst") : get[q].round = Rounds
             /\ \A pq \in DOMAIN wire : wire[pq] = <<>>

\* No rank waits for a message that nobody sends, and none gets a message of
\* another length than it expects: each one finds in its own router the partners
\* that have it in theirs (m_Router.F90:412).  However little MPI buffers, a rank
\* can go on until all of them have put and got all the fields.
NoRankWaits ==
  /\ halt # "length"
  /\ DOMAIN routers = {"src", "dst"} /\ ~AllServed =>
       \/ \E pe \in Ranks("src") : MayPut(pe)
       \/ \E q \in Ranks("dst") : MayGet(q) \/ \E pe \in Ranks("src") : MayArrive(pe, q)

-----------------------------------------------------------------------------
(* What a transfer needs of the routers, which every rank makes for itself *)

\* The points of a rank in the order in which its array is exchanged
Exchanged(l, c, rout, pe) == InOrder(rout, OrderedPoints(MapOf(l[c]), pe))

\* An array with these places can be brought into its order and back.
Reorders(rout, places) ==
  rout.permarr # <<>> => DOMAIN rout.permarr = places /\ Range(rout.permarr) = places

\* Of two ranks, each is a partner of the other or none is, and they exchange
\* the same points in the same order.
SameExchange(l, S, D, pe, q) ==
  /\ q \in Range(S[pe].pe_list) <=> pe \in Range(D[q].pe_list)
  /\ q \in Range(S[pe].pe_list) =>
       LET a == Places(S[pe].segs[q])
           b == Places(D[q].segs[pe])
       IN  /\ Range(a) \subseteq DOMAIN OrderedPoints(MapOf(l.src), pe)
           /\ Range(b) \subseteq DOMAIN OrderedPoints(MapOf(l.dst), q)
           /\ a \in Seq(Nat) /\ b \in Seq(Nat) /\ Len(a) = Len(b) /\ Len(D[q].segs[pe]) \in Nat \ {0}
           /\ \A k \in DOMAIN b : Exchanged(l, "src", S[pe], pe)[a[k]] = Exchanged(l, "dst", D[q], q)[b[k]]

\* Every point of rank q of the target that the source has comes from a partner.
AllReached(l, D, q) ==
  LET point == Exchanged(l, "dst", D[q], q)
      covered == UNION {Range(LocalPoints(l.src, pe)) : pe \in 0 .. Size(l.src) - 1}
  IN  \A i \in DOMAIN point : point[i] \in covered =>
        \E pe \in Range(D[q].pe_list) : i \in Range(Places(D[q].segs[pe]))

\* The routers S of the source and D of the target, by rank
Fit(l, S, D) ==
  /\ \A pe \in DOMAIN S : /\ S[pe].pe_list \in Seq(DOMAIN D)
                         /\ Reorders(S[pe], DOMAIN OrderedPoints(MapOf(l.src), pe))
  /\ \A q \in DOMAIN D :
       /\ D[q].pe_list \in Seq(DOMAIN S)
       /\ OrderedPoints(MapOf(l.dst), q) = LocalPoints(l.dst, q)
       /\ Reorders(D[q], DOMAIN LocalPoints(l.dst, q))
       /\ AllReached(l, D, q)
       /\ \A pe \in DOMAIN S : SameExchange(l, S, D, pe, q)

RoutersOf(l, c, other) ==
  [pe \in 0 .. Size(l[c]) - 1 |->
     Router(MapOf(l[c]), MapOf(l[other]), pe, Size(l[c]), Size(l[other]))]

\* A decomposition that passes the test of the routers as it is: no segment is
\* empty, and those of a rank are in ascending order and apart.
WellOrdered(d) ==
  /\ Size(d) \in Nat
  /\ MapOf(d).segs \in Seq([start : Nat, length : Nat \ {0}, pe_loc : 0 .. Size(d) - 1])
  /\ increasing(MapOf(d))
  /\ \A pe \in 0 .. Size(d) - 1 : OrderedPoints(MapOf(d), pe) = LocalPoints(d, pe)

Routable(l) == DOMAIN l = {"src", "dst"} /\ Fit(l, RoutersOf(l, "src", "dst"), RoutersOf(l, "dst", "src"))

\* The routers that the ranks of both sides have made, none of them knowing those
\* of the others (m_Router.F90:397-629), fit together when the first field is put:
\* whoever sends is expected, with the same points in the same order, and no point
\* is left out.  They stay as they are.
RoutersFit ==
  DOMAIN routers = {"src", "dst"} /\ (\A pe \in DOMAIN put : put[pe].round = 0) =>
    Fit(layout, routers["src"], routers["dst"])

=============================================================================
