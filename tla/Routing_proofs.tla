--------------------------- MODULE Routing_proofs ---------------------------
(***************************************************************************)
(* Partitions: the blocks that oasis_part_create makes of a grid           *)
(* (mod_oasis_part.F90:231-242), for every size of the grid and every      *)
(* number of processes, and the test for common points of two segments     *)
(* (m_Router.F90:502-518).                                                 *)
(*                                                                         *)
(* Routing: a field arrives, and nobody waits for ever (m_Transfer.F90),   *)
(* for every number of processes and of fields and every pair of           *)
(* decompositions whose routers fit together.                              *)
(***************************************************************************)
EXTENDS Routing, DataInduction, TLAPS

\* The points of a segment.
PointSet(seg) == seg.start .. seg.start + seg.length - 1

-----------------------------------------------------------------------------
(* Products, which the SMT solver does not find by itself. *)

LEMMA Division ==
  ASSUME NEW a \in Nat, NEW b \in Nat \ {0}
  PROVE  a \div b \in Nat /\ \E rest \in 0 .. b - 1 : a = (a \div b) * b + rest
<1>1. a \div b \in Nat /\ a - (a \div b) * b \in 0 .. b - 1
  OBVIOUS
<1>2. \A c \in Nat : a = c + (a - c)
  OBVIOUS
<1>3. (a \div b) * b \in Nat
  BY <1>1
<1> QED  BY <1>1, <1>2, <1>3

LEMMA Monotone ==
  ASSUME NEW q \in Nat, NEW i \in Nat, NEW j \in Nat, i <= j
  PROVE  q * i <= q * j
<1>1. q * j = q * i + q * (j - i)
  OBVIOUS
<1>2. q * (j - i) >= 0
  OBVIOUS
<1> QED  BY <1>1, <1>2

-----------------------------------------------------------------------------
\* The first point of a block: ranks below pts have a point more.
Start(q, pts, i) == q * i + (IF i < pts THEN i ELSE pts) + 1

\* The first points ascend with the ranks.
LEMMA StartsAscend ==
  ASSUME NEW q \in Nat, NEW pts \in Nat, NEW i \in Nat, NEW j \in Nat, i <= j
  PROVE  Start(q, pts, i) <= Start(q, pts, j)
<1>1. q * i <= q * j
  BY Monotone
<1>2. q * i \in Int /\ q * j \in Int
  OBVIOUS
<1> QED  BY <1>1, <1>2 DEF Start

LEMMA NextStart ==
  ASSUME NEW q \in Nat, NEW pts \in Nat, NEW i \in Nat
  PROVE  Start(q, pts, i + 1) = Start(q, pts, i) + (IF i < pts THEN q + 1 ELSE q)
<1>1. PICK x \in Nat : x = q * i
  OBVIOUS
<1>2. q * (i + 1) = x + q
  BY <1>1
<1>3. Start(q, pts, i) = x + (IF i < pts THEN i ELSE pts) + 1
  BY <1>1 DEF Start
<1>4. Start(q, pts, i + 1) = x + q + (IF i + 1 < pts THEN i + 1 ELSE pts) + 1
  BY <1>2 DEF Start
<1> QED  BY <1>3, <1>4

\* A block reaches up to the first point of the next one.
LEMMA BlocksAdjoin ==
  ASSUME NEW gsize \in Nat, NEW n \in Nat \ {0}, NEW i \in Nat
  PROVE  LET q == gsize \div n  pts == gsize - q * n IN
         PointSet(Part1d(gsize, n, i)) = Start(q, pts, i) .. Start(q, pts, i + 1) - 1
<1> DEFINE q == gsize \div n
           pts == gsize - q * n
<1>0. q \in Nat /\ pts \in Nat
  <2>1. PICK rest \in 0 .. n - 1 : q \in Nat /\ gsize = q * n + rest
    BY Division
  <2>2. q * n \in Nat
    BY <2>1
  <2> QED  BY <2>1, <2>2
<1>2. Part1d(gsize, n, i).start = Start(q, pts, i)
  BY DEF Part1d, Segment, Start
<1>3. Part1d(gsize, n, i).length = IF i < pts THEN q + 1 ELSE q
  BY DEF Part1d, Segment
<1> HIDE DEF q, pts
<1>4. Start(q, pts, i + 1) = Start(q, pts, i) + (IF i < pts THEN q + 1 ELSE q)
  BY <1>0, NextStart
<1>5. Start(q, pts, i) \in Int
  <2>1. q * i \in Int
    BY <1>0
  <2> QED  BY <1>0, <2>1 DEF Start
<1>6. PointSet(Part1d(gsize, n, i)) = Start(q, pts, i) .. Start(q, pts, i + 1) - 1
  BY <1>0, <1>2, <1>3, <1>4, <1>5 DEF PointSet
<1> QED  BY <1>6 DEF q, pts

\* The blocks of oasis_part_create have the points of the grid and no other,
\* and each point is in one block: a field that goes through the grid of the
\* other component loses no point and has none twice.
THEOREM BlocksTile ==
  ASSUME NEW gsize \in Nat, NEW n \in Nat \ {0}
  PROVE  /\ \A i \in 0 .. n - 1 : PointSet(Part1d(gsize, n, i)) \subseteq 1 .. gsize
         /\ \A point \in 1 .. gsize : \E i \in 0 .. n - 1 : point \in PointSet(Part1d(gsize, n, i))
         /\ \A i, j \in 0 .. n - 1 :
              i # j => PointSet(Part1d(gsize, n, i)) \cap PointSet(Part1d(gsize, n, j)) = {}
<1>1. PICK q \in Nat, pts \in 0 .. n - 1 : q = gsize \div n /\ gsize = q * n + pts
  BY Division
<1> DEFINE S(i) == Start(q, pts, i)
<1>2. \A i \in Nat : PointSet(Part1d(gsize, n, i)) = S(i) .. S(i + 1) - 1
  <2>1. q * n \in Nat /\ pts \in Nat
    OBVIOUS
  <2>2. pts = gsize - q * n
    BY <1>1, <2>1
  <2>3. ASSUME NEW i \in Nat
        PROVE  PointSet(Part1d(gsize, n, i)) = Start(q, pts, i) .. Start(q, pts, i + 1) - 1
    <3>1. PointSet(Part1d(gsize, n, i)) =
            Start(gsize \div n, gsize - (gsize \div n) * n, i)
              .. Start(gsize \div n, gsize - (gsize \div n) * n, i + 1) - 1
      BY BlocksAdjoin, ZenonT(30)
    <3>2. pts = gsize - (gsize \div n) * n
      BY <1>1, <2>2, Zenon
    <3> QED  BY <1>1, <3>1, <3>2, Zenon
  <2> QED  BY <2>3
<1>3. \A i \in Nat : S(i) \in Int
  <2> SUFFICES ASSUME NEW i \in Nat PROVE S(i) \in Int
    OBVIOUS
  <2>1. q * i \in Int
    BY <1>1
  <2> QED  BY <1>1, <2>1 DEF Start
<1>4. \A i, j \in Nat : i <= j => S(i) <= S(j)
  BY <1>1, StartsAscend
<1>5. S(0) = 1
  <2>1. q * 0 = 0
    BY <1>1
  <2> QED  BY <1>1, <2>1 DEF Start
<1>6. S(n) = gsize + 1
  <2>1. PICK x \in Nat : x = q * n
    OBVIOUS
  <2>2. S(n) = x + pts + 1
    BY <2>1 DEF Start
  <2> QED  BY <1>1, <2>1, <2>2
<1> HIDE DEF S
<1>7. \A i \in 0 .. n - 1 : PointSet(Part1d(gsize, n, i)) \subseteq 1 .. gsize
  <2> SUFFICES ASSUME NEW i \in 0 .. n - 1 PROVE S(i) .. S(i + 1) - 1 \subseteq 1 .. gsize
    <3>1. \A i \in 0 .. n - 1 : i \in Nat
      OBVIOUS
    <3> QED  BY <3>1, <1>2
  <2>1. S(0) <= S(i) /\ S(i + 1) <= S(n)
    BY <1>4
  <2> QED  BY <2>1, <1>3, <1>5, <1>6
<1>in. ASSUME NEW point \in 1 .. gsize, NEW i \in 0 .. n - 1, S(i) <= point, point < S(i + 1)
       PROVE  point \in PointSet(Part1d(gsize, n, i))
  <2>1. i \in Nat /\ S(i) \in Int /\ S(i + 1) \in Int
    BY <1>3
  <2>2. PointSet(Part1d(gsize, n, i)) = S(i) .. S(i + 1) - 1
    BY <1>2, <2>1
  <2> QED  BY <1>in, <2>1, <2>2
<1>next. \A i \in Nat : S(i + 1) = S(i) + (IF i < pts THEN q + 1 ELSE q)
  BY NextStart DEF S
<1>8. ASSUME NEW point \in 1 .. gsize
      PROVE  \E i \in 0 .. n - 1 : point \in PointSet(Part1d(gsize, n, i))
  <2>1. CASE point <= (q + 1) * pts
    <3> DEFINE i == (point - 1) \div (q + 1)
    <3>1. PICK rest \in 0 .. (q + 1) - 1 : i \in Nat /\ point - 1 = i * (q + 1) + rest
      <4>1. q + 1 \in Nat \ {0} /\ point - 1 \in Nat
        OBVIOUS
      <4> HIDE DEF i
      <4> QED  BY <4>1, Division DEF i
    <3> HIDE DEF i
    <3>2. i * (q + 1) \in Int /\ i * (q + 1) = q * i + i /\ q * i \in Int
      BY <1>1, <3>1
    <3>3. i < pts
      <4>1. SUFFICES ASSUME pts <= i PROVE FALSE
        BY <1>1, <3>1
      <4>2. (q + 1) * pts <= (q + 1) * i
        BY <4>1, <1>1, <3>1, Monotone
      <4>3. (q + 1) * i = i * (q + 1) /\ (q + 1) * pts \in Int
        BY <1>1, <3>1
      <4> QED  BY <4>2, <4>3, <3>1, <3>2, <2>1, <1>1
    <3>4. S(i) = q * i + i + 1
      BY <3>1, <3>3, <3>2 DEF S, Start
    <3>5. S(i + 1) = q * i + i + q + 2
      BY <3>1, <3>2, <3>3, <3>4, <1>next
    <3>6. S(i) <= point /\ point < S(i + 1) /\ i \in 0 .. n - 1
      BY <3>1, <3>2, <3>3, <3>4, <3>5
    <3> QED  BY <3>6, <1>in
  <2>2. CASE ~ (point <= (q + 1) * pts)
    <3> DEFINE i == (point - 1 - pts) \div q
    <3>1. (q + 1) * pts = q * pts + pts /\ q * pts \in Nat
      BY <1>1
    <3>2. q # 0
      BY <1>1, <2>2, <3>1
    <3>3. PICK rest \in 0 .. q - 1 : i \in Nat /\ point - 1 - pts = i * q + rest
      BY <1>1, <3>1, <3>2, <2>2, Division, q \in Nat \ {0}, point - 1 - pts \in Nat
    <3> HIDE DEF i
    <3>4. i * q = q * i /\ q * i \in Int /\ q * (i + 1) = q * i + q
      BY <1>1, <3>3
    <3>5. pts <= i
      <4>1. SUFFICES ASSUME i + 1 <= pts PROVE FALSE
        BY <1>1, <3>3
      <4>2. q * (i + 1) <= q * pts
        BY <4>1, <1>1, <3>3, Monotone
      <4> QED  BY <4>2, <3>1, <3>3, <3>4, <2>2, <1>1
    <3>6. i < n
      <4>1. SUFFICES ASSUME n <= i PROVE FALSE
        BY <3>3
      <4>2. q * n <= q * i /\ q * n \in Int
        BY <4>1, <1>1, <3>3, Monotone
      <4> QED  BY <4>2, <3>3, <3>4, <1>1
    <3>7. S(i) = q * i + pts + 1
      BY <3>3, <3>4, <3>5 DEF S, Start
    <3>8. S(i + 1) = q * i + q + pts + 1
      BY <3>3, <3>4, <3>5, <3>7, <1>next
    <3>9. S(i) <= point /\ point < S(i + 1) /\ i \in 0 .. n - 1
      BY <3>3, <3>4, <3>6, <3>7, <3>8
    <3> QED  BY <3>9, <1>in
  <2> QED  BY <2>1, <2>2
<1>9. ASSUME NEW i \in 0 .. n - 1, NEW j \in 0 .. n - 1, i < j
      PROVE  PointSet(Part1d(gsize, n, i)) \cap PointSet(Part1d(gsize, n, j)) = {}
  <2>1. S(i + 1) <= S(j)
    BY <1>4, <1>9
  <2>2. S(i + 1) \in Int /\ S(j) \in Int
    BY <1>3
  <2>3. /\ PointSet(Part1d(gsize, n, i)) = S(i) .. S(i + 1) - 1
        /\ PointSet(Part1d(gsize, n, j)) = S(j) .. S(j + 1) - 1
    BY <1>2
  <2> QED  BY <2>1, <2>2, <2>3
<1>10. ASSUME NEW i \in 0 .. n - 1, NEW j \in 0 .. n - 1, i # j
       PROVE  PointSet(Part1d(gsize, n, i)) \cap PointSet(Part1d(gsize, n, j)) = {}
  BY <1>10, <1>9
<1> QED  BY <1>7, <1>8, <1>10

-----------------------------------------------------------------------------
\* The test of the router is exact: segments that are not empty pass it when and
\* only when they have a point in common, so that the sender and the receiver,
\* which each make it from their own side, find each other.
THEOREM MeetsExactly ==
  ASSUME NEW mine, NEW theirs,
         mine.start \in Int, mine.length \in Nat \ {0},
         theirs.start \in Int, theirs.length \in Nat \ {0}
  PROVE  /\ Meets(mine, theirs) <=> PointSet(mine) \cap PointSet(theirs) # {}
         /\ Meets(mine, theirs) <=> Meets(theirs, mine)
<1>1. ASSUME Meets(mine, theirs)
      PROVE  PointSet(mine) \cap PointSet(theirs) # {}
  <2> DEFINE left == IF mine.start > theirs.start THEN mine.start ELSE theirs.start
  <2>1. left \in PointSet(mine) /\ left \in PointSet(theirs)
    BY <1>1 DEF Meets, PointSet
  <2> QED  BY <2>1
<1>2. ASSUME NEW point \in PointSet(mine) \cap PointSet(theirs)
      PROVE  Meets(mine, theirs)
  BY DEF Meets, PointSet
<1>3. Meets(mine, theirs) <=> Meets(theirs, mine)
  BY DEF Meets
<1> QED  BY <1>1, <1>2, <1>3


-----------------------------------------------------------------------------
(* A field from the ranks of the source to the ranks of the target *)

\* The routers of the two sides, the ranks, and the partners of a rank
Sends(l) == RoutersOf(l, "src", "dst")

Gets(l) == RoutersOf(l, "dst", "src")

PointsOf(l, c, pe) == OrderedPoints(MapOf(l[c]), pe)

PartnersOf(l, q) == Range(Gets(l)[q].pe_list)

PlacesOf(l, pe, q) == Places(Gets(l)[q].segs[pe])

Target(l, q) == Exchanged(l, "dst", Gets(l)[q], q)

CoveredBy(l) == UNION {Range(LocalPoints(l.src, pe)) : pe \in 0 .. Size(l.src) - 1}

\* What rank pe of the source sends to rank q in its n-th put
Sent(l, pe, q, n) == Message(Sends(l)[pe], PointsOf(l, "src", pe), q, n)

\* The number of messages of rank pe that a rank of the target has taken
Got(g, pe) == IF g.waiting /\ pe \notin g.from THEN g.round + 1 ELSE g.round

\* What has come is where it belongs, or in its buffer
Arrived(l, q, g) ==
  /\ DOMAIN g.buffer \subseteq PartnersOf(l, q)
  /\ \A pe \in DOMAIN g.buffer : g.buffer[pe] = Sent(l, pe, q, g.round + 1)
  /\ \A pe \in PartnersOf(l, q) \ g.from :
       IF Len(Gets(l)[q].segs[pe]) = 1
       THEN \A i \in Range(PlacesOf(l, pe, q)) : g.av[i] = Value(Target(l, q)[i], g.round + 1)
       ELSE pe \in DOMAIN g.buffer

\* What a get has brought
Filled(l, q, g) ==
  \A i \in DOMAIN PointsOf(l, "dst", q) :
    PointsOf(l, "dst", q)[i] \in CoveredBy(l) => g.av[i] = Value(PointsOf(l, "dst", q)[i], g.round)

Fields(g) == /\ DOMAIN g = {"round", "waiting", "from", "buffer", "av"}
             /\ g.round \in 0 .. Rounds /\ g.waiting \in BOOLEAN

GetSound(l, q, g) ==
  /\ Fields(g) /\ g.av = [i \in DOMAIN PointsOf(l, "dst", q) |-> g.av[i]]
  /\ g.from \subseteq PartnersOf(l, q)
  /\ g.waiting => g.from # {} /\ g.round < Rounds /\ Arrived(l, q, g)
  /\ ~g.waiting => g.from = {} /\ (g.round > 0 => Filled(l, q, g))

PutSound(l, pe, p) ==
  /\ DOMAIN p = {"round", "ireqs"}
  /\ p.round \in 0 .. Rounds /\ p.ireqs \subseteq Range(Sends(l)[pe].pe_list)

\* The messages from the n-th to the r-th put are under way
Pair(l, pe, q, w, n, r) ==
  /\ n \in 0 .. Rounds /\ r \in 0 .. Rounds /\ n <= r
  /\ w \in Seq({Sent(l, pe, q, k) : k \in 1 .. Rounds}) /\ Len(w) = r - n
  /\ \A k \in 1 .. r - n : w[k] = Sent(l, pe, q, n + k)

-----------------------------------------------------------------------------
Sides == {"src", "dst"}

Other(c) == IF c = "src" THEN "dst" ELSE "src"

Made ==
  /\ layout = <<>> => gsmap = <<>>
  /\ layout # <<>> => layout \in Layouts
  /\ DOMAIN gsmap \subseteq Sides
  /\ \A c \in DOMAIN gsmap : gsmap[c] = MapOf(layout[c])
  /\ DOMAIN routers \subseteq Sides
  /\ DOMAIN routers # {} => DOMAIN gsmap = Sides
  /\ \A c \in DOMAIN routers : routers[c] = RoutersOf(layout, c, Other(c))

GotOf(pe, q) == IF "dst" \in DOMAIN routers THEN Got(get[q], pe) ELSE 0

PutOf(pe) == IF "src" \in DOMAIN routers THEN put[pe].round ELSE 0

WireOf(pe, q) == IF "src" \in DOMAIN routers THEN wire[<<pe, q>>] ELSE <<>>

Shapes ==
  /\ DOMAIN put = IF "src" \in DOMAIN routers THEN Ranks("src") ELSE {}
  /\ DOMAIN wire = IF "src" \in DOMAIN routers THEN Ranks("src") \X Ranks("dst") ELSE {}
  /\ DOMAIN get = IF "dst" \in DOMAIN routers THEN Ranks("dst") ELSE {}

Pairs ==
  \A pe \in Ranks("src"), q \in Ranks("dst") :
    IF pe \in PartnersOf(layout, q)
    THEN Pair(layout, pe, q, WireOf(pe, q), GotOf(pe, q), PutOf(pe))
    ELSE WireOf(pe, q) = <<>>

Pending == \A pe \in DOMAIN put : \A q \in put[pe].ireqs : GotOf(pe, q) < put[pe].round

\* The inductive invariant: the messages under way between two partners are those
\* of the puts that the target has not got yet, and of a get that waits what has
\* come is in its place or in its buffer.
RouteInv ==
  /\ halt # "length"
  /\ Made /\ Shapes
  /\ \A pe \in DOMAIN put : PutSound(layout, pe, put[pe])
  /\ \A q \in DOMAIN get : GetSound(layout, q, get[q])
  /\ DOMAIN routers # {} => Pairs
  /\ Pending

-----------------------------------------------------------------------------
(* Sequences *)

LEMMA SeqFacts ==
  ASSUME NEW T, NEW s \in Seq(T)
  PROVE  /\ Len(s) \in Nat /\ DOMAIN s = 1 .. Len(s)
         /\ \A i \in 1 .. Len(s) : s[i] \in T /\ s[i] \in Range(s)
         /\ \A x : x \in Range(s) <=> \E i \in 1 .. Len(s) : s[i] = x
<1>1. Len(s) \in Nat /\ DOMAIN s = 1 .. Len(s) /\ \A i \in 1 .. Len(s) : s[i] \in T
  OBVIOUS
<1>2. Range(s) = {s[i] : i \in 1 .. Len(s)}
  BY <1>1 DEF Range
<1> QED
  BY <1>1, <1>2

\* A function on 1 .. n is a sequence of length n.
LEMMA FunctionLen ==
  ASSUME NEW n \in Nat, NEW f, f = [k \in 1 .. n |-> f[k]]
  PROVE  Len(f) = n /\ f \in Seq({f[k] : k \in 1 .. n})
<1>1. f \in [1 .. n -> {f[k] : k \in 1 .. n}]
  OBVIOUS
<1>2. f \in Seq({f[k] : k \in 1 .. n})
  BY <1>1
<1>3. Len(f) \in Nat /\ DOMAIN f = 1 .. Len(f) /\ DOMAIN f = 1 .. n
  BY <1>1, <1>2
<1> QED
  BY <1>2, <1>3

-----------------------------------------------------------------------------
(* What the routers of two decompositions give *)

LEMMA RoutableFacts ==
  ASSUME NEW l, Routable(l)
  PROVE  /\ l # <<>>
         /\ \A pe \in DOMAIN Sends(l) :
              Sends(l)[pe].pe_list \in Seq(DOMAIN Gets(l)) /\ Range(Sends(l)[pe].pe_list) \subseteq DOMAIN Gets(l)
         /\ \A q \in DOMAIN Gets(l) :
              /\ Gets(l)[q].pe_list \in Seq(DOMAIN Sends(l)) /\ PartnersOf(l, q) \subseteq DOMAIN Sends(l)
              /\ PointsOf(l, "dst", q) = LocalPoints(l.dst, q)
         /\ \A pe \in DOMAIN Sends(l), q \in DOMAIN Gets(l) :
              q \in Range(Sends(l)[pe].pe_list) <=> pe \in PartnersOf(l, q)
<1>1. DOMAIN l = {"src", "dst"}
  BY DEF Routable
<1>2. l # <<>>
  <2>1. DOMAIN <<>> = {}
    OBVIOUS
  <2> QED
    BY <1>1, <2>1
<1>3. \A pe \in DOMAIN Sends(l) : Sends(l)[pe].pe_list \in Seq(DOMAIN Gets(l))
  BY DEF Routable, Fit, Sends, Gets
<1>4. \A q \in DOMAIN Gets(l) : /\ Gets(l)[q].pe_list \in Seq(DOMAIN Sends(l))
                             /\ PointsOf(l, "dst", q) = LocalPoints(l.dst, q)
  BY DEF Routable, Fit, Sends, Gets, PointsOf
<1>5. \A pe \in DOMAIN Sends(l), q \in DOMAIN Gets(l) : SameExchange(l, Sends(l), Gets(l), pe, q)
  BY DEF Routable, Fit, Sends, Gets
<1>6. \A pe \in DOMAIN Sends(l), q \in DOMAIN Gets(l) :
        q \in Range(Sends(l)[pe].pe_list) <=> pe \in PartnersOf(l, q)
  BY <1>5 DEF SameExchange, PartnersOf
<1>7. ASSUME NEW T, NEW s \in Seq(T) PROVE Range(s) \subseteq T
  BY SeqFacts
<1>8. /\ \A pe \in DOMAIN Sends(l) : Range(Sends(l)[pe].pe_list) \subseteq DOMAIN Gets(l)
      /\ \A q \in DOMAIN Gets(l) : PartnersOf(l, q) \subseteq DOMAIN Sends(l)
  BY <1>3, <1>4, <1>7 DEF PartnersOf
<1> QED
  BY <1>2, <1>3, <1>4, <1>6, <1>8

\* Two partners
Partners(l, pe, q) == pe \in DOMAIN Sends(l) /\ q \in DOMAIN Gets(l) /\ pe \in PartnersOf(l, q)

LEMMA PartnerFacts ==
  ASSUME NEW l, Routable(l), NEW pe, NEW q, Partners(l, pe, q)
  PROVE  LET a == Places(Sends(l)[pe].segs[q])
             b == PlacesOf(l, pe, q)
         IN  /\ a \in Seq(Nat) /\ b \in Seq(Nat) /\ Len(a) = Len(b)
             /\ Range(a) \subseteq DOMAIN PointsOf(l, "src", pe)
             /\ Range(b) \subseteq DOMAIN PointsOf(l, "dst", q)
             /\ Len(Gets(l)[q].segs[pe]) \in Nat \ {0}
             /\ \A k \in DOMAIN b : Exchanged(l, "src", Sends(l)[pe], pe)[a[k]] = Target(l, q)[b[k]]
             /\ Reorders(Sends(l)[pe], DOMAIN PointsOf(l, "src", pe))
<1>1. SameExchange(l, Sends(l), Gets(l), pe, q) /\ Reorders(Sends(l)[pe], DOMAIN PointsOf(l, "src", pe))
  BY DEF Routable, Fit, Sends, Gets, Partners, PointsOf
<1>2. q \in Range(Sends(l)[pe].pe_list)
  BY <1>1 DEF SameExchange, Partners, PartnersOf
<1> QED
  BY <1>1, <1>2 DEF SameExchange, PlacesOf, Target, PointsOf

LEMMA InOrderValues ==
  ASSUME NEW rout, NEW P, Reorders(rout, DOMAIN P), NEW n
  PROVE  LET F == [i \in DOMAIN P |-> Value(P[i], n)]
         IN  /\ DOMAIN InOrder(rout, P) = DOMAIN P
             /\ \A i \in DOMAIN P : InOrder(rout, F)[i] = Value(InOrder(rout, P)[i], n)
<1> DEFINE F == [i \in DOMAIN P |-> Value(P[i], n)]
<1>1. DOMAIN F = DOMAIN P /\ \A i \in DOMAIN P : F[i] = Value(P[i], n)
  OBVIOUS
<1> HIDE DEF F
<1>2. CASE rout.permarr = <<>>
  BY <1>1, <1>2 DEF InOrder, F
<1>3. CASE rout.permarr # <<>>
  <2>1. \A i \in DOMAIN P : rout.permarr[i] \in DOMAIN P
    BY <1>3 DEF Reorders, Range
  <2>2. /\ DOMAIN InOrder(rout, P) = DOMAIN P
        /\ \A i \in DOMAIN P : InOrder(rout, P)[i] = P[rout.permarr[i]]
    BY <1>3 DEF InOrder, Permute
  <2>3. \A i \in DOMAIN P : InOrder(rout, F)[i] = F[rout.permarr[i]]
    BY <1>1, <1>3 DEF InOrder, Permute
  <2>4. \A i \in DOMAIN P : InOrder(rout, F)[i] = Value(InOrder(rout, P)[i], n)
    BY <1>1, <2>1, <2>2, <2>3
  <2> QED
    BY <2>2, <2>4 DEF F
<1> QED
  BY <1>2, <1>3

\* A message of a partner has the values of the points at their places.
LEMMA SentValues ==
  ASSUME NEW l, Routable(l), NEW pe, NEW q, Partners(l, pe, q), NEW n
  PROVE  LET b == PlacesOf(l, pe, q)
             data == Sent(l, pe, q, n)
         IN  /\ DOMAIN data = DOMAIN b /\ Len(data) = Len(b)
             /\ \A k \in DOMAIN b : data[k] = Value(Target(l, q)[b[k]], n)
<1> DEFINE a == Places(Sends(l)[pe].segs[q])
           b == PlacesOf(l, pe, q)
           P == PointsOf(l, "src", pe)
           rout == Sends(l)[pe]
           F == [i \in DOMAIN P |-> Value(P[i], n)]
           av == InOrder(rout, F)
           data == Sent(l, pe, q, n)
<1>1. /\ a \in Seq(Nat) /\ b \in Seq(Nat) /\ Len(a) = Len(b)
      /\ Range(a) \subseteq DOMAIN P /\ Reorders(rout, DOMAIN P)
      /\ \A k \in DOMAIN b : InOrder(rout, P)[a[k]] = Target(l, q)[b[k]]
  BY PartnerFacts DEF Exchanged, PointsOf
<1>2. \A i \in DOMAIN P : av[i] = Value(InOrder(rout, P)[i], n)
  BY <1>1, InOrderValues
<1>3. data = [k \in DOMAIN a |-> av[a[k]]]
  BY DEF Sent, Message
<1> HIDE DEF data, av, rout, P, a, b
<1>4. /\ DOMAIN a = 1 .. Len(a) /\ Len(a) \in Nat /\ DOMAIN b = DOMAIN a
      /\ \A k \in DOMAIN a : a[k] \in DOMAIN P
  <2>1. DOMAIN a = 1 .. Len(a) /\ Len(a) \in Nat /\ DOMAIN b = 1 .. Len(b)
    BY <1>1, SeqFacts
  <2> QED
    BY <1>1, <2>1 DEF Range
<1>5. DOMAIN data = DOMAIN a /\ \A k \in DOMAIN a : data[k] = av[a[k]]
  BY <1>3
<1>6. Len(data) = Len(b)
  <2>1. data = [k \in 1 .. Len(a) |-> data[k]]
    BY <1>3, <1>4, <1>5, Zenon
  <2> QED
    BY <2>1, <1>1, <1>4, FunctionLen
<1>7. \A k \in DOMAIN b : data[k] = Value(Target(l, q)[b[k]], n)
  BY <1>1, <1>2, <1>4, <1>5
<1> QED
  BY <1>4, <1>5, <1>6, <1>7 DEF data, b

LEMMA PlacedValues ==
  ASSUME NEW l, Routable(l), NEW pe, NEW q, Partners(l, pe, q), NEW n, NEW av
  PROVE  LET b == PlacesOf(l, pe, q)
             new == Placed(av, b, Sent(l, pe, q, n))
         IN  /\ DOMAIN new = DOMAIN av
             /\ \A i \in DOMAIN av : new[i] = IF i \in Range(b) THEN Value(Target(l, q)[i], n)
                                              ELSE av[i]
<1> DEFINE b == PlacesOf(l, pe, q)
           data == Sent(l, pe, q, n)
<1>1. \A k \in DOMAIN b : data[k] = Value(Target(l, q)[b[k]], n)
  BY SentValues
<1> HIDE DEF b, data
<1>2. ASSUME NEW i \in Range(b)
      PROVE  data[CHOOSE k \in DOMAIN b : b[k] = i] = Value(Target(l, q)[i], n)
  <2> DEFINE k == CHOOSE k \in DOMAIN b : b[k] = i
  <2>1. \E j \in DOMAIN b : b[j] = i
    BY DEF Range
  <2>2. k \in DOMAIN b /\ b[k] = i
    BY <2>1
  <2> HIDE DEF k
  <2>3. data[k] = Value(Target(l, q)[i], n)
    BY <2>2, <1>1
  <2> QED
    BY <2>3 DEF k
<1>3. /\ DOMAIN Placed(av, b, data) = DOMAIN av
      /\ \A i \in DOMAIN av : Placed(av, b, data)[i]
           = IF i \in Range(b) THEN data[CHOOSE k \in DOMAIN b : b[k] = i] ELSE av[i]
  BY DEF Placed
<1> QED
  BY <1>2, <1>3 DEF b, data

LEMMA FromBufferValues ==
  ASSUME NEW l, Routable(l), NEW pe, NEW q, Partners(l, pe, q), NEW g, NEW av, NEW I,
         Arrived(l, q, g), av = [i \in I |-> av[i]]
  PROVE  LET new == FromBuffer(Gets(l)[q], g, pe, av)
             b == PlacesOf(l, pe, q)
         IN  /\ new = [i \in I |-> new[i]]
             /\ \A i \in I : new[i] = IF pe \in DOMAIN g.buffer /\ i \in Range(b)
                                      THEN Value(Target(l, q)[i], g.round + 1) ELSE av[i]
<1> DEFINE new == FromBuffer(Gets(l)[q], g, pe, av)
           b == PlacesOf(l, pe, q)
<1>1. DOMAIN av = I
  OBVIOUS
<1>2. CASE pe \in DOMAIN g.buffer
  <2>1. new = Placed(av, b, Sent(l, pe, q, g.round + 1))
    BY <1>2 DEF FromBuffer, Arrived, PlacesOf
  <2>2. \A i \in I : new[i] = IF i \in Range(b) THEN Value(Target(l, q)[i], g.round + 1) ELSE av[i]
    BY <1>1, <2>1, PlacedValues
  <2>3. new = [i \in I |-> new[i]]
    BY <1>1, <2>1 DEF Placed
  <2> QED
    BY <1>2, <2>2, <2>3
<1>3. CASE pe \notin DOMAIN g.buffer
  BY <1>3 DEF FromBuffer
<1> QED
  BY <1>2, <1>3

\* The buffers of the partners are loaded one after the other.
LEMMA LoadedArray ==
  ASSUME NEW l, Routable(l), NEW q \in DOMAIN Gets(l), NEW g, NEW I,
         Arrived(l, q, g), g.av = [i \in I |-> g.av[i]]
  PROVE  \E f : /\ f = [i \in I |-> f[i]] /\ Loaded(Gets(l)[q], g) = Unpermuted(Gets(l)[q], f)
                /\ \A pe \in PartnersOf(l, q) : \A i \in I :
                     \/ pe \in DOMAIN g.buffer /\ i \in Range(PlacesOf(l, pe, q))
                     \/ g.av[i] = Value(Target(l, q)[i], g.round + 1)
                     => f[i] = Value(Target(l, q)[i], g.round + 1)
<1> DEFINE rout == Gets(l)[q]
           list == rout.pe_list
           n == Len(list)
           r == g.round + 1
           X == Target(l, q)
           V == {g.av[i] : i \in I} \cup {Value(X[i], r) : i \in I}
           Into(m, i) == \E j \in 1 .. m : /\ list[j] \in DOMAIN g.buffer
                                           /\ i \in Range(PlacesOf(l, list[j], q))
           Right(m) == {f \in [I -> V] : \A i \in I :
                          Into(m, i) \/ g.av[i] = Value(X[i], r) => f[i] = Value(X[i], r)}
           G == [m \in 0 .. n |-> Right(m)]
           step == [z \in (1 .. n) \X [I -> V] |-> FromBuffer(rout, g, list[z[1]], z[2])]
           loaded[m \in 0 .. Len(rout.pe_list)] ==
             IF m = 0 THEN g.av ELSE FromBuffer(rout, g, rout.pe_list[m], loaded[m - 1])
           IsLoaded(f) == f = [m \in 0 .. n |-> IF m = 0 THEN g.av ELSE FromBuffer(rout, g, list[m], f[m - 1])]
<1>1. /\ n \in Nat /\ \A x : x \in PartnersOf(l, q) <=> \E j \in 1 .. n : list[j] = x
      /\ \A j \in 1 .. n : Partners(l, list[j], q)
  <2>1. list \in Seq(DOMAIN Sends(l))
    BY RoutableFacts
  <2> QED
    BY <2>1, SeqFacts DEF PartnersOf, Partners
<1>2. g.av \in [I -> V]
  OBVIOUS
<1>3. ASSUME NEW m \in 1 .. n, NEW f \in Right(m - 1)
      PROVE  FromBuffer(rout, g, list[m], f) \in Right(m)
  <2> DEFINE new == FromBuffer(rout, g, list[m], f)
             pe == list[m]
             b == PlacesOf(l, pe, q)
  <2>1. f \in [I -> V] /\ f = [i \in I |-> f[i]]
    OBVIOUS
  <2>2. /\ new = [i \in I |-> new[i]]
        /\ \A i \in I : new[i] = IF pe \in DOMAIN g.buffer /\ i \in Range(b)
                                 THEN Value(X[i], r) ELSE f[i]
    BY <1>1, <2>1, FromBufferValues
  <2>3. \A i \in I : Into(m - 1, i) \/ g.av[i] = Value(X[i], r) => f[i] = Value(X[i], r)
    OBVIOUS
  <2>4. \A i : Into(m, i) => Into(m - 1, i) \/ (pe \in DOMAIN g.buffer /\ i \in Range(b))
    <3> SUFFICES ASSUME NEW i, NEW j \in 1 .. m, list[j] \in DOMAIN g.buffer,
                        i \in Range(PlacesOf(l, list[j], q)), j # m
                 PROVE  Into(m - 1, i)
      OBVIOUS
    <3>1. j \in 1 .. m - 1
      OBVIOUS
    <3> QED
      BY <3>1
  <2> HIDE DEF new, b, X, r, Into, pe
  <2>5. \A i \in I : new[i] \in V
    <3>1. \A i \in I : f[i] \in V /\ Value(X[i], r) \in V
      BY <2>1
    <3> QED
      BY <2>2, <3>1
  <2>6. \A i \in I : Into(m, i) \/ g.av[i] = Value(X[i], r) => new[i] = Value(X[i], r)
    BY <2>2, <2>3, <2>4
  <2>7. new \in [I -> V]
    BY <2>2, <2>5
  <2> QED
    BY <2>6, <2>7 DEF new
<1>4. \A m \in 0 .. n : G[m] = Right(m)
  OBVIOUS
<1>5. g.av \in Right(0)
  BY <1>2
<1>6. \A m \in 1 .. n : \A x \in [I -> V] : step[<<m, x>>] = FromBuffer(rout, g, list[m], x)
  OBVIOUS
<1>7. \A m : Right(m) \subseteq [I -> V]
  OBVIOUS
<1>i. \A m \in 1 .. n : m \in 0 .. n /\ m - 1 \in 0 .. n /\ m # 0
  BY <1>1
<1>m. \A m \in 0 .. n - 1 : m + 1 \in 1 .. n /\ m + 1 \in 0 .. n /\ (m + 1) - 1 = m
  BY <1>1
<1>z. 0 \in 0 .. n /\ n \in 0 .. n
  BY <1>1
<1>8. \A f \in Right(n) : \A pe \in PartnersOf(l, q) : \A i \in I :
        \/ pe \in DOMAIN g.buffer /\ i \in Range(PlacesOf(l, pe, q))
        \/ g.av[i] = Value(X[i], r)
        => f[i] = Value(X[i], r)
  BY <1>1
<1>l. Loaded(rout, g) = Unpermuted(rout, loaded[n])
  BY DEF Loaded
<1> HIDE DEF G, step, Right
<1>9. Leads(n, g.av, step, G)
  <2>1. ASSUME NEW m \in 1 .. n, NEW x \in G[m - 1] PROVE step[<<m, x>>] \in G[m]
    <3>1. x \in Right(m - 1) /\ G[m] = Right(m)
      BY <1>4, <1>i
    <3> QED
      BY <3>1, <1>3, <1>6, <1>7
  <2> QED
    BY <2>1, <1>1, <1>4, <1>5, <1>z DEF Leads
<1>10. PICK f : Recursion(n, g.av, step, f) /\ \A m \in 0 .. n : f[m] \in G[m]
  BY <1>9, RecursionExists
<1>11. IsLoaded(f)
  <2>1. f = [m \in 0 .. n |-> IF m = 0 THEN g.av ELSE step[<<m, f[m - 1]>>]]
    BY <1>10 DEF Recursion
  <2>2. \A m \in 0 .. n : m # 0 => m \in 1 .. n /\ m - 1 \in 0 .. n
    BY <1>1
  <2>3. \A m \in 0 .. n : m # 0 => step[<<m, f[m - 1]>>] = FromBuffer(rout, g, list[m], f[m - 1])
    BY <2>2, <1>4, <1>6, <1>7, <1>10
  <2>4. \A m \in 0 .. n : f[m] = IF m = 0 THEN g.av ELSE FromBuffer(rout, g, list[m], f[m - 1])
    BY <2>1, <2>3, Zenon
  <2>5. f = [m \in 0 .. n |-> f[m]]
    BY <2>1, Zenon
  <2> QED
    BY <2>4, <2>5, Zenon
<1>12. IsLoaded(loaded)
  BY <1>11, Zenon
<1> HIDE DEF loaded
<1> DEFINE T == {m \in 0 .. n : loaded[m] \in Right(m)}
<1>13. 0 \in T
  BY <1>12, <1>5, <1>z
<1>14. \A m \in 0 .. n - 1 : m \in T => m + 1 \in T
  <2> TAKE m \in 0 .. n - 1
  <2> HAVE m \in T
  <2>1. loaded[m] \in Right((m + 1) - 1) /\ m + 1 \in 1 .. n /\ m + 1 \in 0 .. n /\ m + 1 # 0
    BY <1>m
  <2>2. loaded[m + 1] = FromBuffer(rout, g, list[m + 1], loaded[m])
    BY <2>1, <1>12, <1>m
  <2>3. loaded[m + 1] \in Right(m + 1)
    BY <2>1, <2>2, <1>3
  <2> QED
    BY <2>1, <2>3
<1> HIDE DEF T
<1>15. loaded[n] \in Right(n)
  <2>1. 0 .. n \subseteq T
    BY <1>1, <1>13, <1>14, BoundedInduction
  <2> QED
    BY <2>1, <1>z DEF T
<1>16. loaded[n] = [i \in I |-> loaded[n][i]]
  BY <1>15, <1>7
<1> QED
  BY <1>15, <1>16, <1>8, <1>l

\* When all has come, the array that a get leaves has the points of the source.
LEMMA LoadedValues ==
  ASSUME NEW l, Routable(l), NEW q \in DOMAIN Gets(l), NEW g, Arrived(l, q, g), g.from = {},
         g.av = [i \in DOMAIN PointsOf(l, "dst", q) |-> g.av[i]]
  PROVE  LET P == PointsOf(l, "dst", q)
             new == Loaded(Gets(l)[q], g)
         IN  /\ new = [i \in DOMAIN P |-> new[i]]
             /\ \A i \in DOMAIN P : P[i] \in CoveredBy(l) => new[i] = Value(P[i], g.round + 1)
<1> DEFINE P == PointsOf(l, "dst", q)
           I == DOMAIN P
           X == Target(l, q)
           r == g.round + 1
           rout == Gets(l)[q]
           new == Loaded(rout, g)
<1>1. PICK f : /\ f = [i \in I |-> f[i]] /\ new = Unpermuted(rout, f)
               /\ \A pe \in PartnersOf(l, q) : \A i \in I :
                    \/ pe \in DOMAIN g.buffer /\ i \in Range(PlacesOf(l, pe, q))
                    \/ g.av[i] = Value(X[i], r)
                    => f[i] = Value(X[i], r)
  BY LoadedArray
<1>2. /\ Reorders(rout, I) /\ AllReached(l, Gets(l), q) /\ X = InOrder(rout, P)
  <2>1. /\ Reorders(rout, DOMAIN LocalPoints(l.dst, q)) /\ AllReached(l, Gets(l), q)
        /\ OrderedPoints(MapOf(l.dst), q) = LocalPoints(l.dst, q)
    BY DEF Routable, Fit, Gets
  <2> QED
    BY <2>1 DEF PointsOf, Target, Exchanged
<1>3. DOMAIN X = I
  BY <1>2, InOrderValues
<1>4. ASSUME NEW i \in I, X[i] \in CoveredBy(l)
      PROVE  f[i] = Value(X[i], r)
  <2>1. PICK pe \in PartnersOf(l, q) : i \in Range(PlacesOf(l, pe, q))
    BY <1>2, <1>3, <1>4 DEF AllReached, CoveredBy, PartnersOf, PlacesOf, Target
  <2>2. pe \in DOMAIN g.buffer \/ g.av[i] = Value(X[i], r)
    BY <2>1 DEF Arrived
  <2> QED
    BY <1>1, <2>1, <2>2
<1> HIDE DEF new, P, I, X, rout
<1>5. CASE rout.permarr = <<>>
  <2>1. X = P /\ new = f
    BY <1>1, <1>2, <1>5 DEF InOrder, Unpermuted
  <2> QED
    BY <1>1, <1>4, <2>1 DEF new, P, I, rout
<1>6. CASE rout.permarr # <<>>
  <2> DEFINE j(i) == CHOOSE j \in DOMAIN rout.permarr : rout.permarr[j] = i
  <2>1. DOMAIN rout.permarr = I /\ Range(rout.permarr) = I
    BY <1>2, <1>6 DEF Reorders
  <2>2. \A i \in I : j(i) \in I /\ rout.permarr[j(i)] = i
    BY <2>1 DEF Range
  <2>3. new = [i \in I |-> f[j(i)]]
    BY <1>1, <1>6 DEF Unpermuted, Unpermute
  <2> HIDE DEF j
  <2>4. \A i \in I : X[j(i)] = P[i]
    BY <1>2, <1>6, <2>2 DEF InOrder, Permute, I
  <2>5. \A i \in I : P[i] \in CoveredBy(l) => new[i] = Value(P[i], r)
    BY <1>4, <2>2, <2>3, <2>4
  <2>6. new = [i \in I |-> new[i]]
    BY <2>3
  <2> QED
    BY <2>5, <2>6 DEF new, P, I, rout
<1> QED
  BY <1>5, <1>6

-----------------------------------------------------------------------------
(* The steps of a rank of the target *)

\* A rank without partners has no point that the source has.
LEMMA NothingCovered ==
  ASSUME NEW l, Routable(l), NEW q \in DOMAIN Gets(l), PartnersOf(l, q) = {}
  PROVE  \A i \in DOMAIN PointsOf(l, "dst", q) : PointsOf(l, "dst", q)[i] \notin CoveredBy(l)
<1> DEFINE P == PointsOf(l, "dst", q)
           X == Target(l, q)
           rout == Gets(l)[q]
<1>1. /\ Reorders(rout, DOMAIN P) /\ AllReached(l, Gets(l), q) /\ X = InOrder(rout, P)
  <2>1. /\ Reorders(rout, DOMAIN LocalPoints(l.dst, q)) /\ AllReached(l, Gets(l), q)
        /\ OrderedPoints(MapOf(l.dst), q) = LocalPoints(l.dst, q)
    BY DEF Routable, Fit, Gets
  <2> QED
    BY <2>1 DEF PointsOf, Target, Exchanged
<1>2. DOMAIN X = DOMAIN P
  BY <1>1, InOrderValues
<1>3. \A i \in DOMAIN P : X[i] \notin CoveredBy(l)
  BY <1>1, <1>2 DEF AllReached, CoveredBy, PartnersOf, Target
<1> HIDE DEF P, X, rout
<1>4. ASSUME NEW i \in DOMAIN P PROVE \E j \in DOMAIN P : X[j] = P[i]
  <2>1. CASE rout.permarr = <<>>
    BY <1>1, <2>1 DEF InOrder
  <2>2. CASE rout.permarr # <<>>
    <3>1. PICK j \in DOMAIN P : rout.permarr[j] = i
      BY <1>1, <2>2 DEF Reorders, Range
    <3>2. X[j] = P[i]
      BY <1>1, <2>2, <3>1 DEF InOrder, Permute
    <3> QED
      BY <3>2
  <2> QED
    BY <2>1, <2>2
<1> QED
  BY <1>3, <1>4 DEF P

\* The beginning of a get
LEMMA PostedSound ==
  ASSUME RoundsAssumption, NEW l, Routable(l), NEW q \in DOMAIN Gets(l), NEW g,
         GetSound(l, q, g), ~g.waiting, g.round < Rounds
  PROVE  LET new == Posted(Gets(l)[q], g)
         IN  GetSound(l, q, new) /\ \A pe \in PartnersOf(l, q) : Got(new, pe) = Got(g, pe)
<1> DEFINE new == Posted(Gets(l)[q], g)
<1>1. /\ Fields(g) /\ g.from = {} /\ g.round \in 0 .. Rounds
      /\ g.av = [i \in DOMAIN PointsOf(l, "dst", q) |-> g.av[i]]
  BY DEF GetSound, Fields
<1>2. CASE PartnersOf(l, q) = {}
  <2>1. new = [g EXCEPT !.round = @ + 1]
    BY <1>2 DEF Posted, PartnersOf
  <2>2. /\ DOMAIN new = DOMAIN g /\ new.round = g.round + 1 /\ new.waiting = g.waiting
        /\ new.from = g.from /\ new.av = g.av
    BY <2>1, <1>1 DEF Fields
  <2> HIDE DEF new
  <2>3. Fields(new)
    BY <2>2, <1>1, RoundsAssumption DEF Fields
  <2>4. Filled(l, q, new)
    BY <1>2, NothingCovered DEF Filled
  <2>5. GetSound(l, q, new)
    BY <1>1, <2>2, <2>3, <2>4 DEF GetSound
  <2> QED
    BY <1>2, <2>5 DEF new
<1>3. CASE PartnersOf(l, q) # {}
  <2>1. new = [g EXCEPT !.waiting = TRUE, !.from = PartnersOf(l, q), !.buffer = <<>>]
    BY <1>3 DEF Posted, PartnersOf
  <2>2. /\ DOMAIN new = DOMAIN g /\ new.round = g.round /\ new.waiting = TRUE
        /\ new.from = PartnersOf(l, q) /\ new.av = g.av /\ new.buffer = <<>>
    BY <2>1, <1>1 DEF Fields
  <2> HIDE DEF new
  <2>3. Fields(new)
    BY <2>2, <1>1 DEF Fields
  <2>4. Arrived(l, q, new)
    <3>1. DOMAIN new.buffer = {}
      BY <2>2
    <3>2. PartnersOf(l, q) \ new.from = {}
      BY <2>2
    <3> QED
      BY <3>1, <3>2 DEF Arrived
  <2>5. GetSound(l, q, new)
    BY <1>1, <1>3, <2>2, <2>3, <2>4 DEF GetSound
  <2>6. \A pe \in PartnersOf(l, q) : Got(new, pe) = Got(g, pe)
    BY <2>2 DEF Got
  <2> QED
    BY <2>5, <2>6 DEF new
<1> QED
  BY <1>2, <1>3

\* A message has been taken.
LEMMA TakenSound ==
  ASSUME NEW l, Routable(l), NEW q \in DOMAIN Gets(l), NEW g, NEW pe,
         GetSound(l, q, g), pe \in g.from
  PROVE  LET new == Taken(Gets(l)[q], g, pe, Sent(l, pe, q, g.round + 1))
         IN  /\ Fields(new) /\ new.round = g.round /\ new.waiting /\ g.waiting
             /\ new.from = g.from \ {pe} /\ g.round < Rounds
             /\ new.av = [i \in DOMAIN PointsOf(l, "dst", q) |-> new.av[i]]
             /\ Arrived(l, q, new)
<1> DEFINE rout == Gets(l)[q]
           b == PlacesOf(l, pe, q)
           I == DOMAIN PointsOf(l, "dst", q)
           data == Sent(l, pe, q, g.round + 1)
           av == IF Len(rout.segs[pe]) = 1 THEN Placed(g.av, b, data) ELSE g.av
           buffer == IF Len(rout.segs[pe]) > 1 THEN Extended(g.buffer, pe, data) ELSE g.buffer
           new == Taken(rout, g, pe, data)
<1>1. /\ Fields(g) /\ g.waiting /\ g.round < Rounds /\ Arrived(l, q, g)
      /\ g.from \subseteq PartnersOf(l, q) /\ g.av = [i \in I |-> g.av[i]]
  BY DEF GetSound
<1>2. Partners(l, pe, q)
  <2>1. PartnersOf(l, q) \subseteq DOMAIN Sends(l)
    BY RoutableFacts
  <2> QED
    BY <1>1, <2>1 DEF Partners
<1>3. Len(rout.segs[pe]) \in Nat \ {0} /\ Range(b) \subseteq I
  BY <1>2, PartnerFacts
<1>4. /\ DOMAIN Placed(g.av, b, data) = DOMAIN g.av
      /\ \A i \in DOMAIN g.av : Placed(g.av, b, data)[i]
           = IF i \in Range(b) THEN Value(Target(l, q)[i], g.round + 1) ELSE g.av[i]
  BY <1>2, PlacedValues
<1>5. new = [g EXCEPT !.from = @ \ {pe}, !.av = av, !.buffer = buffer]
  BY <1>1 DEF Taken, PlacesOf, Fields
<1> HIDE DEF data, b, I, av, buffer
<1>6. /\ DOMAIN new = DOMAIN g /\ new.round = g.round /\ new.waiting = g.waiting
      /\ new.from = g.from \ {pe} /\ new.av = av /\ new.buffer = buffer
  <2> HIDE DEF new
  <2> QED
    BY <1>1, <1>5 DEF Fields
<1> HIDE DEF new
<1>7. Fields(new)
  BY <1>1, <1>6 DEF Fields
<1>8. av = [i \in I |-> av[i]]
  <2>1. DOMAIN g.av = I
    BY <1>1
  <2>2. Placed(g.av, b, data) = [i \in I |-> Placed(g.av, b, data)[i]]
    BY <2>1 DEF Placed
  <2> QED
    BY <1>1, <2>2 DEF av
<1>9. \A i \in I : av[i] = g.av[i] \/ av[i] = Value(Target(l, q)[i], g.round + 1)
  BY <1>1, <1>4 DEF av
<1>10. Len(rout.segs[pe]) = 1 => \A i \in Range(b) : av[i] = Value(Target(l, q)[i], g.round + 1)
  BY <1>1, <1>3, <1>4 DEF av
<1>11. /\ DOMAIN g.buffer \subseteq DOMAIN buffer /\ DOMAIN buffer \subseteq DOMAIN g.buffer \cup {pe}
       /\ Len(rout.segs[pe]) # 1 => pe \in DOMAIN buffer
       /\ \A r \in DOMAIN buffer : buffer[r] = Sent(l, r, q, g.round + 1)
  <2>1. \A r \in DOMAIN g.buffer : g.buffer[r] = Sent(l, r, q, g.round + 1)
    BY <1>1 DEF Arrived
  <2>2. CASE Len(rout.segs[pe]) > 1
    <3>1. buffer = Extended(g.buffer, pe, data)
      BY <2>2 DEF buffer
    <3>2. DOMAIN buffer = DOMAIN g.buffer \cup {pe}
          /\ \A r \in DOMAIN buffer : buffer[r] = IF r = pe THEN data ELSE g.buffer[r]
      BY <3>1 DEF Extended
    <3> QED
      BY <2>1, <3>2 DEF data
  <2>3. CASE ~ (Len(rout.segs[pe]) > 1)
    <3>1. buffer = g.buffer
      BY <2>3 DEF buffer
    <3>2. \A n \in Nat \ {0} : ~ (n > 1) => n = 1
      OBVIOUS
    <3>3. Len(rout.segs[pe]) = 1
      BY <1>3, <2>3, <3>2
    <3> QED
      BY <2>1, <3>1, <3>3
  <2> QED
    BY <2>2, <2>3
<1>12. Arrived(l, q, new)
  <2>1. DOMAIN new.buffer \subseteq PartnersOf(l, q)
    BY <1>1, <1>6, <1>11 DEF Arrived
  <2>2. \A r \in DOMAIN new.buffer : new.buffer[r] = Sent(l, r, q, new.round + 1)
    BY <1>6, <1>11
  <2>3. ASSUME NEW r \in PartnersOf(l, q) \ new.from
        PROVE  IF Len(Gets(l)[q].segs[r]) = 1
               THEN \A i \in Range(PlacesOf(l, r, q)) : new.av[i] = Value(Target(l, q)[i], new.round + 1)
               ELSE r \in DOMAIN new.buffer
    <3>1. CASE r = pe
      BY <1>6, <1>10, <1>11, <3>1 DEF b
    <3>2. CASE r # pe
      <4>1. r \in PartnersOf(l, q) \ g.from
        BY <1>6, <3>2
      <4>2. IF Len(Gets(l)[q].segs[r]) = 1
            THEN \A i \in Range(PlacesOf(l, r, q)) : g.av[i] = Value(Target(l, q)[i], g.round + 1)
            ELSE r \in DOMAIN g.buffer
        BY <1>1, <4>1 DEF Arrived
      <4>3. Range(PlacesOf(l, r, q)) \subseteq I
        <5>1. Partners(l, r, q)
          <6>1. PartnersOf(l, q) \subseteq DOMAIN Sends(l)
            BY RoutableFacts
          <6> QED
            BY <6>1 DEF Partners
        <5> QED
          BY <5>1, PartnerFacts DEF I
      <4> QED
        BY <1>6, <1>9, <1>11, <4>2, <4>3
    <3> QED
      BY <3>1, <3>2
  <2> QED
    BY <2>1, <2>2, <2>3 DEF Arrived
<1> QED
  BY <1>1, <1>6, <1>7, <1>8, <1>12 DEF new, data, I

\* The get is over.
LEMMA EndedSound ==
  ASSUME RoundsAssumption, NEW l, Routable(l), NEW q \in DOMAIN Gets(l), NEW g,
         Fields(g), g.round < Rounds, g.from = {}, Arrived(l, q, g),
         g.av = [i \in DOMAIN PointsOf(l, "dst", q) |-> g.av[i]]
  PROVE  LET new == Ended(Gets(l)[q], g)
         IN  GetSound(l, q, new) /\ ~new.waiting /\ new.round = g.round + 1
<1> DEFINE av == Loaded(Gets(l)[q], g)
           new == Ended(Gets(l)[q], g)
<1>1. /\ av = [i \in DOMAIN PointsOf(l, "dst", q) |-> av[i]]
      /\ \A i \in DOMAIN PointsOf(l, "dst", q) :
           PointsOf(l, "dst", q)[i] \in CoveredBy(l)
             => av[i] = Value(PointsOf(l, "dst", q)[i], g.round + 1)
  BY LoadedValues
<1>2. new = [g EXCEPT !.av = av, !.buffer = <<>>, !.waiting = FALSE, !.round = @ + 1]
  BY DEF Ended
<1> HIDE DEF av, new
<1>3. /\ DOMAIN new = DOMAIN g /\ new.round = g.round + 1 /\ new.waiting = FALSE
      /\ new.from = {} /\ new.av = av
  BY <1>2 DEF Fields
<1>4. Fields(new)
  <2>1. \A k \in 0 .. Rounds : k < Rounds => k + 1 \in 0 .. Rounds
    BY RoundsAssumption
  <2>2. g.round + 1 \in 0 .. Rounds
    BY <2>1 DEF Fields
  <2> QED
    BY <1>3, <2>2 DEF Fields
<1>5. Filled(l, q, new)
  BY <1>1, <1>3 DEF Filled
<1>6. new.av = [i \in DOMAIN PointsOf(l, "dst", q) |-> new.av[i]]
  BY <1>1, <1>3
<1>7. GetSound(l, q, new)
  BY <1>3, <1>4, <1>5, <1>6 DEF GetSound
<1> QED
  BY <1>3, <1>7 DEF new

\* A message arrives.
LEMMA ArrivedSound ==
  ASSUME RoundsAssumption, NEW l, Routable(l), NEW q \in DOMAIN Gets(l), NEW g, NEW pe,
         GetSound(l, q, g), pe \in g.from
  PROVE  LET new == Arrival(Gets(l)[q], g, pe, Sent(l, pe, q, g.round + 1))
         IN  /\ GetSound(l, q, new) /\ g.round < Rounds /\ g.round \in 0 .. Rounds
             /\ Got(g, pe) = g.round /\ Got(new, pe) = g.round + 1
             /\ \A r \in PartnersOf(l, q) \ {pe} : Got(new, r) = Got(g, r)
<1> DEFINE came == Taken(Gets(l)[q], g, pe, Sent(l, pe, q, g.round + 1))
           new == Arrival(Gets(l)[q], g, pe, Sent(l, pe, q, g.round + 1))
<1>1. /\ Fields(came) /\ came.round = g.round /\ came.waiting /\ g.waiting
      /\ came.from = g.from \ {pe} /\ g.round < Rounds
      /\ came.av = [i \in DOMAIN PointsOf(l, "dst", q) |-> came.av[i]]
      /\ Arrived(l, q, came)
  BY TakenSound
<1>2. new = IF came.from # {} THEN came ELSE Ended(Gets(l)[q], came)
  BY DEF Arrival
<1>3. g.from \subseteq PartnersOf(l, q) /\ g.round \in 0 .. Rounds
  BY DEF GetSound, Fields
<1> HIDE DEF came, new
<1>4. CASE came.from # {}
  <2>1. GetSound(l, q, came)
    BY <1>1, <1>3, <1>4 DEF GetSound
  <2>2. Got(came, pe) = g.round + 1 /\ Got(g, pe) = g.round
    BY <1>1 DEF Got
  <2>3. \A r \in PartnersOf(l, q) \ {pe} : Got(came, r) = Got(g, r)
    BY <1>1 DEF Got
  <2> QED
    BY <1>1, <1>2, <1>3, <1>4, <2>1, <2>2, <2>3 DEF new
<1>5. CASE came.from = {}
  <2>1. GetSound(l, q, new) /\ ~new.waiting /\ new.round = g.round + 1
    BY <1>1, <1>2, <1>5, EndedSound
  <2>2. \A r : Got(new, r) = g.round + 1
    BY <2>1 DEF Got
  <2>3. Got(g, pe) = g.round
    BY DEF Got
  <2>4. \A r \in PartnersOf(l, q) \ {pe} : Got(g, r) = g.round + 1
    BY <1>1, <1>5 DEF Got
  <2> QED
    BY <1>1, <1>3, <2>1, <2>2, <2>3, <2>4 DEF new
<1> QED
  BY <1>4, <1>5

-----------------------------------------------------------------------------
(* The messages between two partners *)

LEMMA PairStart ==
  ASSUME RoundsAssumption, NEW l, NEW pe, NEW q PROVE Pair(l, pe, q, <<>>, 0, 0)
BY RoundsAssumption DEF Pair

LEMMA PairPut ==
  ASSUME RoundsAssumption, NEW l, NEW pe, NEW q, NEW w, NEW n, NEW r,
         Pair(l, pe, q, w, n, r), r < Rounds
  PROVE  Pair(l, pe, q, Append(w, Sent(l, pe, q, r + 1)), n, r + 1)
<1> DEFINE T == {Sent(l, pe, q, k) : k \in 1 .. Rounds}
           x == Sent(l, pe, q, r + 1)
           v == Append(w, x)
<1>1. /\ n \in 0 .. Rounds /\ r \in 0 .. Rounds /\ n <= r /\ w \in Seq(T) /\ Len(w) = r - n
      /\ \A k \in 1 .. r - n : w[k] = Sent(l, pe, q, n + k)
  BY DEF Pair
<1>2. r + 1 \in 1 .. Rounds /\ r + 1 \in 0 .. Rounds /\ n <= r + 1 /\ (r + 1) - n = (r - n) + 1
  BY <1>1, RoundsAssumption
<1>3. x \in T
  BY <1>2
<1> HIDE DEF T, x
<1>4. /\ v \in Seq(T) /\ Len(v) = Len(w) + 1
      /\ \A k \in 1 .. Len(w) : v[k] = w[k]
      /\ v[Len(w) + 1] = x
  BY <1>1, <1>3
<1> HIDE DEF v
<1>5. ASSUME NEW k \in 1 .. (r + 1) - n PROVE v[k] = Sent(l, pe, q, n + k)
  <2>1. CASE k \in 1 .. r - n
    BY <1>1, <1>4, <2>1
  <2>2. CASE k = (r - n) + 1
    <3>1. n + k = r + 1
      BY <1>1, <2>2
    <3> QED
      BY <1>1, <1>4, <2>2, <3>1 DEF x
  <2>3. k \in 1 .. r - n \/ k = (r - n) + 1
    BY <1>1
  <2> QED
    BY <2>1, <2>2, <2>3
<1>6. Len(v) = (r + 1) - n
  BY <1>1, <1>2, <1>4
<1> QED
  BY <1>1, <1>2, <1>4, <1>5, <1>6 DEF Pair, T, v, x

LEMMA PairTaken ==
  ASSUME RoundsAssumption, NEW l, NEW pe, NEW q, NEW w, NEW n, NEW r,
         Pair(l, pe, q, w, n, r), w # <<>>
  PROVE  /\ Head(w) = Sent(l, pe, q, n + 1) /\ n < r /\ (Len(w) = 1 => n + 1 = r)
         /\ Len(w) # 1 => n + 1 < r
         /\ Pair(l, pe, q, Tail(w), n + 1, r)
<1> DEFINE T == {Sent(l, pe, q, k) : k \in 1 .. Rounds}
           v == Tail(w)
<1>1. /\ n \in 0 .. Rounds /\ r \in 0 .. Rounds /\ n <= r /\ w \in Seq(T) /\ Len(w) = r - n
      /\ \A k \in 1 .. r - n : w[k] = Sent(l, pe, q, n + k)
  BY DEF Pair
<1> HIDE DEF T
<1>2. /\ Len(w) \in Nat \ {0} /\ Head(w) = w[1] /\ v \in Seq(T) /\ Len(v) = Len(w) - 1
      /\ \A k \in 1 .. Len(v) : v[k] = w[k + 1]
  BY <1>1
<1> HIDE DEF v
<1>3. /\ n < r /\ n + 1 <= r /\ (Len(w) = 1 => n + 1 = r) /\ (Len(w) # 1 => n + 1 < r)
      /\ n + 1 \in 0 .. Rounds /\ 1 \in 1 .. r - n
  <2>1. n \in Nat /\ r \in Nat /\ r <= Rounds
    BY <1>1, RoundsAssumption
  <2>2. r - n \in Nat \ {0} /\ Len(w) = r - n
    BY <1>1, <1>2
  <2> QED
    BY <2>1, <2>2, RoundsAssumption
<1>4. Head(w) = Sent(l, pe, q, n + 1)
  BY <1>1, <1>2, <1>3
<1>5. Len(v) = r - (n + 1)
  BY <1>1, <1>2
<1>6. ASSUME NEW k \in 1 .. r - (n + 1) PROVE v[k] = Sent(l, pe, q, (n + 1) + k)
  <2>1. k + 1 \in 1 .. r - n /\ n + (k + 1) = (n + 1) + k
    BY <1>1
  <2>2. v[k] = w[k + 1]
    BY <1>2, <1>5
  <2> QED
    BY <1>1, <2>1, <2>2
<1>7. Pair(l, pe, q, v, n + 1, r)
  BY <1>1, <1>2, <1>3, <1>5, <1>6 DEF Pair, T
<1> QED
  BY <1>3, <1>4, <1>7 DEF v

-----------------------------------------------------------------------------
(* The invariant *)

AllRoutable == \A l \in Layouts : Routable(l)

LEMMA RouterFacts ==
  ASSUME AllRoutable, Made, DOMAIN gsmap = Sides
  PROVE  /\ Routable(layout) /\ layout # <<>>
         /\ gsmap["src"] = MapOf(layout["src"]) /\ gsmap["dst"] = MapOf(layout["dst"])
         /\ Ranks("src") = DOMAIN Sends(layout) /\ Ranks("dst") = DOMAIN Gets(layout)
         /\ "src" \in DOMAIN routers => routers["src"] = Sends(layout)
         /\ "dst" \in DOMAIN routers => routers["dst"] = Gets(layout)
<1>2. layout # <<>>
  <2>1. DOMAIN <<>> = {} /\ Sides # {}
    BY DEF Sides
  <2> QED
    BY <2>1 DEF Made
<1>3. Routable(layout)
  BY <1>2 DEF Made, AllRoutable
<1>4. gsmap["src"] = MapOf(layout["src"]) /\ gsmap["dst"] = MapOf(layout["dst"])
  BY DEF Made, Sides
<1>5. Ranks("src") = DOMAIN Sends(layout) /\ Ranks("dst") = DOMAIN Gets(layout)
  BY DEF Ranks, Sends, Gets, RoutersOf
<1>6. /\ "src" \in DOMAIN routers => routers["src"] = Sends(layout)
      /\ "dst" \in DOMAIN routers => routers["dst"] = Gets(layout)
  BY DEF Made, Sends, Gets, Other
<1> QED
  BY <1>2, <1>3, <1>4, <1>5, <1>6

LEMMA RouteInitInv == ASSUME RoundsAssumption, RouteInit PROVE RouteInv
<1>1. DOMAIN <<>> = {}
  OBVIOUS
<1>2. /\ layout = <<>> /\ gsmap = <<>> /\ routers = <<>> /\ put = <<>> /\ get = <<>>
      /\ wire = <<>> /\ halt = "no"
  BY DEF RouteInit
<1>3. /\ DOMAIN gsmap = {} /\ DOMAIN routers = {} /\ DOMAIN put = {} /\ DOMAIN get = {}
      /\ DOMAIN wire = {}
  BY <1>1, <1>2
<1>4. Made /\ Shapes /\ Pending
  BY <1>2, <1>3 DEF Made, Shapes, Pending
<1> QED
  BY <1>2, <1>3, <1>4 DEF RouteInv

LEMMA DefPartitionInv ==
  ASSUME AllRoutable, RouteInv, NEW c \in Sides, DefPartition(c) PROVE RouteInv'
<1>1. /\ c \notin DOMAIN gsmap
      /\ layout' \in IF layout = <<>> THEN Layouts ELSE {layout}
      /\ gsmap' = Extended(gsmap, c, MapOf(layout'[c]))
      /\ UNCHANGED <<routers, put, get, wire, halt>>
  BY DEF DefPartition
<1>2. DOMAIN routers = {}
  BY <1>1 DEF RouteInv, Made
<1>3. DOMAIN put = {} /\ DOMAIN wire = {} /\ DOMAIN get = {}
  BY <1>2 DEF RouteInv, Shapes
<1>4. /\ DOMAIN gsmap' = DOMAIN gsmap \cup {c}
      /\ \A d \in DOMAIN gsmap \cup {c} : gsmap'[d] = IF d = c THEN MapOf(layout'[c]) ELSE gsmap[d]
  BY <1>1 DEF Extended
<1>5. Made'
  <2>1. \A d \in DOMAIN gsmap : layout' = layout
    <3>1. layout = <<>> => DOMAIN gsmap = {}
      BY DEF RouteInv, Made
    <3> QED
      BY <1>1, <3>1
  <2>2. \A d \in DOMAIN gsmap' : gsmap'[d] = MapOf(layout'[d])
    BY <1>4, <2>1 DEF RouteInv, Made
  <2>3. layout' = <<>> => gsmap' = <<>>
    <3>1. layout' \in Layouts
      BY <1>1 DEF RouteInv, Made
    <3> QED
      BY <3>1, RoutableFacts DEF AllRoutable
  <2>4. layout' \in Layouts
    BY <1>1 DEF RouteInv, Made
  <2> QED
    BY <1>1, <1>2, <1>4, <2>2, <2>3, <2>4 DEF RouteInv, Made
<1>6. Shapes' /\ Pending'
  BY <1>1, <1>2, <1>3 DEF Shapes, Pending
<1> QED
  BY <1>1, <1>2, <1>3, <1>5, <1>6 DEF RouteInv

\* What a router adds, nothing being sent or got yet, keeps the pairs.
LEMMA PairsStart ==
  ASSUME RoundsAssumption, RouteInv, layout' = layout,
         \A pe \in Ranks("src"), q \in Ranks("dst") :
           /\ pe \in PartnersOf(layout, q) =>
                /\ PutOf(pe)' = PutOf(pe) /\ GotOf(pe, q)' = GotOf(pe, q)
           /\ WireOf(pe, q)' = WireOf(pe, q)
  PROVE  Pairs'
<1>1. Ranks("src")' = Ranks("src") /\ Ranks("dst")' = Ranks("dst")
  BY DEF Ranks
<1>2. CASE DOMAIN routers # {}
  <2>1. Pairs
    BY <1>2 DEF RouteInv
  <2> QED
    BY <1>1, <2>1 DEF Pairs
<1>3. CASE DOMAIN routers = {}
  <2>1. \A pe, q : PutOf(pe) = 0 /\ GotOf(pe, q) = 0 /\ WireOf(pe, q) = <<>>
    BY <1>3 DEF PutOf, GotOf, WireOf
  <2> QED
    BY <1>1, <2>1, PairStart DEF Pairs
<1> QED
  BY <1>2, <1>3

LEMMA RouterInitSrc ==
  ASSUME RoundsAssumption, AllRoutable, RouteInv, RouterInit("src", "dst") PROVE RouteInv'
<1>1. /\ DOMAIN gsmap = Sides /\ "src" \notin DOMAIN routers
      /\ routers' = Extended(routers, "src", [pe \in Ranks("src") |->
           Router(gsmap["src"], gsmap["dst"], pe, Size(layout["src"]), Size(layout["dst"]))])
      /\ put' = [pe \in Ranks("src") |-> [round |-> 0, ireqs |-> {}]]
      /\ wire' = [pq \in Ranks("src") \X Ranks("dst") |-> <<>>]
      /\ UNCHANGED <<layout, gsmap, get, halt>>
  BY DEF RouterInit, Sides
<1>2. /\ DOMAIN routers' = DOMAIN routers \cup {"src"}
      /\ routers'["src"] = RoutersOf(layout, "src", "dst")
      /\ \A c \in DOMAIN routers : c # "src" /\ routers'[c] = routers[c]
  <2>1. gsmap["src"] = MapOf(layout["src"]) /\ gsmap["dst"] = MapOf(layout["dst"])
    BY <1>1 DEF RouteInv, Made, Sides
  <2>2. routers' = Extended(routers, "src", RoutersOf(layout, "src", "dst"))
    BY <1>1, <2>1 DEF RoutersOf, Ranks
  <2> QED
    BY <1>1, <2>2 DEF Extended
<1>3. Made'
  BY <1>1, <1>2 DEF RouteInv, Made, Sides, Other
<1>5. Ranks("src")' = Ranks("src") /\ Ranks("dst")' = Ranks("dst")
  BY <1>1 DEF Ranks
<1>6. Shapes'
  BY <1>1, <1>2, <1>5 DEF RouteInv, Shapes
<1>7. /\ \A pe \in Ranks("src") : put'[pe] = [round |-> 0, ireqs |-> {}]
      /\ \A pe \in Ranks("src"), q \in Ranks("dst") : wire'[<<pe, q>>] = <<>>
      /\ DOMAIN put' = Ranks("src")
  BY <1>1
<1>8. \A pe \in Ranks("src"), q \in Ranks("dst") :
        PutOf(pe)' = PutOf(pe) /\ GotOf(pe, q)' = GotOf(pe, q) /\ WireOf(pe, q)' = WireOf(pe, q)
  BY <1>1, <1>2, <1>7 DEF PutOf, GotOf, WireOf
<1>9. Pairs'
  BY <1>1, <1>8, PairsStart
<1>10. \A pe \in DOMAIN put' : PutSound(layout', pe, put'[pe])
  BY <1>1, <1>7, RoundsAssumption DEF PutSound
<1>11. \A q \in DOMAIN get' : GetSound(layout', q, get'[q])
  BY <1>1 DEF RouteInv
<1>12. Pending'
  BY <1>7 DEF Pending
<1> QED
  BY <1>1, <1>3, <1>6, <1>9, <1>10, <1>11, <1>12 DEF RouteInv

LEMMA FreshFields ==
  ASSUME RoundsAssumption, NEW g, NEW av,
         g = [round |-> 0, waiting |-> FALSE, from |-> {}, buffer |-> <<>>, av |-> av]
  PROVE  Fields(g) /\ g.round = 0 /\ ~g.waiting /\ g.from = {} /\ g.av = av
<1>1. /\ DOMAIN g = {"round", "waiting", "from", "buffer", "av"}
      /\ g.round = 0 /\ g.waiting = FALSE /\ g.from = {} /\ g.av = av
  OBVIOUS
<1>2. 0 \in 0 .. Rounds
  BY RoundsAssumption
<1> QED
  BY <1>1, <1>2 DEF Fields

LEMMA RouterInitDst ==
  ASSUME RoundsAssumption, AllRoutable, RouteInv, RouterInit("dst", "src") PROVE RouteInv'
<1>1. /\ DOMAIN gsmap = Sides /\ "dst" \notin DOMAIN routers
      /\ routers' = Extended(routers, "dst", [pe \in Ranks("dst") |->
           Router(gsmap["dst"], gsmap["src"], pe, Size(layout["dst"]), Size(layout["src"]))])
      /\ get' = [pe \in Ranks("dst") |->
                   [round |-> 0, waiting |-> FALSE, from |-> {}, buffer |-> <<>>,
                    av |-> [i \in DOMAIN OrderedPoints(gsmap["dst"], pe) |-> Zero]]]
      /\ UNCHANGED <<layout, gsmap, put, wire, halt>>
  BY DEF RouterInit, Sides
<1>g. gsmap["src"] = MapOf(layout["src"]) /\ gsmap["dst"] = MapOf(layout["dst"])
  BY <1>1 DEF RouteInv, Made, Sides
<1>2. /\ DOMAIN routers' = DOMAIN routers \cup {"dst"}
      /\ routers'["dst"] = RoutersOf(layout, "dst", "src")
      /\ \A c \in DOMAIN routers : c # "dst" /\ routers'[c] = routers[c]
  <2>2. routers' = Extended(routers, "dst", RoutersOf(layout, "dst", "src"))
    BY <1>1, <1>g DEF RoutersOf, Ranks
  <2> QED
    BY <1>1, <2>2 DEF Extended
<1>3. Made'
  BY <1>1, <1>2 DEF RouteInv, Made, Sides, Other
<1>5. Ranks("src")' = Ranks("src") /\ Ranks("dst")' = Ranks("dst")
  BY <1>1 DEF Ranks
<1>6. Shapes'
  BY <1>1, <1>2, <1>5 DEF RouteInv, Shapes
<1> DEFINE blank(q) == [i \in DOMAIN PointsOf(layout, "dst", q) |-> Zero]
<1>7. \A q \in Ranks("dst") :
        get'[q] = [round |-> 0, waiting |-> FALSE, from |-> {}, buffer |-> <<>>, av |-> blank(q)]
  BY <1>1, <1>g DEF PointsOf
<1>b. \A q : blank(q) = [i \in DOMAIN PointsOf(layout, "dst", q) |-> blank(q)[i]]
  OBVIOUS
<1> HIDE DEF blank
<1>f. \A q \in Ranks("dst") :
        /\ Fields(get'[q]) /\ get'[q].round = 0 /\ ~get'[q].waiting /\ get'[q].from = {}
        /\ get'[q].av = blank(q)
  <2> TAKE q \in Ranks("dst")
  <2>1. get'[q] = [round |-> 0, waiting |-> FALSE, from |-> {}, buffer |-> <<>>, av |-> blank(q)]
    BY <1>7
  <2> QED
    BY <2>1, FreshFields, RoundsAssumption, ZenonT(30)
<1>8. \A pe : \A q \in Ranks("dst") : Got(get'[q], pe) = 0
  BY <1>f DEF Got
<1>9. \A pe \in Ranks("src"), q \in Ranks("dst") :
        PutOf(pe)' = PutOf(pe) /\ GotOf(pe, q)' = GotOf(pe, q) /\ WireOf(pe, q)' = WireOf(pe, q)
  BY <1>1, <1>2, <1>8 DEF PutOf, GotOf, WireOf
<1>10. Pairs'
  BY <1>1, <1>9, PairsStart
<1>11. ASSUME NEW q \in Ranks("dst") PROVE GetSound(layout, q, get'[q])
  <2>1. Fields(get'[q]) /\ get'[q].from = {} /\ ~get'[q].waiting /\ ~ (get'[q].round > 0)
    BY <1>f
  <2>2. get'[q].av = [i \in DOMAIN PointsOf(layout, "dst", q) |-> get'[q].av[i]]
    BY <1>b, <1>f
  <2> QED
    BY <2>1, <2>2 DEF GetSound
<1>12. \A q \in DOMAIN get' : GetSound(layout', q, get'[q])
  BY <1>1, <1>11
<1>13. Pending'
  <2>1. \A pe \in DOMAIN put : \A q \in put[pe].ireqs : pe \in Ranks("src") /\ q \in Ranks("dst")
    <3> SUFFICES ASSUME NEW pe \in DOMAIN put, NEW q \in put[pe].ireqs
                 PROVE  pe \in Ranks("src") /\ q \in Ranks("dst")
      OBVIOUS
    <3>1. "src" \in DOMAIN routers /\ pe \in Ranks("src")
      BY DEF RouteInv, Shapes
    <3>2. q \in Range(Sends(layout)[pe].pe_list)
      BY DEF RouteInv, PutSound
    <3>3. Routable(layout) /\ Ranks("src") = DOMAIN Sends(layout) /\ Ranks("dst") = DOMAIN Gets(layout)
      BY <1>1, RouterFacts DEF RouteInv
    <3> QED
      BY <3>1, <3>2, <3>3, RoutableFacts
  <2> QED
    BY <1>1, <1>9, <2>1 DEF RouteInv, Pending
<1>14. \A pe \in DOMAIN put' : PutSound(layout', pe, put'[pe])
  BY <1>1 DEF RouteInv
<1> QED
  BY <1>1, <1>3, <1>6, <1>10, <1>12, <1>13, <1>14 DEF RouteInv

\* A rank of the source that sends, and one of the target that gets
LEMMA SenderFacts ==
  ASSUME AllRoutable, RouteInv, NEW pe \in DOMAIN put
  PROVE  /\ "src" \in DOMAIN routers /\ DOMAIN put = Ranks("src") /\ pe \in Ranks("src")
         /\ DOMAIN wire = Ranks("src") \X Ranks("dst") /\ DOMAIN gsmap = Sides
         /\ Routable(layout) /\ Ranks("src") = DOMAIN Sends(layout) /\ Ranks("dst") = DOMAIN Gets(layout)
         /\ routers["src"] = Sends(layout) /\ gsmap["src"] = MapOf(layout["src"]) /\ Pairs
         /\ \A q \in Ranks("dst") :
              q \in Range(Sends(layout)[pe].pe_list) <=> pe \in PartnersOf(layout, q)
         /\ Range(Sends(layout)[pe].pe_list) \subseteq Ranks("dst")
         /\ PutSound(layout, pe, put[pe])
         /\ \A r : PutOf(r) = put[r].round /\ \A q : WireOf(r, q) = wire[<<r, q>>]
<1>1. "src" \in DOMAIN routers
  BY DEF RouteInv, Shapes
<1>2. DOMAIN put = Ranks("src") /\ DOMAIN wire = Ranks("src") \X Ranks("dst") /\ DOMAIN gsmap = Sides
  BY <1>1 DEF RouteInv, Shapes, Made
<1>3. /\ Routable(layout) /\ Ranks("src") = DOMAIN Sends(layout) /\ Ranks("dst") = DOMAIN Gets(layout)
      /\ routers["src"] = Sends(layout) /\ gsmap["src"] = MapOf(layout["src"])
  BY <1>1, <1>2, RouterFacts DEF RouteInv
<1>4. /\ \A q \in Ranks("dst") : q \in Range(Sends(layout)[pe].pe_list) <=> pe \in PartnersOf(layout, q)
      /\ Range(Sends(layout)[pe].pe_list) \subseteq Ranks("dst")
  BY <1>2, <1>3, RoutableFacts
<1>5. Pairs /\ PutSound(layout, pe, put[pe])
  BY <1>1 DEF RouteInv
<1>6. \A r : PutOf(r) = put[r].round /\ \A q : WireOf(r, q) = wire[<<r, q>>]
  BY <1>1 DEF PutOf, WireOf
<1> QED
  BY <1>1, <1>2, <1>3, <1>4, <1>5, <1>6

LEMMA GetterFacts ==
  ASSUME AllRoutable, RouteInv, NEW q \in DOMAIN get
  PROVE  /\ "dst" \in DOMAIN routers /\ DOMAIN get = Ranks("dst") /\ q \in Ranks("dst")
         /\ DOMAIN gsmap = Sides
         /\ Routable(layout) /\ Ranks("src") = DOMAIN Sends(layout) /\ Ranks("dst") = DOMAIN Gets(layout)
         /\ routers["dst"] = Gets(layout) /\ Pairs
         /\ PartnersOf(layout, q) \subseteq Ranks("src")
         /\ GetSound(layout, q, get[q])
         /\ \A pe, r : GotOf(pe, r) = Got(get[r], pe)
<1>1. "dst" \in DOMAIN routers
  BY DEF RouteInv, Shapes
<1>2. DOMAIN get = Ranks("dst") /\ DOMAIN gsmap = Sides
  BY <1>1 DEF RouteInv, Shapes, Made
<1>3. /\ Routable(layout) /\ Ranks("src") = DOMAIN Sends(layout) /\ Ranks("dst") = DOMAIN Gets(layout)
      /\ routers["dst"] = Gets(layout)
  BY <1>1, <1>2, RouterFacts DEF RouteInv
<1>4. PartnersOf(layout, q) \subseteq Ranks("src")
  BY <1>2, <1>3, RoutableFacts
<1>5. Pairs /\ GetSound(layout, q, get[q])
  BY <1>1 DEF RouteInv
<1>6. \A pe, r : GotOf(pe, r) = Got(get[r], pe)
  BY <1>1 DEF GotOf
<1> QED
  BY <1>1, <1>2, <1>3, <1>4, <1>5, <1>6

\* Steps that leave the decompositions and the routers alone
LEMMA MadeKept ==
  ASSUME UNCHANGED <<layout, gsmap, routers>>
  PROVE  /\ Made' <=> Made
         /\ Ranks("src")' = Ranks("src") /\ Ranks("dst")' = Ranks("dst")
BY DEF Made, Ranks

LEMMA PutInv ==
  ASSUME RoundsAssumption, AllRoutable, RouteInv, NEW pe \in DOMAIN put, Put(pe) PROVE RouteInv'
<1> DEFINE list == Range(Sends(layout)[pe].pe_list)
           r == put[pe].round
<1>1. /\ "src" \in DOMAIN routers /\ DOMAIN put = Ranks("src") /\ pe \in Ranks("src")
      /\ DOMAIN wire = Ranks("src") \X Ranks("dst")
      /\ routers["src"] = Sends(layout) /\ gsmap["src"] = MapOf(layout["src"]) /\ Pairs
      /\ \A q \in Ranks("dst") : q \in list <=> pe \in PartnersOf(layout, q)
      /\ list \subseteq Ranks("dst") /\ PutSound(layout, pe, put[pe])
      /\ \A s : PutOf(s) = put[s].round /\ \A q : WireOf(s, q) = wire[<<s, q>>]
  BY SenderFacts
<1>2. /\ put[pe].ireqs = {} /\ r < Rounds
      /\ put' = [put EXCEPT ![pe] = [round |-> r + 1, ireqs |-> list]]
      /\ wire' = [pq \in DOMAIN wire |->
                    IF pq[1] = pe /\ pq[2] \in list
                    THEN Append(wire[pq], Sent(layout, pe, pq[2], r + 1)) ELSE wire[pq]]
      /\ UNCHANGED <<layout, gsmap, routers, get, halt>>
  BY <1>1 DEF Put, MayPut, Sent, PointsOf
<1> HIDE DEF list, r
<1>3. Made' /\ Ranks("src")' = Ranks("src") /\ Ranks("dst")' = Ranks("dst")
  BY <1>2, MadeKept DEF RouteInv
<1>4. /\ DOMAIN put' = Ranks("src") /\ put'[pe] = [round |-> r + 1, ireqs |-> list]
      /\ \A s \in Ranks("src") \ {pe} : put'[s] = put[s]
      /\ DOMAIN wire' = DOMAIN wire
  BY <1>1, <1>2
<1>5. ASSUME NEW s \in Ranks("src"), NEW q \in Ranks("dst")
      PROVE  wire'[<<s, q>>] = IF s = pe /\ q \in list
                               THEN Append(wire[<<s, q>>], Sent(layout, pe, q, r + 1))
                               ELSE wire[<<s, q>>]
  BY <1>1, <1>2
<1>6. Shapes'
  BY <1>2, <1>3, <1>4, <1>1 DEF RouteInv, Shapes
<1>7. r \in 0 .. Rounds /\ r + 1 \in 0 .. Rounds
  BY <1>1, <1>2, RoundsAssumption DEF PutSound, r
<1>8. /\ DOMAIN put'[pe] = {"round", "ireqs"} /\ put'[pe].round = r + 1 /\ put'[pe].ireqs = list
  BY <1>4
<1>9. \A s \in DOMAIN put' : PutSound(layout', s, put'[s])
  <2>1. PutSound(layout, pe, put'[pe])
    BY <1>7, <1>8 DEF PutSound, list
  <2> QED
    BY <1>1, <1>2, <1>4, <2>1 DEF RouteInv
<1>10. \A s, q : GotOf(s, q)' = GotOf(s, q)
  BY <1>2 DEF GotOf
<1>11. \A s : PutOf(s)' = put'[s].round /\ \A q : WireOf(s, q)' = wire'[<<s, q>>]
  BY <1>1, <1>2 DEF PutOf, WireOf
<1>12. ASSUME NEW s \in Ranks("src"), NEW q \in Ranks("dst")
       PROVE  IF s \in PartnersOf(layout, q)
              THEN Pair(layout, s, q, WireOf(s, q)', GotOf(s, q), PutOf(s)')
              ELSE WireOf(s, q)' = <<>>
  <2>1. IF s \in PartnersOf(layout, q)
        THEN Pair(layout, s, q, wire[<<s, q>>], GotOf(s, q), put[s].round)
        ELSE wire[<<s, q>>] = <<>>
    BY <1>1 DEF Pairs
  <2>2. CASE s = pe /\ q \in list
    <3>1. Pair(layout, pe, q, wire[<<pe, q>>], GotOf(pe, q), r) /\ pe \in PartnersOf(layout, q)
      BY <1>1, <2>1, <2>2 DEF r
    <3>2. Pair(layout, pe, q, Append(wire[<<pe, q>>], Sent(layout, pe, q, r + 1)), GotOf(pe, q), r + 1)
      BY <1>2, <3>1, PairPut
    <3>3. WireOf(pe, q)' = Append(wire[<<pe, q>>], Sent(layout, pe, q, r + 1)) /\ PutOf(pe)' = r + 1
      BY <1>5, <1>8, <1>11, <2>2
    <3> QED
      BY <2>2, <3>1, <3>2, <3>3
  <2>3. CASE s = pe /\ q \notin list
    <3>1. s \notin PartnersOf(layout, q) /\ wire'[<<s, q>>] = wire[<<s, q>>]
      BY <1>1, <1>5, <2>3
    <3> QED
      BY <1>11, <2>1, <3>1
  <2>4. CASE s # pe
    <3>1. put'[s] = put[s] /\ wire'[<<s, q>>] = wire[<<s, q>>]
      BY <1>4, <1>5, <2>4
    <3> QED
      BY <1>11, <2>1, <3>1
  <2> QED
    BY <2>2, <2>3, <2>4
<1>13. Pairs'
  BY <1>2, <1>3, <1>10, <1>12 DEF Pairs
<1>14. Pending'
  <2>1. ASSUME NEW q \in list PROVE GotOf(pe, q) < r + 1
    <3>1. q \in Ranks("dst") /\ pe \in PartnersOf(layout, q)
      BY <1>1
    <3>2. Pair(layout, pe, q, WireOf(pe, q), GotOf(pe, q), PutOf(pe))
      BY <1>1, <3>1 DEF Pairs
    <3>3. GotOf(pe, q) \in 0 .. Rounds /\ GotOf(pe, q) <= r
      BY <1>1, <3>2 DEF Pair, r
    <3> QED
      BY <1>7, <3>3
  <2>2. \A s \in DOMAIN put \ {pe} : \A q \in put[s].ireqs : GotOf(s, q) < put[s].round
    BY DEF RouteInv, Pending
  <2> QED
    BY <1>1, <1>4, <1>8, <1>10, <2>1, <2>2 DEF Pending
<1>15. \A q \in DOMAIN get' : GetSound(layout', q, get'[q])
  BY <1>2 DEF RouteInv
<1> QED
  BY <1>2, <1>3, <1>6, <1>9, <1>13, <1>14, <1>15 DEF RouteInv

LEMMA SendBufferedInv ==
  ASSUME AllRoutable, RouteInv, NEW pe \in DOMAIN put, NEW q \in put[pe].ireqs, SendBuffered(pe, q)
  PROVE  RouteInv'
<1>1. /\ put' = [put EXCEPT ![pe].ireqs = @ \ {q}]
      /\ UNCHANGED <<layout, gsmap, routers, get, wire, halt>>
  BY DEF SendBuffered
<1>2. PutSound(layout, pe, put[pe])
  BY SenderFacts
<1>3. /\ DOMAIN put' = DOMAIN put
      /\ \A s \in DOMAIN put \ {pe} : put'[s] = put[s]
      /\ put'[pe] = [put[pe] EXCEPT !.ireqs = @ \ {q}]
  BY <1>1
<1>4. /\ DOMAIN put'[pe] = {"round", "ireqs"} /\ put'[pe].round = put[pe].round
      /\ put'[pe].ireqs = put[pe].ireqs \ {q}
  BY <1>2, <1>3 DEF PutSound
<1>5. Made' /\ Ranks("src")' = Ranks("src") /\ Ranks("dst")' = Ranks("dst")
  BY <1>1, MadeKept DEF RouteInv
<1>6. Shapes'
  BY <1>1, <1>3, <1>5 DEF RouteInv, Shapes
<1>7. \A s \in DOMAIN put : put'[s].round = put[s].round /\ put'[s].ireqs \subseteq put[s].ireqs
  BY <1>3, <1>4
<1>8. \A s \in DOMAIN put' : PutSound(layout', s, put'[s])
  <2>1. PutSound(layout, pe, put'[pe])
    BY <1>2, <1>4 DEF PutSound
  <2> QED
    BY <1>1, <1>3, <2>1 DEF RouteInv
<1>9. Pending'
  <2>1. \A s, r : GotOf(s, r)' = GotOf(s, r)
    BY <1>1 DEF GotOf
  <2> QED
    BY <1>3, <1>7, <2>1 DEF RouteInv, Pending
<1>10. Pairs'
  <2>1. \A s \in Ranks("src"), r \in Ranks("dst") :
          PutOf(s)' = PutOf(s) /\ GotOf(s, r)' = GotOf(s, r) /\ WireOf(s, r)' = WireOf(s, r)
    <3>1. DOMAIN put = Ranks("src")
      BY SenderFacts
    <3> QED
      BY <1>1, <1>7, <3>1 DEF PutOf, GotOf, WireOf
  <2>2. Pairs
    BY SenderFacts
  <2> QED
    BY <1>1, <1>5, <2>1, <2>2 DEF Pairs
<1>11. \A r \in DOMAIN get' : GetSound(layout', r, get'[r])
  BY <1>1 DEF RouteInv
<1> QED
  BY <1>1, <1>5, <1>6, <1>8, <1>9, <1>10, <1>11 DEF RouteInv

LEMMA GetInv ==
  ASSUME RoundsAssumption, AllRoutable, RouteInv, NEW q \in DOMAIN get, Get(q) PROVE RouteInv'
<1>1. /\ "dst" \in DOMAIN routers /\ DOMAIN get = Ranks("dst") /\ q \in Ranks("dst")
      /\ Routable(layout) /\ Ranks("dst") = DOMAIN Gets(layout)
      /\ routers["dst"] = Gets(layout) /\ Pairs /\ GetSound(layout, q, get[q])
      /\ \A pe, r : GotOf(pe, r) = Got(get[r], pe)
  BY GetterFacts
<1> DEFINE new == Posted(Gets(layout)[q], get[q])
<1>2. /\ ~get[q].waiting /\ get[q].round < Rounds /\ get' = [get EXCEPT ![q] = new]
      /\ UNCHANGED <<layout, gsmap, routers, put, wire, halt>>
  BY <1>1 DEF Get, MayGet
<1>3. GetSound(layout, q, new) /\ \A pe \in PartnersOf(layout, q) : Got(new, pe) = Got(get[q], pe)
  BY <1>1, <1>2, PostedSound
<1> HIDE DEF new
<1>4. /\ DOMAIN get' = DOMAIN get /\ get'[q] = new
      /\ \A r \in DOMAIN get \ {q} : get'[r] = get[r]
  BY <1>2
<1>5. Made' /\ Ranks("src")' = Ranks("src") /\ Ranks("dst")' = Ranks("dst")
  BY <1>2, MadeKept DEF RouteInv
<1>6. Shapes'
  BY <1>2, <1>4, <1>5 DEF RouteInv, Shapes
<1>7. \A r \in DOMAIN get' : GetSound(layout', r, get'[r])
  BY <1>2, <1>3, <1>4 DEF RouteInv
<1>8. \A pe : \A r \in Ranks("dst") : pe \in PartnersOf(layout, r) => GotOf(pe, r)' = GotOf(pe, r)
  <2>1. \A pe, r : GotOf(pe, r)' = Got(get'[r], pe)
    BY <1>1, <1>2 DEF GotOf
  <2> QED
    BY <1>1, <1>3, <1>4, <2>1
<1>9. Pairs'
  <2>1. \A s, r : PutOf(s)' = PutOf(s) /\ WireOf(s, r)' = WireOf(s, r)
    BY <1>2 DEF PutOf, WireOf
  <2> QED
    BY <1>1, <1>2, <1>5, <1>8, <2>1 DEF Pairs
<1>10. Pending'
  <2>1. \A s \in DOMAIN put : \A r \in put[s].ireqs : r \in Ranks("dst") /\ s \in PartnersOf(layout, r)
    <3> SUFFICES ASSUME NEW s \in DOMAIN put, NEW r \in put[s].ireqs
                 PROVE  r \in Ranks("dst") /\ s \in PartnersOf(layout, r)
      OBVIOUS
    <3>1. /\ \A t \in Ranks("dst") : t \in Range(Sends(layout)[s].pe_list) <=> s \in PartnersOf(layout, t)
          /\ Range(Sends(layout)[s].pe_list) \subseteq Ranks("dst")
          /\ PutSound(layout, s, put[s])
      BY SenderFacts
    <3> QED
      BY <3>1 DEF PutSound
  <2> QED
    BY <1>2, <1>8, <2>1 DEF RouteInv, Pending
<1>11. \A s \in DOMAIN put' : PutSound(layout', s, put'[s])
  BY <1>2 DEF RouteInv
<1> QED
  BY <1>2, <1>5, <1>6, <1>7, <1>9, <1>10, <1>11 DEF RouteInv

LEMMA ArriveInv ==
  ASSUME RoundsAssumption, AllRoutable, RouteInv,
         NEW q \in DOMAIN get, NEW pe \in get[q].from, Arrive(pe, q)
  PROVE  RouteInv'
<1>1. /\ "dst" \in DOMAIN routers /\ DOMAIN get = Ranks("dst") /\ q \in Ranks("dst")
      /\ Routable(layout) /\ Ranks("src") = DOMAIN Sends(layout) /\ Ranks("dst") = DOMAIN Gets(layout)
      /\ routers["dst"] = Gets(layout) /\ Pairs /\ GetSound(layout, q, get[q])
      /\ PartnersOf(layout, q) \subseteq Ranks("src")
      /\ \A s, r : GotOf(s, r) = Got(get[r], s)
  BY GetterFacts
<1>2. "src" \in DOMAIN routers /\ wire[<<pe, q>>] # <<>>
  BY DEF Arrive, MayArrive
<1>3. /\ DOMAIN put = Ranks("src") /\ DOMAIN wire = Ranks("src") \X Ranks("dst")
      /\ pe \in PartnersOf(layout, q) /\ pe \in Ranks("src")
      /\ \A s : PutOf(s) = put[s].round /\ \A r : WireOf(s, r) = wire[<<s, r>>]
  <2>1. pe \in PartnersOf(layout, q)
    BY <1>1 DEF GetSound
  <2> QED
    BY <1>1, <1>2, <2>1 DEF RouteInv, Shapes, PutOf, WireOf
<1> DEFINE n == get[q].round
           data == Sent(layout, pe, q, n + 1)
           new == Arrival(Gets(layout)[q], get[q], pe, data)
           w == wire[<<pe, q>>]
<1>4. /\ GetSound(layout, q, new) /\ n < Rounds /\ n \in 0 .. Rounds
      /\ Got(get[q], pe) = n /\ Got(new, pe) = n + 1
      /\ \A r \in PartnersOf(layout, q) \ {pe} : Got(new, r) = Got(get[q], r)
  BY <1>1, ArrivedSound
<1>5. Pair(layout, pe, q, w, n, put[pe].round)
  BY <1>1, <1>3, <1>4 DEF Pairs
<1>6. /\ Head(w) = data /\ n < put[pe].round
      /\ Len(w) # 1 => n + 1 < put[pe].round
      /\ Pair(layout, pe, q, Tail(w), n + 1, put[pe].round)
  BY <1>2, <1>5, PairTaken
<1>7. Len(data) = Len(PlacesOf(layout, pe, q))
  <2>1. Partners(layout, pe, q)
    BY <1>1, <1>3 DEF Partners
  <2> QED
    BY <1>1, <2>1, SentValues
<1>8. /\ get' = [get EXCEPT ![q] = new]
      /\ put' = IF Len(w) = 1 THEN [put EXCEPT ![pe].ireqs = @ \ {q}] ELSE put
      /\ wire' = [wire EXCEPT ![<<pe, q>>] = Tail(@)]
      /\ UNCHANGED <<layout, gsmap, routers, halt>>
  BY <1>1, <1>6, <1>7 DEF Arrive, PlacesOf
<1> HIDE DEF new, data, w, n
<1>9. /\ DOMAIN get' = DOMAIN get /\ get'[q] = new
      /\ \A r \in DOMAIN get \ {q} : get'[r] = get[r]
  BY <1>8
<1>10. /\ DOMAIN wire' = DOMAIN wire /\ wire'[<<pe, q>>] = Tail(w)
       /\ \A s \in Ranks("src"), r \in Ranks("dst") :
            s # pe \/ r # q => wire'[<<s, r>>] = wire[<<s, r>>]
  BY <1>1, <1>3, <1>8 DEF w
<1>11. /\ DOMAIN put' = DOMAIN put
       /\ \A s \in DOMAIN put \ {pe} : put'[s] = put[s]
       /\ DOMAIN put'[pe] = {"round", "ireqs"} /\ put'[pe].round = put[pe].round
       /\ put'[pe].ireqs = IF Len(w) = 1 THEN put[pe].ireqs \ {q} ELSE put[pe].ireqs
  <2>1. DOMAIN put[pe] = {"round", "ireqs"}
    BY <1>3 DEF RouteInv, PutSound
  <2> QED
    BY <1>3, <1>8, <2>1
<1>12. Made' /\ Ranks("src")' = Ranks("src") /\ Ranks("dst")' = Ranks("dst")
  BY <1>8, MadeKept DEF RouteInv
<1>13. Shapes'
  BY <1>8, <1>9, <1>10, <1>11, <1>12 DEF RouteInv, Shapes
<1>14. \A r \in DOMAIN get' : GetSound(layout', r, get'[r])
  BY <1>4, <1>8, <1>9 DEF RouteInv
<1>15. \A s \in DOMAIN put' : PutSound(layout', s, put'[s])
  <2>1. PutSound(layout, pe, put[pe])
    BY <1>3 DEF RouteInv
  <2>2. PutSound(layout, pe, put'[pe])
    BY <1>11, <2>1 DEF PutSound
  <2> QED
    BY <1>8, <1>11, <2>2 DEF RouteInv
<1>16. \A s, r : GotOf(s, r)' = Got(get'[r], s)
  BY <1>1, <1>8 DEF GotOf
<1>17. \A s : PutOf(s)' = put'[s].round /\ \A r : WireOf(s, r)' = wire'[<<s, r>>]
  BY <1>2, <1>8 DEF PutOf, WireOf
<1>18. \A s \in Ranks("src") : put'[s].round = put[s].round
  BY <1>3, <1>11
<1>19. ASSUME NEW s \in Ranks("src"), NEW r \in Ranks("dst"), s # pe \/ r # q
       PROVE  WireOf(s, r)' = WireOf(s, r) /\ (s \in PartnersOf(layout, r) => GotOf(s, r)' = GotOf(s, r))
  <2>1. WireOf(s, r)' = WireOf(s, r)
    BY <1>3, <1>10, <1>17, <1>19
  <2>2. CASE r = q
    BY <1>1, <1>4, <1>9, <1>16, <1>19, <2>1, <2>2
  <2>3. CASE r # q
    BY <1>1, <1>9, <1>16, <2>1, <2>3
  <2> QED
    BY <2>2, <2>3
<1>20. Pairs'
  <2>1. ASSUME NEW s \in Ranks("src"), NEW r \in Ranks("dst")
        PROVE  IF s \in PartnersOf(layout, r)
               THEN Pair(layout, s, r, WireOf(s, r)', GotOf(s, r)', PutOf(s)')
               ELSE WireOf(s, r)' = <<>>
    <3>1. CASE s = pe /\ r = q
      <4>1. WireOf(s, r)' = Tail(w) /\ GotOf(s, r)' = n + 1 /\ PutOf(s)' = put[pe].round
        BY <1>3, <1>4, <1>9, <1>10, <1>16, <1>17, <1>18, <3>1
      <4> QED
        BY <1>3, <1>6, <3>1, <4>1
    <3>2. CASE s # pe \/ r # q
      <4>1. IF s \in PartnersOf(layout, r)
            THEN Pair(layout, s, r, WireOf(s, r), GotOf(s, r), PutOf(s))
            ELSE WireOf(s, r) = <<>>
        BY <1>1 DEF Pairs
      <4>2. PutOf(s)' = PutOf(s)
        BY <1>3, <1>17, <1>18
      <4> QED
        BY <1>19, <3>2, <4>1, <4>2
    <3> QED
      BY <3>1, <3>2
  <2> QED
    BY <1>8, <1>12, <2>1 DEF Pairs
<1>21. Pending'
  <2>1. ASSUME NEW s \in DOMAIN put', NEW r \in put'[s].ireqs PROVE GotOf(s, r)' < put'[s].round
    <3>1. /\ \A t \in Ranks("dst") : t \in Range(Sends(layout)[s].pe_list) <=> s \in PartnersOf(layout, t)
          /\ Range(Sends(layout)[s].pe_list) \subseteq Ranks("dst")
          /\ PutSound(layout, s, put[s])
      BY <1>11, SenderFacts
    <3>2. r \in put[s].ireqs /\ s \in Ranks("src") /\ put'[s].round = put[s].round
      BY <1>3, <1>11, <1>18
    <3>3. r \in Ranks("dst") /\ s \in PartnersOf(layout, r) /\ GotOf(s, r) < put[s].round
      BY <1>11, <3>1, <3>2 DEF PutSound, RouteInv, Pending
    <3>4. CASE s = pe /\ r = q
      <4>1. Len(w) # 1
        BY <1>11, <3>4
      <4>2. GotOf(s, r)' = n + 1
        BY <1>4, <1>9, <1>16, <3>4
      <4> QED
        BY <1>6, <3>2, <3>4, <4>1, <4>2
    <3>5. CASE s # pe \/ r # q
      BY <1>19, <3>2, <3>3, <3>5
    <3> QED
      BY <3>4, <3>5
  <2> QED
    BY <2>1 DEF Pending
<1> QED
  BY <1>8, <1>12, <1>13, <1>14, <1>15, <1>20, <1>21 DEF RouteInv

LEMMA RouteStepInv ==
  ASSUME RoundsAssumption, AllRoutable, RouteInv, [RouteNext]_routeVars PROVE RouteInv'
<1>1. CASE UNCHANGED routeVars
  <2>1. UNCHANGED <<layout, gsmap, routers, put, get, wire, halt>>
    BY <1>1 DEF routeVars
  <2>2. \A pe, q : PutOf(pe)' = PutOf(pe) /\ GotOf(pe, q)' = GotOf(pe, q) /\ WireOf(pe, q)' = WireOf(pe, q)
    BY <2>1 DEF PutOf, GotOf, WireOf
  <2>3. Made' /\ Shapes' /\ Ranks("src")' = Ranks("src") /\ Ranks("dst")' = Ranks("dst")
    BY <2>1, MadeKept DEF RouteInv, Shapes, Ranks
  <2>4. (Pairs' <=> Pairs) /\ (Pending' <=> Pending)
    BY <2>1, <2>2, <2>3 DEF Pairs, Pending
  <2> QED
    BY <2>1, <2>3, <2>4 DEF RouteInv
<1>2. CASE RouteNext
  <2>1. ASSUME NEW c \in Sides, DefPartition(c) PROVE RouteInv'
    BY <2>1, DefPartitionInv
  <2>2. CASE Mismatch
    <3>1. halt' = "gsize" /\ UNCHANGED <<layout, gsmap, routers, put, get, wire>>
      BY <2>2 DEF Mismatch
    <3>2. \A pe, q : PutOf(pe)' = PutOf(pe) /\ GotOf(pe, q)' = GotOf(pe, q) /\ WireOf(pe, q)' = WireOf(pe, q)
      BY <3>1 DEF PutOf, GotOf, WireOf
    <3>3. Made' /\ Shapes' /\ Ranks("src")' = Ranks("src") /\ Ranks("dst")' = Ranks("dst")
      BY <3>1, MadeKept DEF RouteInv, Shapes, Ranks
    <3>4. (Pairs' <=> Pairs) /\ (Pending' <=> Pending)
      BY <3>1, <3>2, <3>3 DEF Pairs, Pending
    <3> QED
      BY <3>1, <3>3, <3>4 DEF RouteInv
  <2>3. CASE RouterInit("src", "dst")
    BY <2>3, RouterInitSrc
  <2>4. CASE RouterInit("dst", "src")
    BY <2>4, RouterInitDst
  <2>5. ASSUME NEW pe \in DOMAIN put, Put(pe) PROVE RouteInv'
    BY <2>5, PutInv
  <2>6. ASSUME NEW pe \in DOMAIN put, NEW q \in put[pe].ireqs, SendBuffered(pe, q) PROVE RouteInv'
    BY <2>6, SendBufferedInv
  <2>7. ASSUME NEW q \in DOMAIN get, Get(q) PROVE RouteInv'
    BY <2>7, GetInv
  <2>8. ASSUME NEW q \in DOMAIN get, NEW pe \in get[q].from, Arrive(pe, q) PROVE RouteInv'
    BY <2>8, ArriveInv
  <2> QED
    BY <1>2, <2>1, <2>2, <2>3, <2>4, <2>5, <2>6, <2>7, <2>8 DEF RouteNext, Sides
<1> QED
  BY <1>1, <1>2

LEMMA DeliveredFrom == ASSUME AllRoutable, RouteInv PROVE Delivered
<1> SUFFICES ASSUME NEW q \in DOMAIN get, ~get[q].waiting, get[q].round > 0
             PROVE  LET point == LocalPoints(layout.dst, q)
                    IN  /\ DOMAIN get[q].av = DOMAIN point
                        /\ \A i \in DOMAIN point :
                             point[i] \in Covered => get[q].av[i] = Value(point[i], get[q].round)
  BY DEF Delivered
<1>1. /\ Routable(layout) /\ q \in DOMAIN Gets(layout) /\ GetSound(layout, q, get[q])
  BY GetterFacts
<1>2. PointsOf(layout, "dst", q) = LocalPoints(layout.dst, q)
  BY <1>1, RoutableFacts
<1>3. Filled(layout, q, get[q]) /\ DOMAIN get[q].av = DOMAIN PointsOf(layout, "dst", q)
  BY <1>1 DEF GetSound
<1>4. Covered = CoveredBy(layout)
  BY DEF Covered, CoveredBy, Ranks
<1> QED
  BY <1>2, <1>3, <1>4 DEF Filled

LEMMA NoRankWaitsFrom == ASSUME RoundsAssumption, AllRoutable, RouteInv PROVE NoRankWaits
<1> SUFFICES ASSUME DOMAIN routers = {"src", "dst"},
                    \A pe \in Ranks("src") : ~MayPut(pe),
                    \A q \in Ranks("dst") : ~MayGet(q),
                    \A q \in Ranks("dst"), pe \in Ranks("src") : ~MayArrive(pe, q)
             PROVE  AllServed
  BY DEF NoRankWaits, RouteInv
<1>1. DOMAIN put = Ranks("src") /\ DOMAIN get = Ranks("dst") /\ DOMAIN wire = Ranks("src") \X Ranks("dst")
  BY DEF RouteInv, Shapes
<1>2. /\ \A pe \in Ranks("src") : PutSound(layout, pe, put[pe])
      /\ \A q \in Ranks("dst") : GetSound(layout, q, get[q])
  BY <1>1 DEF RouteInv
<1>3. ASSUME NEW pe \in Ranks("src"), NEW q \in Ranks("dst"), pe \in PartnersOf(layout, q)
      PROVE  Pair(layout, pe, q, wire[<<pe, q>>], Got(get[q], pe), put[pe].round)
  BY <1>3 DEF RouteInv, Pairs, PutOf, GotOf, WireOf
<1>4. ASSUME NEW pe \in Ranks("src"), NEW q \in Ranks("dst"), pe \notin PartnersOf(layout, q)
      PROVE  wire[<<pe, q>>] = <<>>
  BY <1>4 DEF RouteInv, Pairs, WireOf
\* A rank that has fields to get waits.
<1>5. \A q \in Ranks("dst") : /\ get[q].round \in 0 .. Rounds
                              /\ get[q].round # Rounds => get[q].waiting
  <2> TAKE q \in Ranks("dst")
  <2>1. get[q].round \in 0 .. Rounds /\ get[q].waiting \in BOOLEAN
    BY <1>2 DEF GetSound, Fields
  <2>2. ~(~get[q].waiting /\ get[q].round < Rounds)
    BY DEF MayGet
  <2>3. ASSUME NEW k \in 0 .. Rounds, k # Rounds PROVE k < Rounds
    BY <2>3, RoundsAssumption
  <2>4. get[q].round # Rounds => get[q].round < Rounds
    BY <2>1, <2>3
  <2> QED
    BY <2>1, <2>2, <2>4
\* The source of a rank that waits has put as many fields as it has got, and
\* waits itself for another rank, which has got fewer.
<1>6. ASSUME NEW q \in Ranks("dst"), get[q].waiting
      PROVE  \E r \in Ranks("dst") : get[r].waiting /\ get[r].round < get[q].round
  <2>1. get[q].from # {} /\ get[q].round < Rounds /\ get[q].from \subseteq PartnersOf(layout, q)
    BY <1>2, <1>6 DEF GetSound
  <2>2. PICK pe \in get[q].from : pe \in PartnersOf(layout, q)
    BY <2>1
  <2>3. pe \in Ranks("src")
    BY <1>1, <2>2, GetterFacts
  <2>4. wire[<<pe, q>>] = <<>>
    BY <2>2, <2>3 DEF MayArrive
  <2>5. Got(get[q], pe) = get[q].round
    BY <2>2 DEF Got
  <2>6. put[pe].round = get[q].round
    <3>1. Pair(layout, pe, q, <<>>, get[q].round, put[pe].round)
      BY <1>3, <2>2, <2>3, <2>4, <2>5
    <3>2. Len(<<>>) = 0
      OBVIOUS
    <3> QED
      BY <3>1, <3>2 DEF Pair
  <2>7. put[pe].ireqs # {}
    BY <2>1, <2>3, <2>6 DEF MayPut
  <2>8. PICK r : r \in put[pe].ireqs
    BY <2>7
  <2>9. r \in Ranks("dst") /\ pe \in PartnersOf(layout, r)
    <3>1. /\ \A t \in Ranks("dst") : t \in Range(Sends(layout)[pe].pe_list) <=> pe \in PartnersOf(layout, t)
          /\ Range(Sends(layout)[pe].pe_list) \subseteq Ranks("dst")
      BY <1>1, <2>3, SenderFacts
    <3> QED
      BY <1>2, <2>3, <2>8, <3>1 DEF PutSound
  <2>10. Got(get[r], pe) < put[pe].round
    BY <1>1, <2>3, <2>8 DEF RouteInv, Pending, GotOf
  <2>11. get[r].round < get[q].round
    BY <1>5, <2>6, <2>9, <2>10 DEF Got
  <2>12. get[r].waiting
    BY <1>5, <2>1, <2>9, <2>11
  <2> QED
    BY <2>9, <2>11, <2>12
<1>7. \A q \in Ranks("dst") : ~get[q].waiting
  <2> SUFFICES ASSUME NEW q \in Ranks("dst"), get[q].waiting PROVE FALSE
    OBVIOUS
  <2> DEFINE T == {get[r].round : r \in {r \in Ranks("dst") : get[r].waiting}}
  <2>1. T \subseteq Nat /\ T # {}
    BY <1>5, RoundsAssumption
  <2>2. PICK x \in T : \A y \in T : x <= y
    BY <2>1, LeastNumber
  <2>3. PICK r \in Ranks("dst") : get[r].waiting /\ get[r].round = x
    BY <2>2
  <2>4. PICK s \in Ranks("dst") : get[s].waiting /\ get[s].round < x
    BY <1>6, <2>3
  <2>5. get[s].round \in T
    BY <2>4
  <2> HIDE DEF T
  <2>6. x \in Nat /\ get[s].round \in Nat /\ x <= get[s].round
    BY <2>1, <2>2, <2>5
  <2>7. get[s].round < x
    BY <2>4
  <2>8. ASSUME NEW a \in Nat, NEW b \in Nat, a <= b, b < a PROVE FALSE
    BY <2>8
  <2> QED
    BY <2>6, <2>7, <2>8
<1>8. \A q \in Ranks("dst") : get[q].round = Rounds
  BY <1>5, <1>7
<1>9. \A pe \in Ranks("src"), q \in Ranks("dst") :
        pe \in PartnersOf(layout, q) => Got(get[q], pe) = Rounds
  BY <1>7, <1>8 DEF Got
<1>10. ASSUME NEW pe \in Ranks("src"), NEW q \in Ranks("dst") PROVE wire[<<pe, q>>] = <<>>
  <2>1. CASE pe \in PartnersOf(layout, q)
    <3>1. Pair(layout, pe, q, wire[<<pe, q>>], Rounds, put[pe].round)
      BY <1>3, <1>9, <2>1
    <3>2. put[pe].round = Rounds
      BY <3>1, RoundsAssumption DEF Pair
    <3>3. Len(wire[<<pe, q>>]) = 0 /\ wire[<<pe, q>>] \in Seq({Sent(layout, pe, q, k) : k \in 1 .. Rounds})
      BY <3>1, <3>2, RoundsAssumption DEF Pair
    <3> QED
      BY <3>3
  <2> QED
    BY <1>4, <2>1
<1>11. ASSUME NEW pe \in Ranks("src") PROVE put[pe].round = Rounds
  <2> SUFFICES ASSUME put[pe].round # Rounds PROVE FALSE
    OBVIOUS
  <2>1. put[pe].round \in 0 .. Rounds
    BY <1>2 DEF PutSound
  <2>2. put[pe].ireqs # {}
    BY <2>1, RoundsAssumption DEF MayPut
  <2>3. PICK r : r \in put[pe].ireqs
    BY <2>2
  <2>4. r \in Ranks("dst") /\ pe \in PartnersOf(layout, r)
    <3>1. /\ \A t \in Ranks("dst") : t \in Range(Sends(layout)[pe].pe_list) <=> pe \in PartnersOf(layout, t)
          /\ Range(Sends(layout)[pe].pe_list) \subseteq Ranks("dst")
      BY <1>1, SenderFacts
    <3> QED
      BY <1>2, <2>3, <3>1 DEF PutSound
  <2>5. Got(get[r], pe) < put[pe].round
    BY <1>1, <2>3 DEF RouteInv, Pending, GotOf
  <2> QED
    BY <1>9, <2>1, <2>4, <2>5, RoundsAssumption
<1>12. \A pq \in DOMAIN wire : wire[pq] = <<>>
  BY <1>1, <1>10
<1> QED
  BY <1>8, <1>11, <1>12 DEF AllServed

LEMMA RouteAlways == ASSUME AllRoutable PROVE RouteSpec => []RouteInv
<1>1. RouteInit => RouteInv
  BY RouteInitInv, RoundsAssumption
<1>2. RouteInv /\ [RouteNext]_routeVars => RouteInv'
  BY RouteStepInv, RoundsAssumption
<1> QED
  BY <1>1, <1>2, PTL DEF RouteSpec

\* Whatever the order in which the ranks of the two components put and get and MPI
\* buffers and delivers, when the mct_recv of a rank is over in round n each point
\* that the source has is where the program of the target has it, with the value
\* of the put of round n.
THEOREM FieldsAreDelivered ==
  ASSUME \A l \in Layouts : Routable(l) PROVE RouteSpec => []Delivered
<1>1. AllRoutable
  BY DEF AllRoutable
<1>2. RouteSpec => []RouteInv
  BY <1>1, RouteAlways
<1>3. RouteInv => Delivered
  BY <1>1, DeliveredFrom
<1> QED
  BY <1>2, <1>3, PTL

\* Between the ranks of two components there is no message of a length that is not
\* expected, and, however little MPI buffers, somebody can always go on until all
\* the fields are put and got: no circle of ranks that wait in mct_recv and in the
\* mct_waitsend of the next put.
THEOREM RanksGoOn ==
  ASSUME \A l \in Layouts : Routable(l) PROVE RouteSpec => []NoRankWaits
<1>1. AllRoutable
  BY DEF AllRoutable
<1>2. RouteSpec => []RouteInv
  BY <1>1, RouteAlways
<1>3. RouteInv => NoRankWaits
  BY <1>1, NoRankWaitsFrom, RoundsAssumption
<1> QED
  BY <1>2, <1>3, PTL

-----------------------------------------------------------------------------
(* Lists of segments in ascending order *)

\* s lists X in ascending order.
Lists(s, X) ==
  /\ s \in Seq(Nat) /\ Range(s) = X
  /\ \A i, j \in DOMAIN s : i < j => s[i] < s[j]

SameList(s, t) == Len(s) = Len(t) /\ \A k \in 1 .. Len(s) : s[k] = t[k]

\* There is one such list.
LEMMA OneList ==
  ASSUME NEW X, NEW s, NEW t, Lists(s, X), Lists(t, X)
  PROVE  SameList(s, t)
<1>1. /\ Len(s) \in Nat /\ DOMAIN s = 1 .. Len(s) /\ \A k \in 1 .. Len(s) : s[k] \in Nat /\ s[k] \in X
      /\ Len(t) \in Nat /\ DOMAIN t = 1 .. Len(t) /\ \A k \in 1 .. Len(t) : t[k] \in Nat /\ t[k] \in X
  BY SeqFacts DEF Lists
<1>2. \A x \in X : (\E k \in 1 .. Len(s) : s[k] = x) /\ (\E k \in 1 .. Len(t) : t[k] = x)
  BY SeqFacts DEF Lists
<1>3. /\ \A i, j \in 1 .. Len(s) : i < j => s[i] < s[j]
      /\ \A i, j \in 1 .. Len(t) : i < j => t[i] < t[j]
  BY <1>1 DEF Lists
<1> DEFINE Agree(k) == k \in 1 .. Len(s) /\ k \in 1 .. Len(t) /\ s[k] = t[k]
           Odd == {k \in Nat : (k \in 1 .. Len(s) \/ k \in 1 .. Len(t)) /\ ~Agree(k)}
<1>4. Odd = {}
  <2> SUFFICES ASSUME Odd # {} PROVE FALSE
    OBVIOUS
  <2>1. PICK k \in Odd : \A m \in Odd : k <= m
    BY LeastNumber
  <2>2. k \in Nat /\ (k \in 1 .. Len(s) \/ k \in 1 .. Len(t)) /\ ~Agree(k)
    BY <2>1
  <2>3. \A m \in 1 .. k - 1 : m \in 1 .. Len(s) \/ m \in 1 .. Len(t) => Agree(m)
    <3> TAKE m \in 1 .. k - 1
    <3>1. m \in Nat /\ ~(k <= m)
      BY <2>2
    <3> QED
      BY <2>1, <3>1
  <2>4. ASSUME k \in 1 .. Len(s) PROVE k \notin 1 .. Len(t)
    <3> SUFFICES ASSUME k \in 1 .. Len(t) PROVE FALSE
      OBVIOUS
    <3>1. s[k] \in Nat /\ t[k] \in Nat /\ s[k] # t[k]
      BY <1>1, <2>2, <2>4
    <3>2. CASE s[k] < t[k]
      <4>1. PICK m \in 1 .. Len(t) : t[m] = s[k]
        BY <1>1, <1>2, <2>4
      <4>2. m < k
        BY <1>1, <1>3, <3>1, <3>2, <4>1
      <4>3. s[m] = t[m] /\ m \in 1 .. Len(s)
        BY <2>3, <4>1, <4>2
      <4>4. s[m] < s[k]
        BY <1>3, <2>4, <4>2, <4>3
      <4> QED
        BY <3>1, <4>1, <4>3, <4>4
    <3>3. CASE t[k] < s[k]
      <4>1. PICK m \in 1 .. Len(s) : s[m] = t[k]
        BY <1>1, <1>2
      <4>2. m < k
        BY <1>1, <1>3, <2>4, <3>1, <3>3, <4>1
      <4>3. s[m] = t[m] /\ m \in 1 .. Len(t)
        BY <2>3, <4>1, <4>2
      <4>4. t[m] < t[k]
        BY <1>3, <4>2, <4>3
      <4> QED
        BY <3>1, <4>1, <4>3, <4>4
    <3> QED
      BY <3>1, <3>2, <3>3
  \* The longer list would have a number twice.
  <2>5. CASE k \in 1 .. Len(s)
    <3>1. k > Len(t)
      BY <1>1, <2>4, <2>5
    <3>2. PICK m \in 1 .. Len(t) : t[m] = s[k]
      BY <1>1, <1>2, <2>5
    <3>3. s[m] = t[m] /\ m < k /\ m \in 1 .. Len(s)
      BY <1>1, <2>2, <2>3, <3>1, <3>2
    <3>4. s[m] < s[k]
      BY <1>3, <2>5, <3>3
    <3> QED
      BY <1>1, <2>5, <3>2, <3>3, <3>4
  <2>6. CASE k \in 1 .. Len(t) /\ k \notin 1 .. Len(s)
    <3>1. k > Len(s)
      BY <1>1, <2>6
    <3>2. PICK m \in 1 .. Len(s) : s[m] = t[k]
      BY <1>1, <1>2, <2>6
    <3>3. s[m] = t[m] /\ m < k /\ m \in 1 .. Len(t)
      BY <1>1, <2>2, <2>3, <3>1, <3>2
    <3>4. t[m] < t[k]
      BY <1>3, <2>6, <3>3
    <3> QED
      BY <1>1, <2>6, <3>2, <3>3, <3>4
  <2> QED
    BY <2>2, <2>5, <2>6
<1>5. \A k \in Nat : k \in 1 .. Len(s) \/ k \in 1 .. Len(t) => Agree(k)
  BY <1>4
<1>6. \A k \in Nat : k \in 1 .. Len(s) <=> k \in 1 .. Len(t)
  BY <1>5
<1>7. Len(s) = Len(t)
  <2>1. Len(s) \in 1 .. Len(s) \/ Len(s) = 0
    BY <1>1
  <2>2. Len(t) \in 1 .. Len(t) \/ Len(t) = 0
    BY <1>1
  <2>3. Len(s) \in 1 .. Len(s) => Len(s) \in 1 .. Len(t)
    BY <1>1, <1>6
  <2>4. Len(t) \in 1 .. Len(t) => Len(t) \in 1 .. Len(s)
    BY <1>1, <1>6
  <2>5. Len(s) <= Len(t)
    BY <1>1, <2>1, <2>3
  <2>6. Len(t) <= Len(s)
    BY <1>1, <2>2, <2>4
  <2>7. Len(s) \in Nat /\ Len(t) \in Nat
    BY <1>1
  <2> QED
    BY <2>5, <2>6, <2>7
<1> QED
  BY <1>5, <1>7 DEF SameList

-----------------------------------------------------------------------------
(* Lists made by loops *)

\* What each step of a loop keeps holds at its end.
LEMMA LoopValues ==
  ASSUME NEW n \in Nat, NEW G, NEW h, h[0] \in G[0],
         \A i \in 1 .. n : h[i - 1] \in G[i - 1] => h[i] \in G[i]
  PROVE  \A i \in 0 .. n : h[i] \in G[i]
<1> DEFINE T == {i \in 0 .. n : h[i] \in G[i]}
<1>1. 0 \in T
  OBVIOUS
<1>2. \A i \in 0 .. n - 1 : i \in T => i + 1 \in T
  <2> SUFFICES ASSUME NEW i \in 0 .. n - 1, h[i] \in G[i] PROVE h[i + 1] \in G[i + 1]
    OBVIOUS
  <2>1. i + 1 \in 1 .. n /\ (i + 1) - 1 = i
    OBVIOUS
  <2> QED
    BY <2>1
<1> HIDE DEF T
<1>3. 0 .. n \subseteq T
  BY <1>1, <1>2, BoundedInduction
<1> QED
  BY <1>3 DEF T

LEMMA Concat ==
  ASSUME NEW T, NEW s \in Seq(T), NEW t \in Seq(T)
  PROVE  /\ s \o t \in Seq(T) /\ Len(s \o t) = Len(s) + Len(t)
         /\ \A m \in 1 .. Len(s) : (s \o t)[m] = s[m]
         /\ \A m \in 1 .. Len(t) : (s \o t)[Len(s) + m] = t[m]
  OBVIOUS

\* What putting one list after the other keeps
LEMMA FlattenValues ==
  ASSUME NEW T, NEW seqs \in Seq(Seq(T)), NEW G,
         \A i \in 0 .. Len(seqs) : G[i] \subseteq Seq(T),
         <<>> \in G[0],
         \A i \in 1 .. Len(seqs) : \A x \in G[i - 1] : x \o seqs[i] \in G[i]
  PROVE  FlattenSeq(seqs) \in G[Len(seqs)]
<1> DEFINE n == Len(seqs)
           IsFlat(f) == f = [i \in 1 .. n |-> IF i = 1 THEN seqs[i] ELSE f[i - 1] \o seqs[i]]
           flat == CHOOSE f : IsFlat(f)
           step == [z \in (1 .. n) \X Seq(T) |-> z[2] \o seqs[z[1]]]
<1>1. n \in Nat /\ \A i \in 1 .. n : seqs[i] \in Seq(T)
  OBVIOUS
<1>2. CASE n = 0
  <2>1. FlattenSeq(seqs) = seqs
    BY <1>2 DEF FlattenSeq
  <2>2. seqs = <<>>
    BY <1>2
  <2> QED
    BY <1>2, <2>1, <2>2
<1>3. CASE n # 0
  <2>1. FlattenSeq(seqs) = flat[n]
    BY <1>3 DEF FlattenSeq
  <2>2. \A i \in 1 .. n : \A x \in Seq(T) : step[<<i, x>>] = x \o seqs[i]
    BY <1>1
  <2>3. /\ \A i \in 1 .. n : i \in 0 .. n /\ i - 1 \in 0 .. n /\ i # 0 /\ (i # 1 => i - 1 \in 1 .. n)
        /\ 0 \in 0 .. n /\ n \in 0 .. n /\ n \in 1 .. n /\ 1 \in 1 .. n /\ 1 - 1 = 0
    BY <1>1, <1>3
  <2> HIDE DEF step, n
  <2>4. Leads(n, <<>>, step, G)
    <3>1. ASSUME NEW i \in 1 .. n, NEW x \in G[i - 1] PROVE step[<<i, x>>] \in G[i]
      <4>1. x \in Seq(T) /\ x \o seqs[i] \in G[i]
        BY <2>3 DEF n
      <4> QED
        BY <4>1, <2>2
    <3> QED
      BY <1>1, <3>1 DEF Leads
  <2>5. PICK f : Recursion(n, <<>>, step, f) /\ \A i \in 0 .. n : f[i] \in G[i]
    BY <2>4, RecursionExists
  <2>6. /\ f[0] = <<>>
        /\ \A i \in 1 .. n : f[i] = step[<<i, f[i - 1]>>]
    BY <2>3, <2>5 DEF Recursion
  <2>7. \A i \in 1 .. n : f[i - 1] \in Seq(T) /\ f[i] = f[i - 1] \o seqs[i]
    BY <2>2, <2>3, <2>5, <2>6 DEF n
  <2>8. \A x \in Seq(T) : <<>> \o x = x
    OBVIOUS
  <2>9. f[1] = seqs[1]
    BY <1>1, <2>3, <2>6, <2>7, <2>8
  <2> DEFINE h == [i \in 1 .. n |-> f[i]]
  <2>10. IsFlat(h)
    <3>1. \A i \in 1 .. n : f[i] = IF i = 1 THEN seqs[i] ELSE h[i - 1] \o seqs[i]
      BY <2>3, <2>7, <2>9
    <3> QED
      BY <3>1, Zenon
  <2>11. IsFlat(flat)
    BY <2>10, Zenon
  <2> HIDE DEF flat, h
  <2>12. \A i \in 1 .. n : flat[i] = IF i = 1 THEN seqs[i] ELSE flat[i - 1] \o seqs[i]
    BY <2>11, Zenon
  <2> DEFINE g == [i \in 0 .. n |-> IF i = 0 THEN <<>> ELSE flat[i]]
  <2>13. g[0] = <<>> /\ \A i \in 1 .. n : g[i] = flat[i]
    BY <2>3
  <2>14. \A i \in 1 .. n : i # 1 => g[i - 1] = flat[i - 1]
    BY <2>3, <2>13
  <2>15. \A i \in 1 .. n : g[i] = g[i - 1] \o seqs[i]
    <3> TAKE i \in 1 .. n
    <3>1. CASE i = 1
      BY <3>1, <1>1, <2>3, <2>8, <2>12, <2>13
    <3>2. CASE i # 1
      BY <3>2, <2>12, <2>13, <2>14
    <3> QED
      BY <3>1, <3>2
  <2> HIDE DEF g
  <2>16. \A i \in 0 .. n : g[i] \in G[i]
    <3>1. g[0] \in G[0]
      BY <2>13
    <3>2. \A i \in 1 .. n : g[i - 1] \in G[i - 1] => g[i] \in G[i]
      BY <2>15 DEF n
    <3> QED
      BY <1>1, <3>1, <3>2, LoopValues
  <2> QED
    BY <2>1, <2>3, <2>13, <2>16 DEF n
<1> QED
  BY <1>2, <1>3

\* What picking from a list keeps
LEMMA PickedValues ==
  ASSUME NEW T, NEW list \in Seq(T), NEW places, NEW G,
         \A n \in 0 .. Len(list) : G[n] \subseteq Seq(T),
         <<>> \in G[0],
         \A n \in 1 .. Len(list) : \A s \in G[n - 1] :
           IF n \in places THEN Append(s, list[n]) \in G[n] ELSE s \in G[n]
  PROVE  Picked(list, places) \in G[Len(list)]
<1> DEFINE m == Len(list)
           Is(f) == f = [n \in 0 .. m |->
                           IF n = 0 THEN <<>>
                           ELSE IF n \in places THEN Append(f[n - 1], list[n]) ELSE f[n - 1]]
           picked == CHOOSE f : Is(f)
           Next1(n, s) == IF n \in places THEN Append(s, list[n]) ELSE s
           step == [z \in (1 .. m) \X Seq(T) |-> Next1(z[1], z[2])]
<1>1. m \in Nat
  OBVIOUS
<1>2. /\ \A n \in 1 .. m : n \in 0 .. m /\ n - 1 \in 0 .. m /\ n # 0
      /\ 0 \in 0 .. m /\ m \in 0 .. m
  BY <1>1
<1>3. Picked(list, places) = picked[m]
  BY DEF Picked
<1>4. \A n \in 1 .. m : \A s \in G[n - 1] : Next1(n, s) \in G[n]
  OBVIOUS
<1>5. <<>> \in G[0] /\ \A n \in 0 .. m : G[n] \subseteq Seq(T)
  OBVIOUS
<1>7. \A n \in 1 .. m : \A s \in Seq(T) : step[<<n, s>>] = Next1(n, s)
  OBVIOUS
<1> HIDE DEF step, m, Next1
<1>9. Leads(m, <<>>, step, G)
  <2>1. ASSUME NEW n \in 1 .. m, NEW s \in G[n - 1] PROVE step[<<n, s>>] \in G[n]
    BY <1>2, <1>4, <1>5, <1>7
  <2> QED
    BY <1>1, <1>5, <2>1 DEF Leads
<1>10. PICK f : Recursion(m, <<>>, step, f) /\ \A n \in 0 .. m : f[n] \in G[n]
  BY <1>9, RecursionExists
<1>11. Is(f)
  <2>1. f = [n \in 0 .. m |-> IF n = 0 THEN <<>> ELSE step[<<n, f[n - 1]>>]]
    BY <1>10 DEF Recursion
  <2>2. \A n \in 0 .. m : n # 0 => step[<<n, f[n - 1]>>] = Next1(n, f[n - 1])
    <3>1. \A n \in 0 .. m : n # 0 => n \in 1 .. m /\ n - 1 \in 0 .. m
      BY <1>1
    <3> QED
      BY <3>1, <1>5, <1>7, <1>10
  <2>3. \A n \in 0 .. m : f[n] = IF n = 0 THEN <<>> ELSE Next1(n, f[n - 1])
    BY <2>1, <2>2, Zenon
  <2>4. f = [n \in 0 .. m |-> f[n]]
    BY <2>1, Zenon
  <2> QED
    BY <2>3, <2>4, Zenon DEF Next1
<1>12. Is(picked)
  BY <1>11, Zenon
<1> HIDE DEF picked
<1>13. picked[0] = <<>> /\ \A n \in 1 .. m : picked[n] = Next1(n, picked[n - 1])
  BY <1>2, <1>12 DEF Next1
<1>14. \A n \in 0 .. m : picked[n] \in G[n]
  <2>1. picked[0] \in G[0]
    BY <1>5, <1>13
  <2>2. \A n \in 1 .. m : picked[n - 1] \in G[n - 1] => picked[n] \in G[n]
    BY <1>4, <1>13
  <2> QED
    BY <1>1, <2>1, <2>2, LoopValues
<1> QED
  BY <1>2, <1>3, <1>14 DEF m

LEMMA AppendRange ==
  ASSUME NEW T, NEW s \in Seq(T), NEW x \in T
  PROVE  /\ Append(s, x) \in Seq(T) /\ Len(Append(s, x)) = Len(s) + 1
         /\ Range(Append(s, x)) = Range(s) \cup {x}
<1> DEFINE t == Append(s, x)
<1>1. t \in Seq(T) /\ Len(t) = Len(s) + 1
  OBVIOUS
<1>2. (\A k \in 1 .. Len(s) : t[k] = s[k]) /\ t[Len(s) + 1] = x
  OBVIOUS
<1> HIDE DEF t
<1>3. \A y : y \in Range(t) <=> \E k \in 1 .. Len(s) + 1 : t[k] = y
  BY <1>1, SeqFacts
<1>4. (\A y : y \in Range(s) <=> \E k \in 1 .. Len(s) : s[k] = y) /\ Len(s) \in Nat
  BY SeqFacts
<1>5. \A k : k \in 1 .. Len(s) + 1 <=> k \in 1 .. Len(s) \/ k = Len(s) + 1
  BY <1>4
<1>6. Range(t) = Range(s) \cup {x}
  BY <1>2, <1>3, <1>4, <1>5
<1> QED
  BY <1>1, <1>6 DEF t

\* What is picked of a list
LEMMA PickedFacts ==
  ASSUME NEW T, NEW list \in Seq(T), NEW places
  PROVE  /\ Picked(list, places) \in Seq(T)
         /\ Range(Picked(list, places)) = {list[n] : n \in places \cap (1 .. Len(list))}
<1> DEFINE m == Len(list)
           Upto(n) == {list[k] : k \in places \cap (1 .. n)}
           G == [n \in 0 .. m |-> {s \in Seq(T) : Range(s) = Upto(n)}]
<1>1. m \in Nat /\ \A n \in 1 .. m : list[n] \in T
  OBVIOUS
<1>2. \A n \in 1 .. m : n \in 0 .. m /\ n - 1 \in 0 .. m
  BY <1>1
<1>3. \A n \in 0 .. m : \A s : s \in G[n] <=> s \in Seq(T) /\ Range(s) = Upto(n)
  OBVIOUS
<1>4. <<>> \in G[0]
  <2>1. Range(<<>>) = {} /\ <<>> \in Seq(T) /\ Upto(0) = {} /\ 0 \in 0 .. m
    BY <1>1 DEF Range
  <2> HIDE DEF G, Upto
  <2> QED
    BY <2>1, <1>3
<1>5. \A n \in 1 .. m : Upto(n) = IF n \in places THEN Upto(n - 1) \cup {list[n]} ELSE Upto(n - 1)
  <2> TAKE n \in 1 .. m
  <2>1. \A k : k \in 1 .. n <=> k \in 1 .. n - 1 \/ k = n
    OBVIOUS
  <2> QED
    BY <2>1
<1> HIDE DEF G, Upto
<1>6. ASSUME NEW n \in 1 .. m, NEW s \in G[n - 1]
      PROVE  IF n \in places THEN Append(s, list[n]) \in G[n] ELSE s \in G[n]
  <2>1. s \in Seq(T) /\ Range(s) = Upto(n - 1) /\ list[n] \in T
    BY <1>1, <1>2, <1>3
  <2>2. Append(s, list[n]) \in Seq(T) /\ Range(Append(s, list[n])) = Range(s) \cup {list[n]}
    BY <2>1, AppendRange
  <2> QED
    BY <1>2, <1>3, <1>5, <2>1, <2>2
<1>7. \A n \in 0 .. m : G[n] \subseteq Seq(T)
  BY <1>3
<1>8. Picked(list, places) \in G[m]
  BY <1>4, <1>6, <1>7, PickedValues
<1> QED
  BY <1>1, <1>3, <1>8 DEF Upto

\* One place of a list
LEMMA PickedOne ==
  ASSUME NEW T, NEW list \in Seq(T), NEW k \in 1 .. Len(list), NEW places,
         \A n \in 1 .. Len(list) : n \in places <=> n = k
  PROVE  Picked(list, places) = <<list[k]>>
<1> DEFINE m == Len(list)
           Upto(n) == IF k <= n THEN <<list[k]>> ELSE <<>>
           G == [n \in 0 .. m |-> {Upto(n)}]
<1>1. m \in Nat /\ list[k] \in T
  OBVIOUS
<1>2. /\ \A n \in 1 .. m : n \in 0 .. m /\ n - 1 \in 0 .. m
      /\ 0 \in 0 .. m /\ m \in 0 .. m /\ k <= m /\ ~(k <= 0)
  BY <1>1
<1>3. \A n \in 0 .. m : G[n] = {Upto(n)}
  OBVIOUS
<1>4. \A n : Upto(n) \in Seq(T)
  <2>1. <<>> \in Seq(T) /\ <<list[k]>> \in Seq(T)
    BY <1>1
  <2> QED
    BY <2>1
<1>5. \A n \in 1 .. m : Upto(n) = IF n \in places THEN Append(Upto(n - 1), list[n]) ELSE Upto(n - 1)
  <2> TAKE n \in 1 .. m
  <2>1. CASE n = k
    <3>1. k <= n /\ ~(k <= n - 1) /\ n \in places
      BY <2>1
    <3>2. Append(<<>>, list[k]) = <<list[k]>>
      OBVIOUS
    <3> QED
      BY <2>1, <3>1, <3>2
  <2>2. CASE n # k
    <3>1. n \notin places /\ (k <= n <=> k <= n - 1)
      BY <2>2
    <3> QED
      BY <3>1
  <2> QED
    BY <2>1, <2>2
<1>6. Upto(0) = <<>> /\ Upto(m) = <<list[k]>>
  BY <1>2
<1> HIDE DEF G, Upto, m
<1>7. Picked(list, places) \in G[m]
  <2>1. \A n \in 0 .. m : G[n] \subseteq Seq(T)
    BY <1>3, <1>4
  <2>2. <<>> \in G[0]
    BY <1>2, <1>3, <1>6
  <2>3. \A n \in 1 .. m : \A s \in G[n - 1] :
          IF n \in places THEN Append(s, list[n]) \in G[n] ELSE s \in G[n]
    <3> TAKE n \in 1 .. m
    <3> TAKE s \in G[n - 1]
    <3>1. s = Upto(n - 1) /\ \A t : t = Upto(n) => t \in G[n]
      BY <1>2, <1>3
    <3>2. Upto(n) = IF n \in places THEN Append(Upto(n - 1), list[n]) ELSE Upto(n - 1)
      BY <1>5
    <3> QED
      BY <3>1, <3>2
  <2> QED
    BY <2>1, <2>2, <2>3, PickedValues DEF m
<1> QED
  BY <1>2, <1>3, <1>6, <1>7

-----------------------------------------------------------------------------
(* The points of segments *)

\* The points of all the segments of a list
SetOf(segs) == UNION {PointSet(segs[n]) : n \in DOMAIN segs}

\* The segments have points, and none begins before the end of an earlier one.
Ascends(segs) ==
  /\ \A n \in DOMAIN segs : segs[n].start \in Nat /\ segs[n].length \in Nat \ {0}
  /\ \A i, j \in DOMAIN segs : i < j => segs[i].start + segs[i].length <= segs[j].start

PointList(segs) == FlattenSeq([n \in DOMAIN segs |-> Points(segs[n])])

LEMMA ListsConcat ==
  ASSUME NEW X, NEW Y, NEW s, NEW t, Lists(s, X), Lists(t, Y), \A x \in X, y \in Y : x < y
  PROVE  Lists(s \o t, X \cup Y)
<1> DEFINE st == s \o t
           a == Len(s)
           b == Len(t)
<1>1. /\ a \in Nat /\ DOMAIN s = 1 .. a /\ \A k \in 1 .. a : s[k] \in Nat /\ s[k] \in X
      /\ b \in Nat /\ DOMAIN t = 1 .. b /\ \A k \in 1 .. b : t[k] \in Nat /\ t[k] \in Y
  BY SeqFacts DEF Lists
<1>2. /\ \A x : x \in X <=> \E k \in 1 .. a : s[k] = x
      /\ \A y : y \in Y <=> \E k \in 1 .. b : t[k] = y
  BY SeqFacts DEF Lists
<1>3. /\ \A i, j \in 1 .. a : i < j => s[i] < s[j]
      /\ \A i, j \in 1 .. b : i < j => t[i] < t[j]
  BY <1>1 DEF Lists
<1>4. st \in Seq(Nat) /\ Len(st) = a + b /\ DOMAIN st = 1 .. a + b
  BY DEF Lists
<1>5. /\ \A k \in 1 .. a : st[k] = s[k]
      /\ \A k \in 1 .. b : st[a + k] = t[k]
  BY DEF Lists
<1> HIDE DEF st, a, b
<1>6. \A k \in 1 .. a + b : k \in 1 .. a \/ (k - a \in 1 .. b /\ k = a + (k - a))
  BY <1>1
<1>7. \A k : (k \in 1 .. a => k \in 1 .. a + b) /\ (k \in 1 .. b => a + k \in 1 .. a + b)
  BY <1>1
<1>8. Range(st) = X \cup Y
  <2>1. \A x : x \in Range(st) <=> \E k \in 1 .. a + b : st[k] = x
    BY <1>4, SeqFacts
  <2>2. ASSUME NEW x \in Range(st) PROVE x \in X \cup Y
    <3>1. PICK k \in 1 .. a + b : st[k] = x
      BY <2>1
    <3>2. CASE k \in 1 .. a
      BY <3>1, <3>2, <1>1, <1>5
    <3>3. CASE k - a \in 1 .. b /\ k = a + (k - a)
      <4>1. st[k] = t[k - a] /\ t[k - a] \in Y
        BY <3>3, <1>1, <1>5
      <4> QED
        BY <3>1, <4>1
    <3> QED
      BY <3>2, <3>3, <1>6
  <2>3. \A x : x \in X \cup Y => x \in Range(st)
    BY <2>1, <1>2, <1>5, <1>7
  <2> QED
    BY <2>2, <2>3
<1>9. ASSUME NEW i \in 1 .. a + b, NEW j \in 1 .. a + b, i < j PROVE st[i] < st[j]
  <2>1. CASE i \in 1 .. a /\ j \in 1 .. a
    BY <2>1, <1>3, <1>5, <1>9
  <2>2. CASE i \in 1 .. a /\ j \notin 1 .. a
    <3>1. j - a \in 1 .. b /\ j = a + (j - a)
      BY <1>6, <2>2
    <3>2. st[i] = s[i] /\ st[j] = t[j - a] /\ s[i] \in X /\ t[j - a] \in Y
      BY <1>1, <1>5, <2>2, <3>1
    <3> QED
      BY <3>2
  <2>3. CASE i \notin 1 .. a
    <3>1. j \notin 1 .. a
      BY <1>1, <1>9, <2>3
    <3>2. i - a \in 1 .. b /\ i = a + (i - a) /\ j - a \in 1 .. b /\ j = a + (j - a)
      BY <1>6, <2>3, <3>1
    <3>3. st[i] = t[i - a] /\ st[j] = t[j - a]
      BY <1>5, <3>2
    <3>4. i - a < j - a
      BY <1>1, <1>9
    <3> QED
      BY <1>3, <3>2, <3>3, <3>4
  <2> QED
    BY <2>1, <2>2, <2>3
<1> QED
  BY <1>4, <1>8, <1>9 DEF Lists, st

\* One segment.
LEMMA PointsLists ==
  ASSUME NEW seg, seg.start \in Nat, seg.length \in Nat
  PROVE  Lists(Points(seg), PointSet(seg)) /\ Len(Points(seg)) = seg.length
<1>1. Points(seg) = [k \in 1 .. seg.length |-> seg.start + k - 1]
  BY DEF Points
<1>2. \A k \in 1 .. seg.length : seg.start + k - 1 \in Nat
  OBVIOUS
<1>3. Points(seg) \in [1 .. seg.length -> Nat]
  BY <1>1, <1>2
<1>4. Points(seg) \in Seq(Nat) /\ Len(Points(seg)) = seg.length
  <2>1. Points(seg) \in Seq(Nat)
    BY <1>3
  <2>2. DOMAIN Points(seg) = 1 .. seg.length /\ DOMAIN Points(seg) = 1 .. Len(Points(seg))
    BY <1>3, <2>1
  <2> QED
    BY <2>1, <2>2
<1>5. \A x : x \in Range(Points(seg)) <=> \E k \in 1 .. seg.length : seg.start + k - 1 = x
  BY <1>1, <1>4, SeqFacts
<1>6. \A x : x \in PointSet(seg) <=> \E k \in 1 .. seg.length : seg.start + k - 1 = x
  <2>1. ASSUME NEW x \in PointSet(seg) PROVE \E k \in 1 .. seg.length : seg.start + k - 1 = x
    <3>1. x - seg.start + 1 \in 1 .. seg.length /\ seg.start + (x - seg.start + 1) - 1 = x
      BY DEF PointSet
    <3> QED
      BY <3>1
  <2>2. \A k \in 1 .. seg.length : seg.start + k - 1 \in PointSet(seg)
    BY DEF PointSet
  <2> QED
    BY <2>1, <2>2
<1>7. Range(Points(seg)) = PointSet(seg)
  BY <1>5, <1>6
<1>8. \A i, j \in 1 .. seg.length : i < j => seg.start + i - 1 < seg.start + j - 1
  OBVIOUS
<1>9. \A i, j \in DOMAIN Points(seg) : i < j => Points(seg)[i] < Points(seg)[j]
  BY <1>1, <1>8
<1> QED
  BY <1>4, <1>7, <1>9 DEF Lists

\* The points of segments that ascend, one segment after the other, ascend.
LEMMA PointListLists ==
  ASSUME NEW T, NEW segs \in Seq(T), Ascends(segs)
  PROVE  Lists(PointList(segs), SetOf(segs))
<1> DEFINE n == Len(segs)
           seqs == [i \in DOMAIN segs |-> Points(segs[i])]
           Upto(i) == UNION {PointSet(segs[k]) : k \in 1 .. i}
           G == [i \in 0 .. n |-> {s \in Seq(Nat) : Lists(s, Upto(i))}]
<1>1. n \in Nat /\ DOMAIN segs = 1 .. n
  OBVIOUS
<1>2. /\ \A i \in 1 .. n : segs[i].start \in Nat /\ segs[i].length \in Nat \ {0}
      /\ \A i, j \in 1 .. n : i < j => segs[i].start + segs[i].length <= segs[j].start
  BY <1>1 DEF Ascends
<1>3. \A i \in 1 .. n : Lists(Points(segs[i]), PointSet(segs[i])) /\ Points(segs[i]) \in Seq(Nat)
  BY <1>2, PointsLists DEF Lists
<1>4. seqs \in Seq(Seq(Nat)) /\ Len(seqs) = n /\ \A i \in 1 .. n : seqs[i] = Points(segs[i])
  <2>1. seqs \in [1 .. n -> Seq(Nat)]
    BY <1>1, <1>3
  <2>2. seqs \in Seq(Seq(Nat))
    BY <2>1, <1>1
  <2>3. DOMAIN seqs = 1 .. Len(seqs) /\ DOMAIN seqs = 1 .. n /\ Len(seqs) \in Nat
    BY <2>1, <2>2
  <2> QED
    BY <1>1, <2>2, <2>3
<1>5. \A i \in 1 .. n : Upto(i) = Upto(i - 1) \cup PointSet(segs[i])
  <2> TAKE i \in 1 .. n
  <2>1. \A k : k \in 1 .. i <=> k \in 1 .. i - 1 \/ k = i
    BY <1>1
  <2> QED
    BY <2>1
<1>6. \A i \in 1 .. n : \A x \in Upto(i - 1), y \in PointSet(segs[i]) : x < y
  <2> TAKE i \in 1 .. n
  <2> TAKE x \in Upto(i - 1), y \in PointSet(segs[i])
  <2>1. PICK k \in 1 .. i - 1 : x \in PointSet(segs[k])
    OBVIOUS
  <2>2. k \in 1 .. n /\ k < i
    BY <1>1
  <2>3. segs[k].start + segs[k].length <= segs[i].start
    BY <1>2, <2>2
  <2>4. x <= segs[k].start + segs[k].length - 1 /\ segs[i].start <= y /\ x \in Int /\ y \in Int
    BY <1>2, <2>1, <2>2 DEF PointSet
  <2> QED
    BY <1>2, <2>2, <2>3, <2>4, SMTT(30)
<1>7. Lists(<<>>, {})
  BY DEF Lists, Range
<1>8. Upto(0) = {} /\ Upto(n) = SetOf(segs)
  BY <1>1 DEF SetOf
<1>9. \A i \in 0 .. n : \A s : s \in G[i] <=> s \in Seq(Nat) /\ Lists(s, Upto(i))
  OBVIOUS
<1>i. 0 \in 0 .. n /\ n \in 0 .. n /\ \A i \in 1 .. n : i \in 0 .. n /\ i - 1 \in 0 .. n
  BY <1>1
<1> HIDE DEF Upto, G, n
<1>10. <<>> \in G[0]
  <2>1. <<>> \in Seq(Nat)
    OBVIOUS
  <2>2. Lists(<<>>, Upto(0))
    BY <1>7, <1>8, Zenon
  <2> QED
    BY <2>1, <2>2, <1>9, <1>i
<1>11. ASSUME NEW i \in 1 .. n, NEW x \in G[i - 1] PROVE x \o seqs[i] \in G[i]
  <2>1. Lists(x, Upto(i - 1))
    BY <1>9, <1>i
  <2>2. Lists(x \o Points(segs[i]), Upto(i))
    BY <2>1, <1>3, <1>5, <1>6, ListsConcat
  <2>3. x \o Points(segs[i]) \in Seq(Nat)
    BY <2>2 DEF Lists
  <2> QED
    BY <2>2, <2>3, <1>4, <1>9, <1>i
<1>12. FlattenSeq(seqs) \in G[n]
  <2>1. \A i \in 0 .. n : G[i] \subseteq Seq(Nat)
    BY <1>9
  <2> HIDE DEF seqs
  <2> QED
    BY <2>1, <1>4, <1>10, <1>11, FlattenValues
<1> QED
  BY <1>8, <1>9, <1>12, <1>i DEF PointList

\* Where the points of a segment are among the points of all
LEMMA PlacesOfSegments ==
  ASSUME NEW T, NEW segs \in Seq(T), Ascends(segs),
         NEW lstart, \A i \in 1 .. Len(segs) :
                       lstart[i] = IF i = 1 THEN 1 ELSE lstart[i - 1] + segs[i - 1].length
  PROVE  \A i \in 1 .. Len(segs) :
           /\ lstart[i] \in Nat \ {0}
           /\ \A m \in 0 .. segs[i].length - 1 :
                /\ lstart[i] + m \in 1 .. Len(PointList(segs))
                /\ PointList(segs)[lstart[i] + m] = segs[i].start + m
<1> DEFINE n == Len(segs)
           seqs == [i \in DOMAIN segs |-> Points(segs[i])]
           end(i) == IF i = 0 THEN 0 ELSE lstart[i] + segs[i].length - 1
           Good(i, s) == /\ end(i) \in Nat /\ Len(s) = end(i)
                         /\ \A k \in 1 .. i : lstart[k] \in Nat \ {0}
                         /\ \A k \in 1 .. i : \A m \in 0 .. segs[k].length - 1 :
                              lstart[k] + m \in 1 .. end(i) /\ s[lstart[k] + m] = segs[k].start + m
           G == [i \in 0 .. n |-> {s \in Seq(Nat) : Good(i, s)}]
<1>1. n \in Nat /\ DOMAIN segs = 1 .. n
  OBVIOUS
<1>2. \A i \in 1 .. n : segs[i].start \in Nat /\ segs[i].length \in Nat \ {0}
  BY <1>1 DEF Ascends
<1>3. /\ \A i \in 1 .. n : /\ Points(segs[i]) \in Seq(Nat) /\ Len(Points(segs[i])) = segs[i].length
      /\ \A i \in 1 .. n : \A k \in 1 .. segs[i].length : Points(segs[i])[k] = segs[i].start + k - 1
  <2>1. \A i \in 1 .. n : Points(segs[i]) \in Seq(Nat) /\ Len(Points(segs[i])) = segs[i].length
    BY <1>2, PointsLists DEF Lists
  <2>2. \A i \in 1 .. n : \A k \in 1 .. segs[i].length : Points(segs[i])[k] = segs[i].start + k - 1
    BY DEF Points
  <2> QED
    BY <2>1, <2>2
<1>4. seqs \in Seq(Seq(Nat)) /\ Len(seqs) = n /\ \A i \in 1 .. n : seqs[i] = Points(segs[i])
  <2>1. seqs \in [1 .. n -> Seq(Nat)]
    BY <1>1, <1>3
  <2>2. seqs \in Seq(Seq(Nat))
    BY <2>1, <1>1
  <2>3. DOMAIN seqs = 1 .. Len(seqs) /\ DOMAIN seqs = 1 .. n /\ Len(seqs) \in Nat
    BY <2>1, <2>2
  <2> QED
    BY <1>1, <2>2, <2>3
<1>5. lstart[1] = 1 \/ n = 0
  BY <1>1
<1>6. \A i \in 1 .. n : /\ i \in 0 .. n /\ i - 1 \in 0 .. n /\ i # 0
                        /\ i # 1 => i - 1 \in 1 .. n /\ i - 1 # 0
  BY <1>1
<1>7. \A i \in 1 .. n : end(i) = lstart[i] + segs[i].length - 1
  BY <1>6
\* A segment begins after the last place of the one before it.
<1>8. ASSUME NEW i \in 1 .. n, \A k \in 1 .. i - 1 : lstart[k] \in Nat \ {0}
      PROVE  lstart[i] = end(i - 1) + 1 /\ end(i - 1) \in Nat
  <2>1. CASE i = 1
    BY <2>1, <1>5
  <2>2. CASE i # 1
    <3>1. lstart[i] = lstart[i - 1] + segs[i - 1].length
      BY <2>2
    <3>2. end(i - 1) = lstart[i - 1] + segs[i - 1].length - 1 /\ segs[i - 1].length \in Nat
      BY <1>2, <1>6, <1>7, <2>2
    <3>3. lstart[i - 1] \in Nat \ {0}
      BY <1>8, <2>2, i - 1 \in 1 .. i - 1
    <3> HIDE DEF end
    <3> QED
      BY <3>1, <3>2, <3>3
  <2> QED
    BY <2>1, <2>2
<1>9. \A i \in 0 .. n : \A s : s \in G[i] <=> s \in Seq(Nat) /\ Good(i, s)
  OBVIOUS
<1>10. <<>> \in G[0]
  <2>1. <<>> \in Seq(Nat) /\ Good(0, <<>>)
    OBVIOUS
  <2> QED
    BY <2>1, <1>1, <1>9
<1> HIDE DEF G, n, seqs
<1>11. ASSUME NEW i \in 1 .. n, NEW s \in G[i - 1] PROVE s \o seqs[i] \in G[i]
  <2> DEFINE e == end(i - 1)
             len == segs[i].length
             P == Points(segs[i])
             new == s \o P
  <2>1. s \in Seq(Nat) /\ Good(i - 1, s)
    BY <1>6, <1>9
  <2>2. e \in Nat /\ Len(s) = e /\ lstart[i] = e + 1
    BY <2>1, <1>8
  <2>3. len \in Nat \ {0} /\ P \in Seq(Nat) /\ Len(P) = len
    BY <1>2, <1>3
  <2>4. end(i) = e + len
    <3>1. end(i) = lstart[i] + len - 1
      BY <1>7
    <3> HIDE DEF e, len, end
    <3> QED
      BY <2>2, <2>3, <3>1
  <2>5. new \in Seq(Nat) /\ Len(new) = e + len
    <3>1. new \in Seq(Nat) /\ Len(new) = Len(s) + Len(P)
      <4>1. s \in Seq(Nat) /\ P \in Seq(Nat)
        BY <2>1, <2>3
      <4> HIDE DEF P, Good
      <4> QED
        BY <4>1, Concat
    <3> HIDE DEF new, P, e, len, end
    <3> QED
      BY <2>2, <2>3, <3>1
  <2>6. /\ \A m \in 1 .. e : new[m] = s[m]
        /\ \A m \in 1 .. len : new[e + m] = P[m]
    <3>1. /\ \A m \in 1 .. Len(s) : new[m] = s[m]
          /\ \A m \in 1 .. Len(P) : new[Len(s) + m] = P[m]
      <4>1. s \in Seq(Nat) /\ P \in Seq(Nat)
        BY <2>1, <2>3
      <4> HIDE DEF P, Good
      <4> QED
        BY <4>1, Concat
    <3> HIDE DEF new, P, e, len, end
    <3> QED
      BY <2>2, <2>3, <3>1
  <2>7. /\ \A k \in 1 .. i - 1 : lstart[k] \in Nat \ {0}
        /\ \A k \in 1 .. i - 1 : \A m \in 0 .. segs[k].length - 1 :
             lstart[k] + m \in 1 .. e /\ s[lstart[k] + m] = segs[k].start + m
    BY <2>1
  <2>8. \A k : k \in 1 .. i <=> k \in 1 .. i - 1 \/ k = i
    BY <1>1
  <2> HIDE DEF new, e, end, len
  <2>9. ASSUME NEW k \in 1 .. i PROVE lstart[k] \in Nat \ {0}
    BY <2>2, <2>7, <2>8
  <2>10. ASSUME NEW k \in 1 .. i, NEW m \in 0 .. segs[k].length - 1
         PROVE  lstart[k] + m \in 1 .. e + len /\ new[lstart[k] + m] = segs[k].start + m
    <3>1. CASE k = i
      <4>1. m \in 0 .. len - 1
        BY <3>1 DEF len
      <4>2. m + 1 \in 1 .. len /\ lstart[k] + m = e + (m + 1) /\ e + (m + 1) \in 1 .. e + len
        <5>1. lstart[k] = e + 1
          BY <2>2, <3>1
        <5>2. e \in Nat /\ len \in Nat
          BY <2>2, <2>3
        <5>3. ASSUME NEW a \in Nat, NEW b \in Nat, NEW c \in 0 .. b - 1
              PROVE  c + 1 \in 1 .. b /\ (a + 1) + c = a + (c + 1) /\ a + (c + 1) \in 1 .. a + b
          OBVIOUS
        <5> QED
          BY <4>1, <5>1, <5>2, <5>3
      <4>3. P[m + 1] = segs[i].start + m
        <5>1. P[m + 1] = segs[i].start + (m + 1) - 1
          BY <1>3, <4>2 DEF len
        <5> QED
          BY <1>2, <4>1, <5>1, <2>3
      <4>4. new[e + (m + 1)] = P[m + 1]
        BY <2>6, <4>2
      <4> QED
        BY <3>1, <4>2, <4>3, <4>4
    <3>2. CASE k \in 1 .. i - 1
      <4>1. lstart[k] + m \in 1 .. e /\ s[lstart[k] + m] = segs[k].start + m
        BY <2>7, <3>2
      <4>2. lstart[k] + m \in 1 .. e + len
        BY <2>2, <2>3, <4>1
      <4> QED
        BY <2>6, <4>1, <4>2
    <3> QED
      BY <2>8, <3>1, <3>2
  <2>11. Good(i, new)
    BY <2>2, <2>3, <2>4, <2>5, <2>9, <2>10
  <2>12. seqs[i] = P
    BY <1>4
  <2> HIDE DEF Good
  <2> QED
    BY <2>5, <2>11, <2>12, <1>6, <1>9 DEF new
<1>12. FlattenSeq(seqs) \in G[n]
  <2>1. \A i \in 0 .. n : G[i] \subseteq Seq(Nat)
    BY <1>9
  <2> QED
    BY <2>1, <1>4, <1>10, <1>11, FlattenValues
<1>13. Good(n, PointList(segs))
  <2>1. FlattenSeq(seqs) = PointList(segs)
    BY DEF PointList, seqs
  <2>2. n \in 0 .. n
    BY <1>1
  <2> HIDE DEF Good
  <2> QED
    BY <2>1, <2>2, <1>9, <1>12
<1> QED
  BY <1>13 DEF n

-----------------------------------------------------------------------------
(* What two lists of segments have in common *)

Spans == [start : Nat, length : Nat]

\* new has the segments, or the points, of segs and these.
Longer(new, segs, start, length) ==
  /\ new \in Seq(Spans) /\ Ascends(new)
  /\ SetOf(new) = SetOf(segs) \cup (start .. start + length - 1)

\* A span after all others is added, to the last of them or behind it.
LEMMA AddSpanAscends ==
  ASSUME NEW segs \in Seq(Spans), Ascends(segs),
         NEW start \in Nat, NEW length \in Nat \ {0}, \A x \in SetOf(segs) : x < start
  PROVE  Longer(AddSpan(segs, start, length), segs, start, length)
<1> DEFINE n == Len(segs)
           new == AddSpan(segs, start, length)
<1>1. n \in Nat /\ DOMAIN segs = 1 .. n /\ \A k \in 1 .. n : segs[k] \in Spans
  OBVIOUS
<1>2. /\ \A k \in 1 .. n : segs[k].start \in Nat /\ segs[k].length \in Nat \ {0}
      /\ \A i, j \in 1 .. n : i < j => segs[i].start + segs[i].length <= segs[j].start
  BY <1>1 DEF Ascends
<1>3. \A k \in 1 .. n : PointSet(segs[k]) = segs[k].start .. segs[k].start + segs[k].length - 1
  BY DEF PointSet
<1>4. \A k \in 1 .. n : segs[k].start + segs[k].length <= start
  <2> TAKE k \in 1 .. n
  <2> DEFINE x == segs[k].start + segs[k].length - 1
  <2>1. x \in PointSet(segs[k]) /\ x \in Nat
    BY <1>2, <1>3
  <2>2. x \in SetOf(segs)
    BY <1>1, <2>1 DEF SetOf
  <2>3. x < start
    BY <2>2
  <2> QED
    BY <1>2, <2>1, <2>3
<1>5. CASE n # 0 /\ segs[n].start + segs[n].length = start
  <2> DEFINE last == [start |-> segs[n].start, length |-> segs[n].length + length]
  <2>1. n \in 1 .. n
    BY <1>1, <1>5
  <2>2. segs # <<>> /\ Last(segs) = segs[n]
    BY <1>1, <1>5 DEF Last
  <2>3. new = [segs EXCEPT ![n].length = @ + length]
    BY <1>5, <2>2 DEF AddSpan
  <2>4. [segs[n] EXCEPT !.length = @ + length] = last
    BY <1>1, <2>1 DEF Spans
  <2>5. new = [segs EXCEPT ![n] = last]
    BY <2>3, <2>4
  <2>6. last \in Spans /\ last.start = segs[n].start /\ last.length = segs[n].length + length
    BY <1>2, <2>1 DEF Spans
  <2> HIDE DEF last, new
  <2>7. new \in Seq(Spans) /\ Len(new) = n /\ DOMAIN new = 1 .. n
    <3>1. new \in [1 .. n -> Spans]
      BY <1>1, <2>1, <2>5, <2>6
    <3>2. new \in Seq(Spans)
      BY <1>1, <3>1
    <3>3. DOMAIN new = 1 .. n /\ DOMAIN new = 1 .. Len(new) /\ Len(new) \in Nat
      BY <3>1, <3>2
    <3> QED
      BY <1>1, <3>2, <3>3
  <2>8. new[n] = last /\ \A k \in 1 .. n : k # n => new[k] = segs[k]
    BY <1>1, <2>1, <2>5
  <2>9. PointSet(last) = PointSet(segs[n]) \cup (start .. start + length - 1)
    <3>1. ASSUME NEW a \in Nat, NEW b \in Nat, a + b = start
          PROVE  a .. a + (b + length) - 1 = (a .. a + b - 1) \cup (start .. start + length - 1)
      BY <3>1
    <3>2. PointSet(last) = segs[n].start .. segs[n].start + (segs[n].length + length) - 1
      BY <2>6 DEF PointSet
    <3>3. segs[n].start \in Nat /\ segs[n].length \in Nat
      BY <1>2, <2>1
    <3>4. PointSet(segs[n]) = segs[n].start .. segs[n].start + segs[n].length - 1
      BY <1>3, <2>1
    <3>5. segs[n].start + segs[n].length = start
      BY <1>5
    <3> HIDE DEF n
    <3>6. PICK a \in Nat : a = segs[n].start
      BY <3>3
    <3>7. PICK b \in Nat : b = segs[n].length
      BY <3>3
    <3>8. PointSet(last) = a .. a + (b + length) - 1
      BY <3>2, <3>6, <3>7, Zenon
    <3>9. PointSet(segs[n]) = a .. a + b - 1 /\ a + b = start
      BY <3>4, <3>5, <3>6, <3>7, Zenon
    <3> QED
      BY <3>1, <3>8, <3>9
  <2>10. SetOf(new) = SetOf(segs) \cup (start .. start + length - 1)
    <3>1. \A x : x \in SetOf(new) <=> \E k \in 1 .. n : x \in PointSet(new[k])
      BY <2>7 DEF SetOf
    <3>2. \A x : x \in SetOf(segs) <=> \E k \in 1 .. n : x \in PointSet(segs[k])
      BY <1>1 DEF SetOf
    <3> QED
      BY <2>1, <2>8, <2>9, <3>1, <3>2
  <2>11. Ascends(new)
    <3>1. \A k \in 1 .. n : new[k].start = segs[k].start /\ new[k].length \in Nat \ {0}
      BY <1>2, <2>1, <2>6, <2>8
    <3>2. ASSUME NEW i \in 1 .. n, NEW j \in 1 .. n, i < j
          PROVE  new[i].start + new[i].length <= new[j].start
      <4>1. i # n
        <5> HIDE DEF n
        <5> QED
          BY <1>1, <3>2
      <4>2. new[i] = segs[i] /\ new[j].start = segs[j].start
        BY <2>8, <3>1, <4>1
      <4> QED
        BY <1>2, <3>2, <4>2
    <3>3. \A k \in 1 .. n : new[k].start \in Nat
      BY <1>2, <3>1
    <3> QED
      BY <2>7, <3>1, <3>2, <3>3 DEF Ascends
  <2> QED
    BY <2>7, <2>10, <2>11 DEF new, Longer
<1>6. CASE ~(n # 0 /\ segs[n].start + segs[n].length = start)
  <2> DEFINE seg == Segment(start, length)
  <2>1. new = Append(segs, seg)
    <3>1. segs # <<>> <=> n # 0
      BY <1>1
    <3>2. Last(segs) = segs[n]
      BY DEF Last
    <3> QED
      BY <1>6, <3>1, <3>2 DEF AddSpan
  <2>2. seg \in Spans /\ seg.start = start /\ seg.length = length
    BY DEF Segment, Spans
  <2> HIDE DEF seg, new
  <2>3. new \in Seq(Spans) /\ Len(new) = n + 1 /\ DOMAIN new = 1 .. n + 1
    BY <2>1, <2>2
  <2>4. new[n + 1] = seg /\ \A k \in 1 .. n : new[k] = segs[k]
    BY <2>1
  <2>5. PointSet(seg) = start .. start + length - 1
    BY <2>2 DEF PointSet
  <2>6. \A k : k \in 1 .. n + 1 <=> k \in 1 .. n \/ k = n + 1
    BY <1>1
  <2>7. SetOf(new) = SetOf(segs) \cup (start .. start + length - 1)
    <3>1. \A x : x \in SetOf(new) <=> \E k \in 1 .. n + 1 : x \in PointSet(new[k])
      BY <2>3 DEF SetOf
    <3>2. \A x : x \in SetOf(segs) <=> \E k \in 1 .. n : x \in PointSet(segs[k])
      BY <1>1 DEF SetOf
    <3> QED
      BY <2>4, <2>5, <2>6, <3>1, <3>2
  <2>8. Ascends(new)
    <3>1. \A k \in 1 .. n + 1 : new[k].start \in Nat /\ new[k].length \in Nat \ {0}
      BY <1>2, <2>2, <2>4, <2>6
    <3>2. ASSUME NEW i \in 1 .. n + 1, NEW j \in 1 .. n + 1, i < j
          PROVE  new[i].start + new[i].length <= new[j].start
      <4>1. i \in 1 .. n /\ new[i] = segs[i]
        BY <1>1, <2>4, <3>2
      <4>2. CASE j = n + 1
        BY <1>4, <2>2, <2>4, <4>1, <4>2
      <4>3. CASE j \in 1 .. n
        BY <1>2, <2>4, <3>2, <4>1, <4>3
      <4> QED
        BY <2>6, <4>2, <4>3
    <3> QED
      BY <2>3, <3>1, <3>2 DEF Ascends
  <2> QED
    BY <2>3, <2>7, <2>8 DEF new, Longer
<1> QED
  BY <1>5, <1>6

\* The test of the router of segment i of mine and segment j of theirs
OverlapAt(mine, theirs, lstart, i, j, s) ==
  LET end(seg) == seg.start + seg.length
      left == IF mine[i].start > theirs[j].start THEN mine[i].start ELSE theirs[j].start
      right == IF end(mine[i]) < end(theirs[j]) THEN end(mine[i]) ELSE end(theirs[j])
  IN  IF Meets(mine[i], theirs[j])
      THEN AddSpan(s, lstart[i] + left - mine[i].start, right - left)
      ELSE s

StartsAt(mine, lstart) ==
  \A i \in 1 .. Len(mine) : lstart[i] = IF i = 1 THEN 1 ELSE lstart[i - 1] + mine[i - 1].length

\* The points in common of the first segments: of those before the i-th with all
\* of theirs, and of the i-th with j of theirs
Done(mine, theirs, i, j) ==
  {x \in Nat : \/ \E k \in 1 .. i - 1 : x \in PointSet(mine[k]) /\ x \in SetOf(theirs)
               \/ \E k \in 1 .. j : x \in PointSet(mine[i]) /\ x \in PointSet(theirs[k])}

\* The spans found so far have their places.
FoundUpto(mine, theirs, i, j, s) ==
  /\ s \in Seq(Spans) /\ Ascends(s)
  /\ SetOf(s) = {x \in 1 .. Len(PointList(mine)) : PointList(mine)[x] \in Done(mine, theirs, i, j)}

\* What two segments have in common, in numbers
Common(a, la, b, lb, left, right) ==
  /\ left \in Nat /\ right \in Nat /\ right - left \in Nat \ {0} /\ a <= left /\ b <= left
  /\ (a .. a + la - 1) \cap (b .. b + lb - 1) = left .. right - 1
  /\ left - a \in Nat /\ \A k \in 0 .. (right - left) - 1 : (left - a) + k \in 0 .. la - 1

LEMMA CommonPoints ==
  ASSUME NEW a \in Nat, NEW la \in Nat \ {0}, NEW b \in Nat, NEW lb \in Nat \ {0},
         NEW left, left = IF a > b THEN a ELSE b,
         NEW right, right = IF a + la < b + lb THEN a + la ELSE b + lb,
         (a .. a + la - 1) \cap (b .. b + lb - 1) # {}
  PROVE  Common(a, la, b, lb, left, right)
<1>1. PICK x : x \in (a .. a + la - 1) \cap (b .. b + lb - 1)
  OBVIOUS
<1>2. left \in Nat /\ right \in Nat /\ right - left \in Nat \ {0} /\ a <= left /\ b <= left
  BY <1>1
<1>3. (a .. a + la - 1) \cap (b .. b + lb - 1) = left .. right - 1
  OBVIOUS
<1>4. left - a \in Nat /\ \A k \in 0 .. (right - left) - 1 : (left - a) + k \in 0 .. la - 1
  BY <1>2
<1> QED
  BY <1>2, <1>3, <1>4 DEF Common

LEMMA OverlapAtFound ==
  ASSUME NEW T, NEW mine \in Seq(T), Ascends(mine), NEW theirs \in Seq(T), Ascends(theirs),
         NEW lstart, StartsAt(mine, lstart),
         NEW i \in 1 .. Len(mine), NEW j \in 1 .. Len(theirs), NEW s,
         FoundUpto(mine, theirs, i, j - 1, s)
  PROVE  FoundUpto(mine, theirs, i, j, OverlapAt(mine, theirs, lstart, i, j, s))
<1> DEFINE P == PointList(mine)
           a == mine[i]
           b == theirs[j]
           before == Done(mine, theirs, i, j - 1)
           both == PointSet(a) \cap PointSet(b)
<1>1. /\ Len(mine) \in Nat /\ DOMAIN mine = 1 .. Len(mine)
      /\ Len(theirs) \in Nat /\ DOMAIN theirs = 1 .. Len(theirs)
  OBVIOUS
<1>2. a.start \in Nat /\ a.length \in Nat \ {0} /\ b.start \in Nat /\ b.length \in Nat \ {0}
  BY <1>1 DEF Ascends
<1>3. PointSet(a) = a.start .. a.start + a.length - 1 /\ PointSet(b) = b.start .. b.start + b.length - 1
  BY DEF PointSet
<1>4. Done(mine, theirs, i, j) = before \cup both
  <2>1. \A k : k \in 1 .. j <=> k \in 1 .. j - 1 \/ k = j
    BY <1>1
  <2>2. \A x \in both : x \in Nat
    BY <1>2, <1>3
  <2> QED
    BY <2>1, <2>2 DEF Done
<1>5. s \in Seq(Spans) /\ Ascends(s) /\ SetOf(s) = {x \in 1 .. Len(P) : P[x] \in before}
  BY DEF FoundUpto
<1>6. Lists(P, SetOf(mine)) /\ P \in Seq(Nat) /\ Len(P) \in Nat /\ DOMAIN P = 1 .. Len(P)
  <2>1. Lists(P, SetOf(mine))
    BY PointListLists
  <2> QED
    BY <2>1 DEF Lists
<1>7. /\ \A x \in 1 .. Len(P) : P[x] \in Nat
      /\ \A x, y \in 1 .. Len(P) : x < y => P[x] < P[y]
  <2>1. \A x \in 1 .. Len(P) : P[x] \in Nat
    BY <1>6, SeqFacts
  <2>2. \A x, y \in DOMAIN P : x < y => P[x] < P[y]
    BY <1>6 DEF Lists
  <2> QED
    BY <1>6, <2>1, <2>2
<1>8. Meets(a, b) <=> both # {}
  <2> HIDE DEF a, b
  <2> QED
    BY <1>2, MeetsExactly DEF both
<1>9. CASE ~Meets(a, b)
  <2>1. OverlapAt(mine, theirs, lstart, i, j, s) = s
    BY <1>9 DEF OverlapAt
  <2>2. Done(mine, theirs, i, j) = before
    BY <1>4, <1>8, <1>9
  <2> QED
    BY <1>5, <2>1, <2>2 DEF FoundUpto
<1>10. CASE Meets(a, b)
  <2> DEFINE left == IF a.start > b.start THEN a.start ELSE b.start
             right == IF a.start + a.length < b.start + b.length
                      THEN a.start + a.length ELSE b.start + b.length
             p == lstart[i] + left - a.start
             w == right - left
             new == AddSpan(s, p, w)
  <2>1. OverlapAt(mine, theirs, lstart, i, j, s) = new
    BY <1>10 DEF OverlapAt
  <2>c. both # {}
    BY <1>8, <1>10
  <2>d. /\ left = IF a.start > b.start THEN a.start ELSE b.start
        /\ right = IF a.start + a.length < b.start + b.length
                   THEN a.start + a.length ELSE b.start + b.length
    OBVIOUS
  <2>e. both = (a.start .. a.start + a.length - 1) \cap (b.start .. b.start + b.length - 1)
    BY <1>3
  <2>2. /\ left \in Nat /\ right \in Nat /\ right - left \in Nat \ {0} /\ both = left .. right - 1
        /\ a.start <= left /\ b.start <= left /\ left - a.start \in Nat
        /\ \A k \in 0 .. (right - left) - 1 : (left - a.start) + k \in 0 .. a.length - 1
    <3> HIDE DEF left, right, both, a, b, P, before
    <3>1. (a.start .. a.start + a.length - 1) \cap (b.start .. b.start + b.length - 1) # {}
      BY <2>c, <2>e
    <3>2. Common(a.start, a.length, b.start, b.length, left, right)
      BY <1>2, <2>d, <3>1, CommonPoints
    <3> QED
      BY <2>e, <3>2 DEF Common
  <2>3. left - a.start \in Nat /\ \A k \in 0 .. w - 1 : (left - a.start) + k \in 0 .. a.length - 1
    BY <2>2
  <2>4. lstart[i] \in Nat \ {0}
    BY PlacesOfSegments DEF StartsAt
  <2>5. \A m \in 0 .. a.length - 1 : lstart[i] + m \in 1 .. Len(P) /\ P[lstart[i] + m] = a.start + m
    BY PlacesOfSegments DEF StartsAt
  <2>l. a.start <= left /\ b.start <= left
    BY <2>2
  <2> HIDE DEF left, right, both, before, P, a, b
  <2>6. /\ p \in Nat
        /\ \A k \in Nat : p + k = lstart[i] + ((left - a.start) + k) /\ a.start + ((left - a.start) + k) = left + k
    <3>1. a.start \in Nat /\ left \in Nat /\ lstart[i] \in Nat /\ left - a.start \in Nat
      <4>1. a.start \in Nat
        BY <1>2
      <4>2. left \in Nat /\ left - a.start \in Nat
        BY <2>2
      <4>3. lstart[i] \in Nat
        BY <2>4
      <4> QED
        BY <4>1, <4>2, <4>3
    <3>2. \A L, A, S \in Nat : L - A \in Nat =>
            /\ S + L - A \in Nat
            /\ \A k \in Nat : (S + L - A) + k = S + ((L - A) + k) /\ A + ((L - A) + k) = L + k
      OBVIOUS
    <3>3. PICK A \in Nat, L \in Nat, S \in Nat : A = a.start /\ L = left /\ S = lstart[i]
      BY <3>1
    <3>4. L - A \in Nat /\ p = S + L - A
      BY <3>1, <3>3
    <3>5. S + L - A \in Nat /\ \A k \in Nat : (S + L - A) + k = S + ((L - A) + k) /\ A + ((L - A) + k) = L + k
      BY <3>2, <3>4
    <3> QED
      BY <3>3, <3>4, <3>5
  <2>w. w \in Nat \ {0} /\ right = left + w
    BY <2>2
  <2>n. left \in Nat /\ a.start \in Nat /\ b.start \in Nat
    BY <1>2, <2>2
  <2> HIDE DEF w, p
  <2>7. ASSUME NEW k \in 0 .. w - 1 PROVE p + k \in 1 .. Len(P) /\ P[p + k] = left + k
    <3>1. (left - a.start) + k \in 0 .. a.length - 1 /\ k \in Nat
      BY <2>3
    <3>2. p + k = lstart[i] + ((left - a.start) + k) /\ a.start + ((left - a.start) + k) = left + k
      BY <2>6, <3>1
    <3> QED
      BY <2>5, <3>1, <3>2
  <2>8. p \in 1 .. Len(P) /\ P[p] = left
    <3>1. 0 \in 0 .. w - 1 /\ p + 0 = p /\ left + 0 = left
      BY <2>w, <2>2, <2>6
    <3> QED
      BY <2>7, <3>1
  \* What was found before is before this.
  <2>9. \A x \in before : x < left
    <3> TAKE x \in before
    <3>1. x \in Nat /\ (\/ \E k \in 1 .. i - 1 : x \in PointSet(mine[k])
                        \/ \E k \in 1 .. j - 1 : x \in PointSet(theirs[k]))
      BY DEF before, Done
    <3>2. ASSUME NEW k \in 1 .. i - 1, x \in PointSet(mine[k]) PROVE x < left
      <4>1. k \in 1 .. Len(mine) /\ k < i
        BY <1>1
      <4>2. mine[k].start + mine[k].length <= a.start /\ mine[k].start \in Nat /\ mine[k].length \in Nat
        BY <1>1, <4>1 DEF Ascends, a
      <4>3. x <= mine[k].start + mine[k].length - 1
        BY <3>2, <4>2 DEF PointSet
      <4>4. x < a.start
        BY <2>n, <3>1, <4>2, <4>3, SMTT(30)
      <4> QED
        BY <2>n, <2>l, <3>1, <4>4
    <3>3. ASSUME NEW k \in 1 .. j - 1, x \in PointSet(theirs[k]) PROVE x < left
      <4>1. k \in 1 .. Len(theirs) /\ k < j
        BY <1>1
      <4>2. theirs[k].start + theirs[k].length <= b.start /\ theirs[k].start \in Nat /\ theirs[k].length \in Nat
        BY <1>1, <4>1 DEF Ascends, b
      <4>3. x <= theirs[k].start + theirs[k].length - 1
        BY <3>3, <4>2 DEF PointSet
      <4>4. x < b.start
        BY <2>n, <3>1, <4>2, <4>3, SMTT(30)
      <4> QED
        BY <2>n, <2>l, <3>1, <4>4
    <3> QED
      BY <3>1, <3>2, <3>3
  <2>10. \A x \in SetOf(s) : x < p
    <3> TAKE x \in SetOf(s)
    <3>1. x \in 1 .. Len(P) /\ P[x] < left
      BY <1>5, <2>9
    <3>2. CASE p < x
      <4>1. P[p] < P[x]
        BY <1>7, <2>8, <3>1, <3>2
      <4> QED
        BY <1>7, <2>2, <2>8, <3>1, <4>1
    <3>3. CASE p = x
      BY <2>2, <2>8, <3>1, <3>3
    <3> QED
      BY <2>6, <3>1, <3>2, <3>3
  <2>11. /\ new \in Seq(Spans) /\ Ascends(new)
         /\ SetOf(new) = SetOf(s) \cup (p .. p + w - 1)
    <3>1. w \in Nat \ {0} /\ p \in Nat /\ \A x \in SetOf(s) : x < p
      BY <2>6, <2>10, <2>w
    <3>2. Longer(new, s, p, w)
      <4> HIDE DEF p, w
      <4> QED
        BY <1>5, <3>1, AddSpanAscends
    <3> QED
      BY <3>2 DEF Longer
  <2>12. \A x : x \in p .. p + w - 1 <=> x \in 1 .. Len(P) /\ P[x] \in both
    <3>1. ASSUME NEW x \in p .. p + w - 1 PROVE x \in 1 .. Len(P) /\ P[x] \in both
      <4>1. x - p \in 0 .. w - 1 /\ p + (x - p) = x
        BY <2>6, <2>w
      <4>2. x \in 1 .. Len(P) /\ P[x] = left + (x - p)
        BY <2>7, <4>1
      <4> QED
        BY <2>2, <2>w, <4>1, <4>2, SMTT(30)
    <3>2. ASSUME NEW x \in 1 .. Len(P), P[x] \in both PROVE x \in p .. p + w - 1
      <4>1. P[x] - left \in 0 .. w - 1 /\ left + (P[x] - left) = P[x]
        BY <1>7, <2>2, <2>w, <3>2, SMTT(30)
      <4> DEFINE y == p + (P[x] - left)
      <4>2. y \in 1 .. Len(P) /\ P[y] = P[x]
        BY <2>7, <4>1
      <4>3. y \in p .. p + w - 1
        <5> HIDE DEF new
        <5>1. ASSUME NEW d \in 0 .. w - 1 PROVE p + d \in p .. p + w - 1
          BY <2>6, <2>w, <5>1
        <5> QED
          BY <4>1, <5>1
      <4> HIDE DEF y
      <4>4. ~(x < y) /\ ~(y < x)
        BY <1>7, <4>2
      <4> QED
        BY <4>2, <4>3, <4>4
    <3> QED
      BY <3>1, <3>2
  <2>13. SetOf(new) = {x \in 1 .. Len(P) : P[x] \in Done(mine, theirs, i, j)}
    BY <1>4, <1>5, <2>11, <2>12
  <2> QED
    BY <2>1, <2>11, <2>13 DEF FoundUpto, P
<1> QED
  BY <1>9, <1>10

\* The test of segment i of mine with all of theirs
OverlapsOf(mine, theirs, lstart, i, s) ==
  LET upto[j \in 0 .. Len(theirs)] ==
        IF j = 0 THEN s ELSE OverlapAt(mine, theirs, lstart, i, j, upto[j - 1])
  IN  upto[Len(theirs)]

LEMMA OverlapsOfFound ==
  ASSUME NEW T, NEW mine \in Seq(T), Ascends(mine), NEW theirs \in Seq(T), Ascends(theirs),
         NEW lstart, StartsAt(mine, lstart), NEW i \in 1 .. Len(mine), NEW s,
         FoundUpto(mine, theirs, i, 0, s)
  PROVE  FoundUpto(mine, theirs, i, Len(theirs), OverlapsOf(mine, theirs, lstart, i, s))
<1> DEFINE m == Len(theirs)
           Next1(j, x) == OverlapAt(mine, theirs, lstart, i, j, x)
           Is(f) == f = [j \in 0 .. m |-> IF j = 0 THEN s ELSE Next1(j, f[j - 1])]
           upto == CHOOSE f : Is(f)
           Good(j, x) == FoundUpto(mine, theirs, i, j, x)
           G == [j \in 0 .. m |-> {x \in Seq(Spans) : Good(j, x)}]
           step == [z \in (1 .. m) \X Seq(Spans) |-> Next1(z[1], z[2])]
<1>1. m \in Nat
  OBVIOUS
<1>2. /\ \A j \in 1 .. m : j \in 0 .. m /\ j - 1 \in 0 .. m /\ j # 0
      /\ 0 \in 0 .. m /\ m \in 0 .. m
  BY <1>1
<1>3. OverlapsOf(mine, theirs, lstart, i, s) = upto[m]
  BY DEF OverlapsOf
<1>4. ASSUME NEW j \in 1 .. m, NEW x, Good(j - 1, x) PROVE Good(j, Next1(j, x))
  BY <1>4, OverlapAtFound
<1>5. \A j, x : Good(j, x) => x \in Seq(Spans)
  BY DEF FoundUpto
<1>6. \A j \in 0 .. m : \A x : x \in G[j] <=> x \in Seq(Spans) /\ Good(j, x)
  OBVIOUS
<1>7. \A j \in 1 .. m : \A x \in Seq(Spans) : step[<<j, x>>] = Next1(j, x)
  OBVIOUS
<1>8. Good(0, s)
  OBVIOUS
<1> HIDE DEF Good, G, step, m, Next1
<1>9. Leads(m, s, step, G)
  <2>1. ASSUME NEW j \in 1 .. m, NEW x \in G[j - 1] PROVE step[<<j, x>>] \in G[j]
    <3>1. x \in Seq(Spans) /\ Good(j - 1, x)
      BY <1>2, <1>6
    <3>2. Good(j, Next1(j, x))
      BY <3>1, <1>4
    <3> QED
      BY <3>1, <3>2, <1>2, <1>5, <1>6, <1>7
  <2>2. s \in G[0]
    BY <1>2, <1>5, <1>6, <1>8
  <2> QED
    BY <1>1, <2>1, <2>2 DEF Leads
<1>10. PICK f : Recursion(m, s, step, f) /\ \A j \in 0 .. m : f[j] \in G[j]
  BY <1>9, RecursionExists
<1>11. Is(f)
  <2>1. f = [j \in 0 .. m |-> IF j = 0 THEN s ELSE step[<<j, f[j - 1]>>]]
    BY <1>10 DEF Recursion
  <2>2. \A j \in 0 .. m : j # 0 => step[<<j, f[j - 1]>>] = Next1(j, f[j - 1])
    <3>1. \A j \in 0 .. m : j # 0 => j \in 1 .. m /\ j - 1 \in 0 .. m
      BY <1>1
    <3> QED
      BY <3>1, <1>6, <1>7, <1>10
  <2>3. \A j \in 0 .. m : f[j] = IF j = 0 THEN s ELSE Next1(j, f[j - 1])
    BY <2>1, <2>2, Zenon
  <2>4. f = [j \in 0 .. m |-> f[j]]
    BY <2>1, Zenon
  <2> QED
    BY <2>3, <2>4, Zenon
<1>12. Is(upto)
  BY <1>11, Zenon
<1> HIDE DEF upto
<1>13. upto[0] = s /\ \A j \in 1 .. m : upto[j] = Next1(j, upto[j - 1])
  BY <1>2, <1>12
<1>14. \A j \in 0 .. m : upto[j] \in G[j]
  <2>1. upto[0] \in G[0]
    BY <1>2, <1>5, <1>6, <1>8, <1>13
  <2>2. ASSUME NEW j \in 1 .. m, upto[j - 1] \in G[j - 1] PROVE upto[j] \in G[j]
    <3>1. Good(j - 1, upto[j - 1])
      BY <2>2, <1>2, <1>6
    <3>2. Good(j, upto[j])
      BY <3>1, <1>4, <1>13
    <3> QED
      BY <3>2, <1>2, <1>5, <1>6
  <2> QED
    BY <1>1, <2>1, <2>2, LoopValues
<1>15. Good(m, upto[m])
  BY <1>2, <1>6, <1>14
<1> QED
  BY <1>3, <1>15 DEF Good, m

\* The places where the segments of a rank begin in its array
LEMMA StartsExist ==
  ASSUME NEW T, NEW mine \in Seq(T), Ascends(mine)
  PROVE  LET lstart[i \in 1 .. Len(mine)] == IF i = 1 THEN 1 ELSE lstart[i - 1] + mine[i - 1].length
         IN  StartsAt(mine, lstart)
<1> DEFINE n == Len(mine)
           Is(f) == f = [i \in 1 .. n |-> IF i = 1 THEN 1 ELSE f[i - 1] + mine[i - 1].length]
           lstart == CHOOSE f : Is(f)
           step == [z \in (1 .. n) \X Nat |-> IF z[1] = 1 THEN 1 ELSE z[2] + mine[z[1] - 1].length]
           G == [i \in 0 .. n |-> Nat]
<1>1. n \in Nat /\ \A i \in 1 .. n : mine[i].length \in Nat
  BY DEF Ascends
<1>2. /\ \A i \in 1 .. n : i \in 0 .. n /\ i - 1 \in 0 .. n /\ i # 0 /\ (i # 1 => i - 1 \in 1 .. n)
      /\ 0 \in 0 .. n /\ n \in 0 .. n
  BY <1>1
<1>3. \A i \in 1 .. n : \A x \in Nat :
        step[<<i, x>>] = IF i = 1 THEN 1 ELSE x + mine[i - 1].length
  OBVIOUS
<1>4. \A i \in 0 .. n : G[i] = Nat
  OBVIOUS
<1> HIDE DEF step, G, n
<1>5. Leads(n, 0, step, G)
  <2>1. ASSUME NEW i \in 1 .. n, NEW x \in Nat PROVE step[<<i, x>>] \in Nat
    <3>1. i # 1 => mine[i - 1].length \in Nat
      BY <1>1, <1>2
    <3> QED
      BY <1>3, <3>1
  <2> QED
    BY <1>1, <1>2, <1>4, <2>1 DEF Leads
<1>6. PICK f : Recursion(n, 0, step, f) /\ \A i \in 0 .. n : f[i] \in G[i]
  BY <1>5, RecursionExists
<1>7. \A i \in 0 .. n : f[i] \in Nat
  BY <1>4, <1>6
<1>8. \A i \in 1 .. n : f[i] = step[<<i, f[i - 1]>>]
  BY <1>2, <1>6 DEF Recursion
<1>9. \A i \in 1 .. n : f[i] = IF i = 1 THEN 1 ELSE f[i - 1] + mine[i - 1].length
  BY <1>2, <1>3, <1>7, <1>8
<1> DEFINE h == [i \in 1 .. n |-> f[i]]
<1>10. Is(h)
  <2>1. \A i \in 1 .. n : f[i] = IF i = 1 THEN 1 ELSE h[i - 1] + mine[i - 1].length
    BY <1>2, <1>9
  <2> QED
    BY <2>1, Zenon
<1>11. Is(lstart)
  BY <1>10, Zenon
<1> HIDE DEF lstart, h
<1>12. \A i \in 1 .. n : lstart[i] = IF i = 1 THEN 1 ELSE lstart[i - 1] + mine[i - 1].length
  BY <1>11, Zenon
<1>13. StartsAt(mine, lstart)
  BY <1>12 DEF StartsAt, n
<1> QED
  BY <1>13 DEF lstart, n

\* The segments of places of a router with a rank are, in ascending order, the
\* places of the points in common.
LEMMA OverlapsFound ==
  ASSUME NEW T, NEW mine \in Seq(T), Ascends(mine), NEW theirs \in Seq(T), Ascends(theirs)
  PROVE  LET found == Overlaps(mine, theirs)
         IN  /\ found \in Seq(Spans) /\ Ascends(found)
             /\ SetOf(found) = {x \in 1 .. Len(PointList(mine)) : PointList(mine)[x] \in SetOf(theirs)}
<1> DEFINE n == Len(mine)
           lstart[i \in 1 .. Len(mine)] == IF i = 1 THEN 1 ELSE lstart[i - 1] + mine[i - 1].length
           Next1(i, x) == OverlapsOf(mine, theirs, lstart, i, x)
           Is(f) == f = [i \in 0 .. n |-> IF i = 0 THEN <<>> ELSE Next1(i, f[i - 1])]
           found == CHOOSE f : Is(f)
           Good(i, x) == FoundUpto(mine, theirs, i + 1, 0, x)
           G == [i \in 0 .. n |-> {x \in Seq(Spans) : Good(i, x)}]
           step == [z \in (1 .. n) \X Seq(Spans) |-> Next1(z[1], z[2])]
<1>1. n \in Nat /\ DOMAIN mine = 1 .. n /\ Len(theirs) \in Nat /\ DOMAIN theirs = 1 .. Len(theirs)
  OBVIOUS
<1>2. /\ \A i \in 1 .. n : i \in 0 .. n /\ i - 1 \in 0 .. n /\ i # 0 /\ (i - 1) + 1 = i
      /\ 0 \in 0 .. n /\ n \in 0 .. n
  BY <1>1
<1>3. Overlaps(mine, theirs) = found[n]
  BY DEF Overlaps, OverlapsOf, OverlapAt
<1>s. StartsAt(mine, lstart)
  BY StartsExist
<1> HIDE DEF lstart
\* After all of theirs, the next segment of mine.
<1>d. \A i \in 1 .. n : Done(mine, theirs, i, Len(theirs)) = Done(mine, theirs, i + 1, 0)
  <2> TAKE i \in 1 .. n
  <2>1. \A k : k \in 1 .. (i + 1) - 1 <=> k \in 1 .. i - 1 \/ k = i
    BY <1>1
  <2>2. \A x : x \in SetOf(theirs) <=> \E k \in 1 .. Len(theirs) : x \in PointSet(theirs[k])
    BY <1>1 DEF SetOf
  <2>3. \A k : k \notin 1 .. 0
    OBVIOUS
  <2> QED
    BY <2>1, <2>2, <2>3 DEF Done
<1>4. ASSUME NEW i \in 1 .. n, NEW x, Good(i - 1, x) PROVE Good(i, Next1(i, x))
  <2>1. FoundUpto(mine, theirs, i, 0, x)
    BY <1>2, <1>4
  <2>2. FoundUpto(mine, theirs, i, Len(theirs), Next1(i, x))
    BY <2>1, <1>s, OverlapsOfFound
  <2> HIDE DEF Next1
  <2> QED
    BY <2>2, <1>d DEF FoundUpto
<1>5. \A i, x : Good(i, x) => x \in Seq(Spans)
  BY DEF FoundUpto
<1>6. \A i \in 0 .. n : \A x : x \in G[i] <=> x \in Seq(Spans) /\ Good(i, x)
  OBVIOUS
<1>7. \A i \in 1 .. n : \A x \in Seq(Spans) : step[<<i, x>>] = Next1(i, x)
  OBVIOUS
<1>8. Good(0, <<>>)
  <2>1. Done(mine, theirs, 1, 0) = {}
    BY DEF Done
  <2>2. <<>> \in Seq(Spans) /\ Ascends(<<>>) /\ SetOf(<<>>) = {}
    BY DEF Ascends, SetOf
  <2> QED
    BY <2>1, <2>2 DEF FoundUpto
<1>f. \A x : Good(n, x) =>
        /\ x \in Seq(Spans) /\ Ascends(x)
        /\ SetOf(x) = {k \in 1 .. Len(PointList(mine)) : PointList(mine)[k] \in SetOf(theirs)}
  <2>1. Lists(PointList(mine), SetOf(mine))
    BY PointListLists
  <2>2. \A k \in 1 .. Len(PointList(mine)) : PointList(mine)[k] \in Nat /\ PointList(mine)[k] \in SetOf(mine)
    BY <2>1, SeqFacts DEF Lists
  <2>3. \A y : y \in SetOf(mine) <=> \E k \in 1 .. n : y \in PointSet(mine[k])
    BY <1>1 DEF SetOf
  <2>4. \A k : (k \in 1 .. (n + 1) - 1 <=> k \in 1 .. n) /\ k \notin 1 .. 0
    BY <1>1
  <2>5. \A y \in Nat : y \in SetOf(mine) => (y \in Done(mine, theirs, n + 1, 0) <=> y \in SetOf(theirs))
    BY <2>3, <2>4 DEF Done
  <2>6. \A k \in 1 .. Len(PointList(mine)) :
          PointList(mine)[k] \in Done(mine, theirs, n + 1, 0) <=> PointList(mine)[k] \in SetOf(theirs)
    BY <2>2, <2>5
  <2> QED
    BY <2>6 DEF FoundUpto
<1> HIDE DEF Good, G, step, n, Next1
<1>9. Leads(n, <<>>, step, G)
  <2>1. ASSUME NEW i \in 1 .. n, NEW x \in G[i - 1] PROVE step[<<i, x>>] \in G[i]
    <3>1. x \in Seq(Spans) /\ Good(i - 1, x)
      BY <1>2, <1>6
    <3>2. Good(i, Next1(i, x))
      BY <3>1, <1>4
    <3> QED
      BY <3>1, <3>2, <1>2, <1>5, <1>6, <1>7
  <2>2. <<>> \in G[0]
    BY <1>2, <1>5, <1>6, <1>8
  <2> QED
    BY <1>1, <2>1, <2>2 DEF Leads
<1>10. PICK f : Recursion(n, <<>>, step, f) /\ \A i \in 0 .. n : f[i] \in G[i]
  BY <1>9, RecursionExists
<1>11. Is(f)
  <2>1. f = [i \in 0 .. n |-> IF i = 0 THEN <<>> ELSE step[<<i, f[i - 1]>>]]
    BY <1>10 DEF Recursion
  <2>2. \A i \in 0 .. n : i # 0 => step[<<i, f[i - 1]>>] = Next1(i, f[i - 1])
    <3>1. \A i \in 0 .. n : i # 0 => i \in 1 .. n /\ i - 1 \in 0 .. n
      BY <1>1
    <3> QED
      BY <3>1, <1>6, <1>7, <1>10
  <2>3. \A i \in 0 .. n : f[i] = IF i = 0 THEN <<>> ELSE Next1(i, f[i - 1])
    BY <2>1, <2>2, Zenon
  <2>4. f = [i \in 0 .. n |-> f[i]]
    BY <2>1, Zenon
  <2> QED
    BY <2>3, <2>4, Zenon
<1>12. Is(found)
  BY <1>11, Zenon
<1> HIDE DEF found
<1>13. found[0] = <<>> /\ \A i \in 1 .. n : found[i] = Next1(i, found[i - 1])
  BY <1>2, <1>12
<1>14. \A i \in 0 .. n : found[i] \in G[i]
  <2>1. found[0] \in G[0]
    BY <1>2, <1>5, <1>6, <1>8, <1>13
  <2>2. ASSUME NEW i \in 1 .. n, found[i - 1] \in G[i - 1] PROVE found[i] \in G[i]
    <3>1. Good(i - 1, found[i - 1])
      BY <2>2, <1>2, <1>6
    <3>2. Good(i, found[i])
      BY <3>1, <1>4, <1>13
    <3> QED
      BY <3>2, <1>2, <1>5, <1>6
  <2> QED
    BY <1>1, <2>1, <2>2, LoopValues
<1>15. Good(n, found[n])
  BY <1>2, <1>6, <1>14
<1> QED
  BY <1>3, <1>15, <1>f

\* The places of the points of mine that theirs has too
CommonPlaces(mine, theirs) ==
  {x \in 1 .. Len(PointList(mine)) : PointList(mine)[x] \in SetOf(theirs)}

\* They are what is exchanged.
LEMMA ExchangedPlaces ==
  ASSUME NEW T, NEW mine \in Seq(T), Ascends(mine), NEW theirs \in Seq(T), Ascends(theirs)
  PROVE  Lists(Places(Overlaps(mine, theirs)), CommonPlaces(mine, theirs))
<1> DEFINE o == Overlaps(mine, theirs)
<1>1. o \in Seq(Spans) /\ Ascends(o) /\ SetOf(o) = CommonPlaces(mine, theirs)
  BY OverlapsFound DEF CommonPlaces
<1> HIDE DEF o
<1>2. Lists(PointList(o), SetOf(o))
  BY <1>1, PointListLists
<1>3. PointList(o) = Places(o)
  BY DEF PointList, Places
<1> QED
  BY <1>1, <1>2, <1>3 DEF o

\* The points in common, in the order of the places
LEMMA CommonInOrder ==
  ASSUME NEW T, NEW mine \in Seq(T), Ascends(mine), NEW theirs \in Seq(T), Ascends(theirs)
  PROVE  LET a == Places(Overlaps(mine, theirs))
             P == PointList(mine)
         IN  /\ a \in Seq(Nat) /\ Range(a) = {x \in 1 .. Len(P) : P[x] \in SetOf(theirs)}
             /\ Lists([k \in 1 .. Len(a) |-> P[a[k]]], SetOf(mine) \cap SetOf(theirs))
             /\ Len([k \in 1 .. Len(a) |-> P[a[k]]]) = Len(a)
<1> DEFINE a == Places(Overlaps(mine, theirs))
           P == PointList(mine)
           v == [k \in 1 .. Len(a) |-> P[a[k]]]
           places == {x \in 1 .. Len(P) : P[x] \in SetOf(theirs)}
<1>1. Lists(a, places)
  BY ExchangedPlaces DEF CommonPlaces
<1>2. Lists(P, SetOf(mine))
  BY PointListLists
<1> HIDE DEF a, P
<1>3. /\ a \in Seq(Nat) /\ Len(a) \in Nat /\ DOMAIN a = 1 .. Len(a) /\ Range(a) = places
      /\ \A k \in 1 .. Len(a) : a[k] \in places
      /\ \A x \in places : \E k \in 1 .. Len(a) : a[k] = x
  BY <1>1, SeqFacts DEF Lists
<1>4. \A i, j \in 1 .. Len(a) : i < j => a[i] < a[j]
  BY <1>1, <1>3 DEF Lists
<1>5. /\ Len(P) \in Nat /\ DOMAIN P = 1 .. Len(P)
      /\ \A x \in 1 .. Len(P) : P[x] \in Nat /\ P[x] \in SetOf(mine)
      /\ \A y \in SetOf(mine) : \E x \in 1 .. Len(P) : P[x] = y
  BY <1>2, SeqFacts DEF Lists
<1>6. \A x, y \in 1 .. Len(P) : x < y => P[x] < P[y]
  BY <1>2, <1>5 DEF Lists
<1>7. \A k \in 1 .. Len(a) : a[k] \in 1 .. Len(P) /\ v[k] = P[a[k]] /\ v[k] \in Nat
  BY <1>3, <1>5
<1>8. v \in Seq(Nat) /\ Len(v) = Len(a) /\ DOMAIN v = 1 .. Len(a)
  <2>1. v = [k \in 1 .. Len(a) |-> v[k]]
    OBVIOUS
  <2>2. v \in [1 .. Len(a) -> Nat]
    BY <1>7, <2>1
  <2>3. v \in Seq(Nat)
    BY <1>3, <2>2, SMTT(30)
  <2>4. DOMAIN v = 1 .. Len(a) /\ DOMAIN v = 1 .. Len(v) /\ Len(v) \in Nat
    BY <2>2, <2>3
  <2> QED
    BY <1>3, <2>3, <2>4
<1> HIDE DEF v
<1>9. Range(v) = SetOf(mine) \cap SetOf(theirs)
  <2>1. \A y : y \in Range(v) <=> \E k \in 1 .. Len(a) : v[k] = y
    BY <1>8, SeqFacts
  <2>2. ASSUME NEW y \in Range(v) PROVE y \in SetOf(mine) \cap SetOf(theirs)
    <3>1. PICK k \in 1 .. Len(a) : v[k] = y
      BY <2>1
    <3> QED
      BY <3>1, <1>3, <1>5, <1>7
  <2>3. ASSUME NEW y \in SetOf(mine) \cap SetOf(theirs) PROVE y \in Range(v)
    <3>1. PICK x \in 1 .. Len(P) : P[x] = y
      BY <1>5
    <3>2. PICK k \in 1 .. Len(a) : a[k] = x
      BY <1>3, <3>1
    <3> QED
      BY <1>7, <2>1, <3>1, <3>2
  <2> QED
    BY <2>2, <2>3
<1>10. ASSUME NEW i \in DOMAIN v, NEW j \in DOMAIN v, i < j PROVE v[i] < v[j]
  <2>1. a[i] < a[j] /\ a[i] \in 1 .. Len(P) /\ a[j] \in 1 .. Len(P)
    BY <1>4, <1>7, <1>8, <1>10
  <2>2. P[a[i]] < P[a[j]]
    BY <1>6, <2>1
  <2> QED
    BY <1>7, <1>8, <2>2
<1>11. Lists(v, SetOf(mine) \cap SetOf(theirs))
  BY <1>8, <1>9, <1>10 DEF Lists
<1> QED
  BY <1>3, <1>8, <1>11 DEF a, P, v

\* Two ranks find in their routers the same points, in the same order.
LEMMA SamePoints ==
  ASSUME NEW T, NEW mine \in Seq(T), Ascends(mine), NEW theirs \in Seq(T), Ascends(theirs)
  PROVE  LET a == Places(Overlaps(mine, theirs))
             b == Places(Overlaps(theirs, mine))
         IN  Len(a) = Len(b) /\ \A k \in 1 .. Len(b) : PointList(mine)[a[k]] = PointList(theirs)[b[k]]
<1> DEFINE a == Places(Overlaps(mine, theirs))
           b == Places(Overlaps(theirs, mine))
           v == [k \in 1 .. Len(a) |-> PointList(mine)[a[k]]]
           w == [k \in 1 .. Len(b) |-> PointList(theirs)[b[k]]]
<1>1. Lists(v, SetOf(mine) \cap SetOf(theirs)) /\ Len(v) = Len(a)
  BY CommonInOrder
<1>2. Lists(w, SetOf(theirs) \cap SetOf(mine)) /\ Len(w) = Len(b)
  BY CommonInOrder
<1>3. SetOf(theirs) \cap SetOf(mine) = SetOf(mine) \cap SetOf(theirs)
  OBVIOUS
<1>4. /\ \A k \in 1 .. Len(a) : v[k] = PointList(mine)[a[k]]
      /\ \A k \in 1 .. Len(b) : w[k] = PointList(theirs)[b[k]]
  OBVIOUS
<1> HIDE DEF v, w
<1>5. Len(v) = Len(w) /\ \A k \in 1 .. Len(v) : v[k] = w[k]
  <2>1. SameList(v, w)
    BY <1>1, <1>2, <1>3, OneList
  <2> QED
    BY <2>1 DEF SameList
<1> QED
  BY <1>1, <1>2, <1>4, <1>5

\* There is something to exchange when and only when there are points in common.
LEMMA OverlapsEmpty ==
  ASSUME NEW T, NEW mine \in Seq(T), Ascends(mine), NEW theirs \in Seq(T), Ascends(theirs)
  PROVE  Overlaps(mine, theirs) # <<>> <=> SetOf(mine) \cap SetOf(theirs) # {}
<1> DEFINE o == Overlaps(mine, theirs)
           P == PointList(mine)
<1>1. o \in Seq(Spans) /\ Ascends(o) /\ SetOf(o) = {x \in 1 .. Len(P) : P[x] \in SetOf(theirs)}
  BY OverlapsFound
<1>2. Lists(P, SetOf(mine))
  BY PointListLists
<1> HIDE DEF o, P
<1>3. SetOf(o) # {} <=> SetOf(mine) \cap SetOf(theirs) # {}
  <2>1. /\ \A x \in 1 .. Len(P) : P[x] \in SetOf(mine)
        /\ \A y \in SetOf(mine) : \E x \in 1 .. Len(P) : P[x] = y
    <3>1. P \in Seq(Nat) /\ Range(P) = SetOf(mine)
      BY <1>2 DEF Lists
    <3> QED
      BY <3>1, SeqFacts
  <2> QED
    BY <1>1, <2>1
<1>4. ASSUME o # <<>> PROVE SetOf(o) # {}
  <2>1. 1 \in DOMAIN o
    BY <1>1, <1>4
  <2>2. o[1].start \in Nat /\ o[1].length \in Nat \ {0}
    BY <1>1, <2>1 DEF Ascends
  <2>3. o[1].start \in PointSet(o[1])
    BY <2>2 DEF PointSet
  <2> QED
    BY <2>1, <2>3 DEF SetOf
<1>5. ASSUME o = <<>> PROVE SetOf(o) = {}
  BY <1>5 DEF SetOf
<1> QED
  BY <1>3, <1>4, <1>5 DEF o

-----------------------------------------------------------------------------
(* The routers of decompositions in ascending order *)

\* Segments that each begin after the one before them
LEMMA ApartAll ==
  ASSUME NEW T, NEW segs \in Seq(T),
         \A n \in 1 .. Len(segs) : segs[n].start \in Nat /\ segs[n].length \in Nat \ {0},
         \A n \in 2 .. Len(segs) : segs[n].start >= segs[n - 1].start + segs[n - 1].length
  PROVE  Ascends(segs)
<1> DEFINE n == Len(segs)
           end(i) == segs[i].start + segs[i].length
<1>1. n \in Nat /\ DOMAIN segs = 1 .. n
  OBVIOUS
<1>2. \A i \in 1 .. n : segs[i].start \in Nat /\ end(i) \in Nat /\ segs[i].start <= end(i)
  OBVIOUS
<1>3. \A i \in 2 .. n : end(i - 1) <= segs[i].start
  <2> TAKE i \in 2 .. n
  <2>1. segs[i].start >= end(i - 1)
    OBVIOUS
  <2>2. i \in 1 .. n /\ i - 1 \in 1 .. n
    BY <1>1
  <2>3. segs[i].start \in Nat /\ end(i - 1) \in Nat
    BY <1>2, <2>2
  <2> HIDE DEF end
  <2> QED
    BY <2>1, <2>3
<1> HIDE DEF end, n
<1>4. ASSUME NEW i \in 1 .. n, NEW j \in 1 .. n, i < j PROVE end(i) <= segs[j].start
  <2> DEFINE U == {d \in Nat : i + 1 + d <= n => end(i) <= segs[i + 1 + d].start}
  <2>1. 0 \in U
    <3>1. i + 1 + 0 = i + 1 /\ (i + 1) - 1 = i
      BY <1>1
    <3>2. i + 1 <= n => end(i) <= segs[i + 1].start
      <4>1. i + 1 <= n => i + 1 \in 2 .. n
        BY <1>1
      <4> QED
        BY <1>3, <3>1, <4>1
    <3> QED
      BY <3>1, <3>2
  <2>2. ASSUME NEW d \in Nat, d \in U PROVE d + 1 \in U
    <3> SUFFICES ASSUME i + 1 + (d + 1) <= n PROVE end(i) <= segs[i + 1 + (d + 1)].start
      OBVIOUS
    <3>1. /\ i + 1 + d <= n /\ i + 1 + d \in 1 .. n
          /\ i + 1 + (d + 1) \in 2 .. n /\ i + 1 + (d + 1) \in 1 .. n
          /\ (i + 1 + (d + 1)) - 1 = i + 1 + d
      BY <1>1
    <3>2. end(i) <= segs[i + 1 + d].start
      BY <2>2, <3>1
    <3>3. end(i + 1 + d) <= segs[i + 1 + (d + 1)].start
      BY <1>3, <3>1
    <3>4. /\ end(i) \in Nat /\ segs[i + 1 + d].start \in Nat /\ end(i + 1 + d) \in Nat
          /\ segs[i + 1 + (d + 1)].start \in Nat /\ segs[i + 1 + d].start <= end(i + 1 + d)
      BY <1>2, <3>1
    <3> QED
      BY <3>2, <3>3, <3>4
  <2> HIDE DEF U
  <2>3. Nat \subseteq U
    BY <2>1, <2>2, SetInduction
  <2>4. j - i - 1 \in Nat /\ i + 1 + (j - i - 1) = j /\ j <= n
    BY <1>1, <1>4
  <2> QED
    BY <2>3, <2>4 DEF U
<1> QED
  BY <1>1, <1>4 DEF Ascends, end, n

\* The segments of a map
MapSegments == [start : Nat, length : Nat \ {0}, pe_loc : Int]

\* Those of a rank.
LEMMA SegmentsAscend ==
  ASSUME NEW d, WellOrdered(d), NEW pe \in 0 .. Size(d) - 1
  PROVE  LET mine == SegmentsOf(MapOf(d), pe)
         IN  /\ mine \in Seq(MapSegments)
             /\ Ascends(mine) /\ OrderedPoints(MapOf(d), pe) = PointList(mine)
<1> DEFINE segs == MapOf(d).segs
           Segs == MapSegments
           places == {n \in DOMAIN segs : segs[n].pe_loc = pe}
           mine == SegmentsOf(MapOf(d), pe)
<1>1. segs \in Seq(Segs) /\ increasing(MapOf(d))
  <2>1. segs \in Seq([start : Nat, length : Nat \ {0}, pe_loc : 0 .. Size(d) - 1]) /\ increasing(MapOf(d))
    BY DEF WellOrdered
  <2>2. [start : Nat, length : Nat \ {0}, pe_loc : 0 .. Size(d) - 1] \subseteq MapSegments
    BY DEF MapSegments
  <2> DEFINE Own == [start : Nat, length : Nat \ {0}, pe_loc : 0 .. Size(d) - 1]
  <2> HIDE DEF segs, Own, Segs
  <2>3. \A n \in 1 .. Len(segs) : segs[n] \in MapSegments
    <3>1. segs \in Seq(Own) /\ Own \subseteq MapSegments
      BY <2>1, <2>2 DEF Own
    <3> QED
      BY <3>1, SeqFacts
  <2>4. segs \in [1 .. Len(segs) -> MapSegments] /\ Len(segs) \in Nat
    BY <2>1, <2>3
  <2>5. segs \in Seq(MapSegments)
    BY <2>4
  <2> QED
    BY <2>1, <2>5 DEF Segs
<1>2. mine = Picked(segs, places)
  BY DEF SegmentsOf
<1> HIDE DEF mine, Segs
<1>3. mine \in Seq(Segs) /\ Range(mine) = {segs[n] : n \in places \cap (1 .. Len(segs))}
  BY <1>1, <1>2, PickedFacts
<1>4. Len(mine) \in Nat /\ \A n \in 1 .. Len(mine) : mine[n] \in Segs /\ mine[n] \in Range(mine)
  BY <1>3, SeqFacts
<1>5. \A n \in 1 .. Len(mine) : mine[n].start \in Nat /\ mine[n].length \in Nat \ {0}
  BY <1>4 DEF Segs, MapSegments
<1>6. \A n \in 2 .. Len(mine) : mine[n].start >= mine[n - 1].start + mine[n - 1].length
  <2> TAKE n \in 2 .. Len(mine)
  <2>1. n \in 1 .. Len(mine)
    BY <1>4
  <2>2. PICK k \in places : mine[n] = segs[k]
    BY <2>1, <1>3, <1>4
  <2>3. segs[k] \in Range(segs) /\ segs[k].pe_loc = pe
    BY <1>1, <2>2, SeqFacts
  <2>4. \A s \in Range(segs) : s.pe_loc = pe =>
          \A m \in 2 .. Len(mine) : mine[m].start >= mine[m - 1].start + mine[m - 1].length
    BY <1>1 DEF increasing, mine
  <2> QED
    BY <2>3, <2>4
<1>7. Ascends(mine)
  BY <1>3, <1>5, <1>6, ApartAll
<1>8. OrderedPoints(MapOf(d), pe) = PointList(mine)
  BY DEF OrderedPoints, PointList, mine
<1> QED
  BY <1>3, <1>7, <1>8 DEF mine, Segs

LEMMA RouterOfOrdered ==
  ASSUME NEW g, NEW h, increasing(g), increasing(h), NEW pe, NEW size, NEW nprocs \in Nat
  PROVE  LET rout == Router(g, h, pe, size, nprocs)
             segs(q) == Overlaps(SegmentsOf(g, pe), SegmentsOf(h, q))
         IN  /\ rout.permarr = <<>>
             /\ rout.pe_list \in Seq(0 .. nprocs - 1)
             /\ \A q : q \in Range(rout.pe_list) <=> q \in 0 .. nprocs - 1 /\ segs(q) # <<>>
             /\ \A q \in Range(rout.pe_list) : rout.segs[q] = segs(q)
<1> DEFINE rout == Router(g, h, pe, size, nprocs)
           mine == SegmentsOf(g, pe)
           segs == [q \in 0 .. nprocs - 1 |-> Overlaps(mine, SegmentsOf(h, q))]
           all == [i \in 1 .. nprocs |-> i - 1]
           places == {i \in 1 .. nprocs : segs[i - 1] # <<>>}
           pe_list == Picked(all, places)
<1>1. rout = [pe_list |-> pe_list, segs |-> [q \in Range(pe_list) |-> segs[q]], permarr |-> <<>>]
  <2>1. Corrected(g, size) = g /\ Corrected(h, size) = h
    BY DEF Corrected
  <2> QED
    BY <2>1 DEF Router
<1>2. all \in Seq(0 .. nprocs - 1) /\ Len(all) = nprocs /\ \A i \in 1 .. nprocs : all[i] = i - 1
  <2>1. all \in [1 .. nprocs -> 0 .. nprocs - 1]
    OBVIOUS
  <2>2. all \in Seq(0 .. nprocs - 1)
    BY <2>1
  <2>3. DOMAIN all = 1 .. nprocs /\ DOMAIN all = 1 .. Len(all) /\ Len(all) \in Nat
    BY <2>1, <2>2
  <2> QED
    BY <2>2, <2>3
<1> HIDE DEF all, segs
<1>3. /\ pe_list \in Seq(0 .. nprocs - 1)
      /\ Range(pe_list) = {all[i] : i \in places \cap (1 .. Len(all))}
  <2>1. all \in Seq(0 .. nprocs - 1)
    BY <1>2
  <2> HIDE DEF places
  <2> QED
    BY <2>1, PickedFacts
<1> HIDE DEF pe_list
<1>4. \A q : q \in Range(pe_list) <=> q \in 0 .. nprocs - 1 /\ segs[q] # <<>>
  <2>1. \A q : q \in Range(pe_list) <=> \E i \in 1 .. nprocs : segs[i - 1] # <<>> /\ all[i] = q
    BY <1>2, <1>3
  <2>2. ASSUME NEW q \in Range(pe_list) PROVE q \in 0 .. nprocs - 1 /\ segs[q] # <<>>
    <3>1. PICK i \in 1 .. nprocs : segs[i - 1] # <<>> /\ all[i] = q
      BY <2>1
    <3>2. q = i - 1
      BY <1>2, <3>1
    <3>3. i - 1 \in 0 .. nprocs - 1
      OBVIOUS
    <3> QED
      BY <3>1, <3>2, <3>3, Zenon
  <2>3. ASSUME NEW q \in 0 .. nprocs - 1, segs[q] # <<>> PROVE q \in Range(pe_list)
    <3>1. q + 1 \in 1 .. nprocs /\ (q + 1) - 1 = q
      OBVIOUS
    <3>2. all[q + 1] = q
      BY <1>2, <3>1
    <3> QED
      BY <2>1, <2>3, <3>1, <3>2
  <2> QED
    BY <2>2, <2>3
<1>5. \A q \in 0 .. nprocs - 1 : segs[q] = Overlaps(mine, SegmentsOf(h, q))
  BY DEF segs
<1>6. rout.pe_list = pe_list /\ rout.permarr = <<>> /\ \A q \in Range(pe_list) : rout.segs[q] = segs[q]
  <2> DEFINE f == [q \in Range(pe_list) |-> segs[q]]
  <2>1. \A q \in Range(pe_list) : f[q] = segs[q]
    OBVIOUS
  <2>2. rout = [pe_list |-> pe_list, segs |-> f, permarr |-> <<>>]
    BY <1>1
  <2> HIDE DEF rout, f
  <2>3. rout.pe_list = pe_list /\ rout.permarr = <<>> /\ rout.segs = f
    BY <2>2
  <2> QED
    BY <2>1, <2>3
<1> HIDE DEF rout, mine
<1> QED
  BY <1>3, <1>4, <1>5, <1>6 DEF rout, mine

-----------------------------------------------------------------------------
(* The routers of two well ordered decompositions *)

Own(d, pe) == SegmentsOf(MapOf(d), pe)

\* What the router of rank pe of l[c] is then
Finds(rout, l, c, other, pe) ==
  /\ rout.permarr = <<>>
  /\ rout.pe_list \in Seq(0 .. Size(l[other]) - 1)
  /\ \A q \in 0 .. Size(l[other]) - 1 :
       q \in Range(rout.pe_list) <=> SetOf(Own(l[c], pe)) \cap SetOf(Own(l[other], q)) # {}
  /\ \A q \in Range(rout.pe_list) : rout.segs[q] = Overlaps(Own(l[c], pe), Own(l[other], q))

LEMMA OrderedRouter ==
  ASSUME NEW l, NEW c, NEW other, WellOrdered(l[c]), WellOrdered(l[other]),
         NEW pe \in 0 .. Size(l[c]) - 1
  PROVE  Finds(RoutersOf(l, c, other)[pe], l, c, other, pe)
<1> DEFINE g == MapOf(l[c])
           h == MapOf(l[other])
           n == Size(l[other])
           rout == RoutersOf(l, c, other)[pe]
           mine == Own(l[c], pe)
<1>1. increasing(g) /\ increasing(h) /\ n \in Nat
  BY DEF WellOrdered
<1>2. rout = Router(g, h, pe, Size(l[c]), n)
  BY DEF RoutersOf
<1>3. /\ rout.permarr = <<>>
      /\ rout.pe_list \in Seq(0 .. n - 1)
      /\ \A q : q \in Range(rout.pe_list) <=>
                q \in 0 .. n - 1 /\ Overlaps(SegmentsOf(g, pe), SegmentsOf(h, q)) # <<>>
      /\ \A q \in Range(rout.pe_list) : rout.segs[q] = Overlaps(SegmentsOf(g, pe), SegmentsOf(h, q))
  <2> HIDE DEF g, h, n, rout
  <2> QED
    BY <1>1, <1>2, RouterOfOrdered
<1>4. mine \in Seq(MapSegments) /\ Ascends(mine)
  BY SegmentsAscend DEF Own
<1>5. ASSUME NEW q \in 0 .. n - 1
      PROVE  Overlaps(mine, Own(l[other], q)) # <<>> <=> SetOf(mine) \cap SetOf(Own(l[other], q)) # {}
  <2>1. Own(l[other], q) \in Seq(MapSegments) /\ Ascends(Own(l[other], q))
    BY SegmentsAscend DEF Own
  <2> HIDE DEF mine
  <2> QED
    BY <1>4, <2>1, OverlapsEmpty
<1>6. mine = SegmentsOf(g, pe) /\ \A q : Own(l[other], q) = SegmentsOf(h, q)
  BY DEF Own
<1> HIDE DEF g, h, rout, mine
<1>7. \A q \in 0 .. n - 1 : q \in Range(rout.pe_list) <=> SetOf(mine) \cap SetOf(Own(l[other], q)) # {}
  BY <1>3, <1>5, <1>6
<1>8. \A q \in Range(rout.pe_list) : rout.segs[q] = Overlaps(mine, Own(l[other], q))
  BY <1>3, <1>6
<1> QED
  BY <1>3, <1>7, <1>8 DEF rout, mine, Finds

\* Two ranks find each other, with the same points in the same order.
LEMMA OrderedExchange ==
  ASSUME NEW l, WellOrdered(l["src"]), WellOrdered(l["dst"]),
         NEW pe \in 0 .. Size(l["src"]) - 1, NEW q \in 0 .. Size(l["dst"]) - 1
  PROVE  SameExchange(l, RoutersOf(l, "src", "dst"), RoutersOf(l, "dst", "src"), pe, q)
<1> DEFINE S == RoutersOf(l, "src", "dst")
           D == RoutersOf(l, "dst", "src")
           mine == Own(l["src"], pe)
           theirs == Own(l["dst"], q)
           a == Places(Overlaps(mine, theirs))
           b == Places(Overlaps(theirs, mine))
<1>1. /\ S[pe].permarr = <<>>
      /\ q \in Range(S[pe].pe_list) <=> SetOf(mine) \cap SetOf(theirs) # {}
      /\ q \in Range(S[pe].pe_list) => S[pe].segs[q] = Overlaps(mine, theirs)
  <2>1. Finds(S[pe], l, "src", "dst", pe)
    BY OrderedRouter
  <2> QED
    BY <2>1 DEF Finds
<1>2. /\ D[q].permarr = <<>>
      /\ pe \in Range(D[q].pe_list) <=> SetOf(theirs) \cap SetOf(mine) # {}
      /\ pe \in Range(D[q].pe_list) => D[q].segs[pe] = Overlaps(theirs, mine)
  <2>1. Finds(D[q], l, "dst", "src", q)
    BY OrderedRouter
  <2> QED
    BY <2>1 DEF Finds
<1>3. /\ mine \in Seq(MapSegments) /\ Ascends(mine) /\ OrderedPoints(MapOf(l.src), pe) = PointList(mine)
      /\ theirs \in Seq(MapSegments) /\ Ascends(theirs) /\ OrderedPoints(MapOf(l.dst), q) = PointList(theirs)
  BY SegmentsAscend DEF Own
<1>4. Exchanged(l, "src", S[pe], pe) = PointList(mine) /\ Exchanged(l, "dst", D[q], q) = PointList(theirs)
  BY <1>1, <1>2, <1>3 DEF Exchanged, InOrder
<1> HIDE DEF S, D, mine, theirs
<1>5. q \in Range(S[pe].pe_list) <=> pe \in Range(D[q].pe_list)
  BY <1>1, <1>2
<1>6. ASSUME q \in Range(S[pe].pe_list)
      PROVE  S[pe].segs[q] = Overlaps(mine, theirs) /\ D[q].segs[pe] = Overlaps(theirs, mine)
  BY <1>1, <1>2, <1>5, <1>6
<1>7. /\ a \in Seq(Nat) /\ Range(a) = {x \in 1 .. Len(PointList(mine)) : PointList(mine)[x] \in SetOf(theirs)}
      /\ b \in Seq(Nat) /\ Range(b) = {x \in 1 .. Len(PointList(theirs)) : PointList(theirs)[x] \in SetOf(mine)}
  <2>1. Lists(a, CommonPlaces(mine, theirs)) /\ Lists(b, CommonPlaces(theirs, mine))
    BY <1>3, ExchangedPlaces
  <2> QED
    BY <2>1 DEF Lists, CommonPlaces
<1>8. Len(a) = Len(b) /\ \A k \in 1 .. Len(b) : PointList(mine)[a[k]] = PointList(theirs)[b[k]]
  BY <1>3, SamePoints
<1>9. PointList(mine) \in Seq(Nat) /\ PointList(theirs) \in Seq(Nat)
  BY <1>3, PointListLists DEF Lists
<1>10. /\ Range(a) \subseteq DOMAIN PointList(mine) /\ Range(b) \subseteq DOMAIN PointList(theirs)
       /\ DOMAIN b = 1 .. Len(b)
  BY <1>7, <1>9, SeqFacts
<1>11. ASSUME pe \in Range(D[q].pe_list) PROVE Len(Overlaps(theirs, mine)) \in Nat \ {0}
  <2>1. Overlaps(theirs, mine) # <<>>
    BY <1>2, <1>3, <1>11, OverlapsEmpty
  <2>2. Overlaps(theirs, mine) \in Seq(Spans)
    BY <1>3, OverlapsFound
  <2> QED
    BY <2>1, <2>2
<1> HIDE DEF a, b
<1>12. q \in Range(S[pe].pe_list) =>
         /\ Places(S[pe].segs[q]) = a /\ Places(D[q].segs[pe]) = b
         /\ Len(D[q].segs[pe]) \in Nat \ {0}
  BY <1>5, <1>6, <1>11 DEF a, b
<1>13. \A k \in DOMAIN b : Exchanged(l, "src", S[pe], pe)[a[k]] = Exchanged(l, "dst", D[q], q)[b[k]]
  BY <1>4, <1>8, <1>10
<1> QED
  BY <1>3, <1>5, <1>7, <1>8, <1>10, <1>12, <1>13 DEF SameExchange, S, D

\* Every point of a rank of the target that the source has comes from a partner.
LEMMA OrderedReached ==
  ASSUME NEW l, WellOrdered(l["src"]), WellOrdered(l["dst"]), NEW q \in 0 .. Size(l["dst"]) - 1
  PROVE  AllReached(l, RoutersOf(l, "dst", "src"), q)
<1> DEFINE D == RoutersOf(l, "dst", "src")
           mine == Own(l["dst"], q)
           point == Exchanged(l, "dst", D[q], q)
           covered == UNION {Range(LocalPoints(l.src, pe)) : pe \in 0 .. Size(l.src) - 1}
<1>1. /\ D[q].permarr = <<>>
      /\ \A pe \in 0 .. Size(l["src"]) - 1 :
           pe \in Range(D[q].pe_list) <=> SetOf(mine) \cap SetOf(Own(l["src"], pe)) # {}
      /\ \A pe \in Range(D[q].pe_list) : D[q].segs[pe] = Overlaps(mine, Own(l["src"], pe))
  <2>1. Finds(D[q], l, "dst", "src", q)
    BY OrderedRouter
  <2> QED
    BY <2>1 DEF Finds
<1>2. mine \in Seq(MapSegments) /\ Ascends(mine) /\ OrderedPoints(MapOf(l.dst), q) = PointList(mine)
  BY SegmentsAscend DEF Own
<1>3. point = PointList(mine)
  BY <1>1, <1>2 DEF Exchanged, InOrder
<1>4. Lists(PointList(mine), SetOf(mine)) /\ PointList(mine) \in Seq(Nat)
  BY <1>2, PointListLists DEF Lists
<1>5. /\ DOMAIN point = 1 .. Len(PointList(mine))
      /\ \A i \in DOMAIN point : point[i] \in SetOf(mine)
  <2>1. Range(PointList(mine)) = SetOf(mine)
    BY <1>4 DEF Lists
  <2> HIDE DEF mine, point
  <2> QED
    BY <2>1, <1>3, <1>4, SeqFacts
<1> HIDE DEF D, mine, point
<1>6. ASSUME NEW i \in DOMAIN point, NEW pe \in 0 .. Size(l["src"]) - 1,
             point[i] \in Range(LocalPoints(l["src"], pe))
      PROVE  pe \in Range(D[q].pe_list) /\ i \in Range(Places(D[q].segs[pe]))
  <2> DEFINE theirs == Own(l["src"], pe)
  <2>1. theirs \in Seq(MapSegments) /\ Ascends(theirs) /\ OrderedPoints(MapOf(l["src"]), pe) = PointList(theirs)
    BY SegmentsAscend DEF Own
  <2>2. LocalPoints(l["src"], pe) = PointList(theirs)
    BY <2>1 DEF WellOrdered
  <2>3. Range(PointList(theirs)) = SetOf(theirs)
    BY <2>1, PointListLists DEF Lists
  <2>4. point[i] \in SetOf(mine) /\ point[i] \in SetOf(theirs)
    BY <1>5, <1>6, <2>2, <2>3
  <2>5. pe \in Range(D[q].pe_list)
    BY <1>1, <2>4
  <2>6. D[q].segs[pe] = Overlaps(mine, theirs)
    BY <1>1, <2>5
  <2> HIDE DEF theirs
  <2>7. Range(Places(Overlaps(mine, theirs))) = CommonPlaces(mine, theirs)
    BY <1>2, <2>1, ExchangedPlaces DEF Lists
  <2>8. i \in Range(Places(Overlaps(mine, theirs)))
    BY <1>3, <1>5, <2>4, <2>7 DEF CommonPlaces
  <2> QED
    BY <2>5, <2>6, <2>8
<1>7. ASSUME NEW i \in DOMAIN point, point[i] \in covered
      PROVE  \E pe \in Range(D[q].pe_list) : i \in Range(Places(D[q].segs[pe]))
  BY <1>6, <1>7
<1> QED
  BY <1>7 DEF AllReached, point, D

OrderedLayout(l) == DOMAIN l = {"src", "dst"} /\ WellOrdered(l["src"]) /\ WellOrdered(l["dst"])

\* The routers of two decompositions without empty segments and with the segments
\* of each rank in ascending order and apart are made without a correction, and
\* they fit together, however many the ranks and the points and whatever the
\* order in which the ranks have them.
THEOREM OrderedRoutersFit ==
  ASSUME NEW l, OrderedLayout(l) PROVE Routable(l)
<1> DEFINE S == RoutersOf(l, "src", "dst")
           D == RoutersOf(l, "dst", "src")
<1>1. WellOrdered(l["src"]) /\ WellOrdered(l["dst"]) /\ DOMAIN l = {"src", "dst"}
  BY DEF OrderedLayout
<1>2. DOMAIN S = 0 .. Size(l["src"]) - 1 /\ DOMAIN D = 0 .. Size(l["dst"]) - 1
  BY DEF RoutersOf
<1>3. \A pe \in DOMAIN S : S[pe].pe_list \in Seq(DOMAIN D) /\ S[pe].permarr = <<>>
  <2> TAKE pe \in DOMAIN S
  <2>1. Finds(S[pe], l, "src", "dst", pe)
    BY <1>1, <1>2, OrderedRouter
  <2> QED
    BY <1>2, <2>1 DEF Finds
<1>4. \A q \in DOMAIN D : D[q].pe_list \in Seq(DOMAIN S) /\ D[q].permarr = <<>>
  <2> TAKE q \in DOMAIN D
  <2>1. Finds(D[q], l, "dst", "src", q)
    BY <1>1, <1>2, OrderedRouter
  <2> QED
    BY <1>2, <2>1 DEF Finds
<1>5. \A q \in DOMAIN D : OrderedPoints(MapOf(l.dst), q) = LocalPoints(l.dst, q)
  BY <1>1, <1>2 DEF WellOrdered
<1>6. \A q \in DOMAIN D : AllReached(l, D, q)
  BY <1>1, <1>2, OrderedReached
<1>7. \A q \in DOMAIN D, pe \in DOMAIN S : SameExchange(l, S, D, pe, q)
  BY <1>1, <1>2, OrderedExchange
<1> HIDE DEF S, D
<1>8. Fit(l, S, D)
  BY <1>3, <1>4, <1>5, <1>6, <1>7 DEF Fit, Reorders
<1> QED
  BY <1>1, <1>8 DEF Routable, S, D

-----------------------------------------------------------------------------
(* The decomposition that the coupling layer makes itself *)

BlocksOf(gsize, n) == [kind |-> "1d", gsize |-> gsize, mpisize |-> n]

BlockOf(gsize, n, pe) ==
  [start |-> Part1d(gsize, n, pe).start, length |-> Part1d(gsize, n, pe).length, pe_loc |-> pe]

BlockSet(n) == [start : Nat, length : Nat \ {0}, pe_loc : 0 .. n - 1]

\* With a point at least for each rank, no block is empty.
LEMMA BlockFacts ==
  ASSUME NEW gsize \in Nat, NEW n \in Nat \ {0}, n <= gsize, NEW pe \in 0 .. n - 1
  PROVE  BlockOf(gsize, n, pe) \in BlockSet(n)
<1>1. PICK q \in Nat, pts \in 0 .. n - 1 : q = gsize \div n /\ gsize = q * n + pts
  BY Division
<1>2. q # 0
  <2> SUFFICES ASSUME q = 0 PROVE FALSE
    OBVIOUS
  <2>1. q * n = 0
    OBVIOUS
  <2>2. gsize = pts
    BY <1>1, <2>1
  <2> QED
    BY <2>2
<1>3. gsize - q * n = pts /\ q * pe \in Nat
  <2>1. q * n \in Nat /\ q * pe \in Nat
    OBVIOUS
  <2> QED
    BY <1>1, <2>1
<1>4. Part1d(gsize, n, pe) = [start |-> q * pe + (IF pe < pts THEN pe ELSE pts) + 1,
                              length |-> IF pe < pts THEN q + 1 ELSE q]
  BY <1>1, <1>3 DEF Part1d, Segment
<1>5. Part1d(gsize, n, pe).start = q * pe + (IF pe < pts THEN pe ELSE pts) + 1
  BY <1>4
<1>6. Part1d(gsize, n, pe).length = IF pe < pts THEN q + 1 ELSE q
  BY <1>4
<1>7. Part1d(gsize, n, pe).start \in Nat
  BY <1>3, <1>5
<1>8. Part1d(gsize, n, pe).length \in Nat \ {0}
  BY <1>2, <1>6
<1> QED
  BY <1>7, <1>8 DEF BlockOf, BlockSet

\* One after the other they are the map.
LEMMA BlocksGathered ==
  ASSUME NEW gsize \in Nat, NEW n \in Nat \ {0}, n <= gsize
  PROVE  LET segs == MapOf(BlocksOf(gsize, n)).segs
         IN  /\ segs \in Seq(BlockSet(n)) /\ Len(segs) = n
             /\ \A i \in 1 .. n : segs[i] = BlockOf(gsize, n, i - 1)
<1> DEFINE d == BlocksOf(gsize, n)
           own == OwnSegments(d)
           seqs == [i \in DOMAIN own |->
                      [k \in DOMAIN own[i] |->
                         [start |-> own[i][k].start, length |-> own[i][k].length, pe_loc |-> i - 1]]]
           block(i) == BlockOf(gsize, n, i - 1)
           Is(i, s) == Len(s) = i /\ \A k \in 1 .. i : s[k] = block(k)
           G == [i \in 0 .. n |-> {s \in Seq(BlockSet(n)) : Is(i, s)}]
<1>1. own = [i \in 1 .. n |-> <<Part1d(gsize, n, i - 1)>>]
  BY DEF OwnSegments, Size, BlocksOf
<1>2. MapOf(d).segs = FlattenSeq(seqs)
  BY DEF MapOf, GlobalSegMap, Gathered
<1>3. \A i \in 1 .. n : block(i) \in BlockSet(n)
  <2>1. \A i \in 1 .. n : i - 1 \in 0 .. n - 1
    OBVIOUS
  <2> QED
    BY <2>1, BlockFacts
<1>4. \A i \in 1 .. n : seqs[i] = <<block(i)>>
  <2> TAKE i \in 1 .. n
  <2>1. own[i] = <<Part1d(gsize, n, i - 1)>> /\ i \in DOMAIN own
    BY <1>1
  <2>2. DOMAIN own[i] = {1} /\ own[i][1] = Part1d(gsize, n, i - 1)
    BY <2>1
  <2>3. seqs[i] = [k \in DOMAIN own[i] |->
                     [start |-> own[i][k].start, length |-> own[i][k].length, pe_loc |-> i - 1]]
    BY <2>1, Zenon
  <2> HIDE DEF own, seqs
  <2>4. seqs[i] = [k \in {1} |-> block(i)]
    BY <2>2, <2>3 DEF BlockOf
  <2>5. [k \in {1} |-> block(i)] = <<block(i)>>
    OBVIOUS
  <2> QED
    BY <2>4, <2>5
<1>5. seqs \in Seq(Seq(BlockSet(n))) /\ Len(seqs) = n
  <2>1. DOMAIN seqs = 1 .. n /\ seqs = [i \in DOMAIN seqs |-> seqs[i]]
    BY <1>1
  <2> HIDE DEF seqs, block
  <2>2. \A i \in 1 .. n : seqs[i] \in Seq(BlockSet(n))
    <3>1. ASSUME NEW T, NEW x \in T PROVE <<x>> \in Seq(T)
      OBVIOUS
    <3>2. \A x \in BlockSet(n) : <<x>> \in Seq(BlockSet(n))
      BY <3>1
    <3> QED
      BY <1>3, <1>4, <3>2
  <2>3. seqs \in [1 .. n -> Seq(BlockSet(n))]
    BY <2>1, <2>2, Zenon
  <2>4. seqs \in Seq(Seq(BlockSet(n)))
    BY <2>3
  <2>5. DOMAIN seqs = 1 .. Len(seqs) /\ Len(seqs) \in Nat
    BY <2>4
  <2> QED
    BY <2>1, <2>4, <2>5
<1>6. \A i \in 0 .. n : \A s : s \in G[i] <=> s \in Seq(BlockSet(n)) /\ Is(i, s)
  OBVIOUS
<1> HIDE DEF seqs, block, G, d, own
<1>7. <<>> \in G[0]
  <2>1. <<>> \in Seq(BlockSet(n)) /\ Is(0, <<>>) /\ 0 \in 0 .. n
    OBVIOUS
  <2> HIDE DEF Is
  <2> QED
    BY <2>1, <1>6
<1>8. ASSUME NEW i \in 1 .. n, NEW s \in G[i - 1] PROVE s \o seqs[i] \in G[i]
  <2>1. i - 1 \in 0 .. n /\ i \in 0 .. n /\ i - 1 \in Nat
    OBVIOUS
  <2>2. s \in Seq(BlockSet(n)) /\ Len(s) = i - 1 /\ \A k \in 1 .. i - 1 : s[k] = block(k)
    BY <1>6, <2>1
  <2>3. PICK t : t = <<block(i)>>
    OBVIOUS
  <2>4. t \in Seq(BlockSet(n)) /\ Len(t) = 1 /\ t[1] = block(i)
    BY <1>3, <2>3
  <2>5. /\ s \o t \in Seq(BlockSet(n)) /\ Len(s \o t) = Len(s) + Len(t)
        /\ \A m \in 1 .. Len(s) : (s \o t)[m] = s[m]
        /\ \A m \in 1 .. Len(t) : (s \o t)[Len(s) + m] = t[m]
    <3>1. s \in Seq(BlockSet(n)) /\ t \in Seq(BlockSet(n))
      BY <2>2, <2>4
    <3> QED
      BY <3>1
  <2>6. PICK st : st = s \o t
    OBVIOUS
  <2>7. Len(st) = i /\ st[i] = block(i)
    <3>1. 1 \in 1 .. 1 /\ (i - 1) + 1 = i
      OBVIOUS
    <3> QED
      BY <2>2, <2>4, <2>5, <2>6, <3>1
  <2>8. \A k \in 1 .. i : st[k] = block(k)
    <3>1. \A k \in 1 .. i : k \in 1 .. i - 1 \/ k = i
      OBVIOUS
    <3> QED
      BY <2>2, <2>5, <2>6, <2>7, <3>1
  <2>9. st \in G[i]
    BY <1>6, <2>1, <2>5, <2>6, <2>7, <2>8
  <2> QED
    BY <1>4, <2>3, <2>6, <2>9
<1>9. FlattenSeq(seqs) \in G[n]
  <2>1. \A i \in 0 .. n : G[i] \subseteq Seq(BlockSet(n))
    BY <1>6
  <2> QED
    BY <1>5, <1>7, <1>8, <2>1, FlattenValues
<1>10. n \in 0 .. n
  OBVIOUS
<1> QED
  BY <1>2, <1>6, <1>9, <1>10 DEF d, block

\* A list of one list
LEMMA FlattenOne ==
  ASSUME NEW T, NEW s \in Seq(T) PROVE FlattenSeq(<<s>>) = s
<1> DEFINE G == [i \in 0 .. 1 |-> IF i = 0 THEN {<<>>} ELSE {s}]
<1>1. PICK seqs : seqs = <<s>>
  OBVIOUS
<1>2. seqs \in Seq(Seq(T)) /\ Len(seqs) = 1 /\ seqs[1] = s
  <2>1. \A S : \A x \in S : <<x>> \in Seq(S)
    OBVIOUS
  <2> QED
    BY <1>1, <2>1
<1>3. \A i \in 0 .. Len(seqs) : i = 0 \/ i = 1
  BY <1>2
<1>4. \A i \in 1 .. Len(seqs) : i = 1
  BY <1>2
<1>5. G[0] = {<<>>} /\ G[1] = {s}
  OBVIOUS
<1> HIDE DEF G
<1>6. <<>> \o s = s /\ <<>> \in Seq(T) /\ 1 - 1 = 0
  OBVIOUS
<1>7. FlattenSeq(seqs) \in G[Len(seqs)]
  <2>1. \A i \in 0 .. Len(seqs) : G[i] \subseteq Seq(T)
    BY <1>3, <1>5, <1>6
  <2>2. <<>> \in G[0]
    BY <1>5
  <2>3. \A i \in 1 .. Len(seqs) : \A x \in G[i - 1] : x \o seqs[i] \in G[i]
    BY <1>2, <1>4, <1>5, <1>6
  <2> QED
    BY <1>2, <2>1, <2>2, <2>3, FlattenValues
<1> QED
  BY <1>1, <1>2, <1>5, <1>7

\* The blocks that oasis_part_create makes of a grid with a point at least for
\* each rank are such a decomposition: the first segment of a rank is its only one.
THEOREM BlocksAreOrdered ==
  ASSUME NEW gsize \in Nat, NEW n \in Nat \ {0}, n <= gsize
  PROVE  WellOrdered(BlocksOf(gsize, n))
<1> DEFINE d == BlocksOf(gsize, n)
           segs == MapOf(d).segs
           mine(pe) == SegmentsOf(MapOf(d), pe)
<1>1. Size(d) = n /\ d.kind = "1d" /\ d.gsize = gsize /\ d.mpisize = n
  BY DEF Size, BlocksOf
<1>2. segs \in Seq(BlockSet(n)) /\ Len(segs) = n /\ \A i \in 1 .. n : segs[i] = BlockOf(gsize, n, i - 1)
  BY BlocksGathered
<1>3. \A pe : SegmentsOf(MapOf(d), pe) = Picked(segs, {k \in DOMAIN segs : segs[k].pe_loc = pe})
  BY DEF SegmentsOf
<1> HIDE DEF d, segs
<1>4. \A pe \in 0 .. n - 1 : mine(pe) = <<BlockOf(gsize, n, pe)>>
  <2> TAKE pe \in 0 .. n - 1
  <2> DEFINE places == {k \in DOMAIN segs : segs[k].pe_loc = pe}
  <2>1. pe + 1 \in 1 .. n /\ (pe + 1) - 1 = pe /\ DOMAIN segs = 1 .. n
    BY <1>2
  <2>2. \A k \in 1 .. n : segs[k].pe_loc = k - 1
    BY <1>2 DEF BlockOf
  <2>3. \A k \in 1 .. n : k \in places <=> k = pe + 1
    <3>1. \A k \in 1 .. n : k - 1 = pe <=> k = pe + 1
      OBVIOUS
    <3> QED
      BY <2>1, <2>2, <3>1
  <2> HIDE DEF places
  <2>4. Picked(segs, places) = <<segs[pe + 1]>>
    BY <1>2, <2>1, <2>3, PickedOne
  <2>5. segs[pe + 1] = BlockOf(gsize, n, pe)
    BY <1>2, <2>1
  <2> QED
    BY <1>3, <2>4, <2>5 DEF places
<1>5. segs \in Seq([start : Nat, length : Nat \ {0}, pe_loc : 0 .. Size(d) - 1])
  BY <1>1, <1>2 DEF BlockSet
<1>6. increasing(MapOf(d))
  <2>1. ASSUME NEW s \in Range(segs) PROVE s.pe_loc \in 0 .. n - 1
    <3>1. s \in BlockSet(n)
      BY <1>2, SeqFacts
    <3> QED
      BY <3>1 DEF BlockSet
  <2>2. \A s \in Range(segs) : Len(mine(s.pe_loc)) = 1
    <3>1. \A x : Len(<<x>>) = 1
      OBVIOUS
    <3> QED
      BY <1>4, <2>1, <3>1
  <2>3. 2 .. 1 = {}
    OBVIOUS
  <2>4. \A s \in Range(segs) : 2 .. Len(mine(s.pe_loc)) = {}
    BY <2>2, <2>3
  <2> QED
    BY <2>4 DEF increasing, segs
<1>7. ASSUME NEW pe \in 0 .. n - 1 PROVE OrderedPoints(MapOf(d), pe) = LocalPoints(d, pe)
  <2> DEFINE block == BlockOf(gsize, n, pe)
             list == [k \in DOMAIN mine(pe) |-> Points(mine(pe)[k])]
  <2>1. block.start = Part1d(gsize, n, pe).start /\ block.length = Part1d(gsize, n, pe).length
    BY DEF BlockOf
  <2>2. block.start \in Nat /\ block.length \in Nat
    BY BlockFacts DEF BlockSet
  <2>3. Points(block) \in Seq(Nat)
    BY <2>2, PointsLists DEF Lists
  <2>4. Points(block) = Points(Part1d(gsize, n, pe))
    BY <2>1 DEF Points
  <2>5. list = <<Points(block)>>
    <3>1. PICK m : m = mine(pe)
      OBVIOUS
    <3>2. m = <<block>>
      BY <1>4, <3>1
    <3> HIDE DEF block
    <3>3. DOMAIN m = {1} /\ m[1] = block
      BY <3>2
    <3>4. [k \in DOMAIN m |-> Points(m[k])] = [k \in {1} |-> Points(block)]
      BY <3>3
    <3>5. [k \in {1} |-> Points(block)] = <<Points(block)>>
      OBVIOUS
    <3> QED
      BY <3>1, <3>4, <3>5
  <2>6. OrderedPoints(MapOf(d), pe) = FlattenSeq(list)
    BY DEF OrderedPoints
  <2> HIDE DEF list, block
  <2>7. OrderedPoints(MapOf(d), pe) = Points(block)
    BY <2>3, <2>5, <2>6, FlattenOne
  <2>8. LocalPoints(d, pe) = Points(Part1d(gsize, n, pe))
    BY <1>1 DEF LocalPoints
  <2> QED
    BY <2>4, <2>7, <2>8
<1> HIDE DEF mine
<1>8. segs = MapOf(d).segs
  BY DEF segs
<1> QED
  BY <1>1, <1>5, <1>6, <1>7, <1>8 DEF WellOrdered, d

-----------------------------------------------------------------------------
(* The runs over such decompositions *)

LEMMA RoutersFitFrom == ASSUME AllRoutable, RouteInv PROVE RoutersFit
<1> SUFFICES ASSUME DOMAIN routers = {"src", "dst"} PROVE Fit(layout, routers["src"], routers["dst"])
  BY DEF RoutersFit
<1>1. Made /\ (DOMAIN routers # {} => DOMAIN gsmap = Sides)
  BY DEF RouteInv, Made
<1>2. DOMAIN gsmap = Sides
  BY <1>1
<1>3. /\ Routable(layout)
      /\ "src" \in DOMAIN routers => routers["src"] = Sends(layout)
      /\ "dst" \in DOMAIN routers => routers["dst"] = Gets(layout)
  BY <1>1, <1>2, RouterFacts
<1> QED
  BY <1>3 DEF Routable, Sends, Gets

\* Of decompositions without empty segments and with the segments of each rank in
\* ascending order and apart, the routers that the ranks make fit together, every
\* mct_recv delivers the values of the put of its round, and no rank waits for ever.
THEOREM OrderedRun ==
  ASSUME \A l \in Layouts : OrderedLayout(l) PROVE RouteSpec => [](RoutersFit /\ Delivered /\ NoRankWaits)
<1>1. AllRoutable
  BY OrderedRoutersFit DEF AllRoutable
<1>2. RouteSpec => []RouteInv
  BY <1>1, RouteAlways
<1>3. RouteInv => RoutersFit /\ Delivered /\ NoRankWaits
  BY <1>1, RoutersFitFrom, DeliveredFrom, NoRankWaitsFrom, RoundsAssumption
<1> QED
  BY <1>2, <1>3, PTL

\* The same of the decompositions that the coupling layer makes itself, of a grid
\* with a point at least for each rank, however many ranks the two components have.
THEOREM BlocksRun ==
  ASSUME \A l \in Layouts : \E gsize \in Nat : \E n, m \in 1 .. gsize :
           l = [src |-> BlocksOf(gsize, n), dst |-> BlocksOf(gsize, m)]
  PROVE  RouteSpec => [](RoutersFit /\ Delivered /\ NoRankWaits)
<1>1. ASSUME NEW l \in Layouts PROVE OrderedLayout(l)
  <2>1. PICK gsize \in Nat : \E n, m \in 1 .. gsize :
           l = [src |-> BlocksOf(gsize, n), dst |-> BlocksOf(gsize, m)]
    OBVIOUS
  <2>2. PICK n \in 1 .. gsize, m \in 1 .. gsize :
           l = [src |-> BlocksOf(gsize, n), dst |-> BlocksOf(gsize, m)]
    BY <2>1
  <2>3. n \in Nat \ {0} /\ n <= gsize /\ m \in Nat \ {0} /\ m <= gsize
    BY <2>1
  <2>4. WellOrdered(BlocksOf(gsize, n)) /\ WellOrdered(BlocksOf(gsize, m))
    BY <2>3, BlocksAreOrdered
  <2>5. DOMAIN l = {"src", "dst"} /\ l["src"] = BlocksOf(gsize, n) /\ l["dst"] = BlocksOf(gsize, m)
    BY <2>2
  <2> QED
    BY <2>4, <2>5 DEF OrderedLayout
<1> QED
  BY <1>1, OrderedRun

=============================================================================
