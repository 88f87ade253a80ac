---------------------------- MODULE CouplerSetup ----------------------------
(***************************************************************************)
(* The definition phase: each model defines its variables in the order it  *)
(* likes (oasis_def_var), the definitions are shared, and each model finds *)
(* for itself, from them and from the namcouple, the couplers it is an end *)
(* of (oasis_coupler_setup); then the two models of each coupler exchange  *)
(* their decompositions (MCT's router_init).  Nothing is negotiated: the   *)
(* two ends must come to the same couplers in the same order by themselves.*)
(* A model is its root process: the others do the same.                    *)
(***************************************************************************)
EXTENDS Integers, Sequences, FiniteSets

CONSTANTS
  NModels,   \* prism_nmodels
  NamFile,   \* the entries of the namcouple in the order of the file: src, dst
             \* |-> lists of as many names, seq |-> SEQ, kind |-> namfldops
  Programs   \* the programs: sets of [Model -> sequence of [name, ops]]

VARIABLES
  namfldsort,     \* the entries in the order of SEQ
  todo,           \* the calls of oasis_def_var that a model has still to make
  pc,             \* "define", "share", "match", "router", "pars", "segs"
  prism_var,      \* the variables of each model: [name, ops]
  nns,            \* the entries of namfldsort a model has looked at
  prism_coupler,  \* the couplers of each model
  nc,             \* the coupler that the router loop of a model is at
  router,         \* the decompositions received: [pars, segs |-> a message]
  net,            \* messages under way, by source and target; one tag for each
  aborted         \* "no", or the routine that called oasis_abort

vars == <<namfldsort, todo, pc, prism_var, nns, prism_coupler, nc, router, net, aborted>>

Model == 1..NModels
Definitions == [name : STRING, ops : {"Out", "In"}]

\* What the tags assume, and what the two files are
ASSUME SetupAssumption ==
  /\ NModels \in 1..100
  /\ NamFile \in Seq([src : Seq(STRING), dst : Seq(STRING), seq : Int, kind : STRING])
  /\ Len(NamFile) <= 1000
  /\ \A f \in Programs : f \in [Model -> Seq(Definitions)]

Entries == 1..Len(NamFile)
Listed(s) == {s[k] : k \in DOMAIN s}
NamNames == UNION {Listed(NamFile[n].src) \cup Listed(NamFile[n].dst) : n \in Entries}
mvar == Cardinality(UNION {{n} \X DOMAIN NamFile[n].src : n \in Entries})
Communicates(n) == NamFile[n].kind \in {"exported", "expout"}

\* The sort of the namcouple: each entry goes before the first that has a larger
\* SEQ, or to the end
namfldseq == [n \in Entries |-> NamFile[n].seq]
Inserted(seq, s, nv) ==
  LET later == {n1 \in DOMAIN s : seq[nv] < seq[s[n1]]}
      loc == IF later = {} THEN nv ELSE CHOOSE n \in later : \A m \in later : n <= m
  IN [i \in 1..nv |-> IF i < loc THEN s[i] ELSE IF i = loc THEN nv ELSE s[i - 1]]
SeqSorted(seq) ==
  LET sorted[nv \in 0..Len(seq)] ==
        IF nv = 0 THEN <<>> ELSE Inserted(seq, sorted[nv - 1], nv)
  IN sorted[Len(seq)]

\* What that is: the entries of one SEQ keep their order.
StableSorts(seq) ==
  {s \in [DOMAIN seq -> DOMAIN seq] :
     \A i, j \in DOMAIN seq : i < j =>
       \/ seq[s[i]] < seq[s[j]]
       \/ seq[s[i]] = seq[s[j]] /\ s[i] < s[j]}

-----------------------------------------------------------------------------
(* What a model makes of an entry of the namcouple *)

\* Its variable nv is listed by the entry n on the side of its direction
Index(list, name) == CHOOSE k \in DOMAIN list : list[k] = name /\
                       \A i \in 1..(k - 1) : list[i] # name
Side(ops, n) == IF ops = "Out" THEN NamFile[n].src ELSE NamFile[n].dst
OtherSide(ops, n) == IF ops = "Out" THEN NamFile[n].dst ELSE NamFile[n].src
InEntry(v, n) == v.name \in Listed(Side(v.ops, n))
FirstName(v, n) == OtherSide(v.ops, n)[1]          \* mutant: the index not used
otfldmatch(v, n) == OtherSide(v.ops, n)[Index(Side(v.ops, n), v.name)]

\* A match: a variable nv1 of the model p, and a variable nv of a model nm that
\* has the name at its position on the other side, whatever its direction
Matches(p, n) ==
  {m \in (DOMAIN prism_var[p]) \X Model \X (UNION {DOMAIN prism_var[q] : q \in Model}) :
     /\ InEntry(prism_var[p][m[1]], n)
     /\ m[3] \in DOMAIN prism_var[m[2]]
     /\ prism_var[m[2]][m[3]].name = otfldmatch(prism_var[p][m[1]], n)}

\* The order of the loops over nv1, nm and nv
Before(a, b) ==
  \/ a[1] < b[1]
  \/ a[1] = b[1] /\ a[2] < b[2]
  \/ a[1] = b[1] /\ a[2] = b[2] /\ a[3] < b[3]
InLoopOrder(S) ==
  {ms \in [1..Cardinality(S) -> S] :
     \A i, j \in DOMAIN ms : i < j => Before(ms[i], ms[j])}

\* The errors it stops at: a model that would talk to itself, two ends of one
\* direction, a file with two names, two sources of a target
RefusedSelf(p, n, ms, i) ==         \* mutant: directions not compared
  Communicates(n) /\ ms[i][2] = p
Refused(p, n, ms, i) ==
  LET m == ms[i]
      mine == prism_var[p][m[1]]
      other == prism_var[m[2]][m[3]]
  IN \/ Communicates(n) /\ (m[2] = p \/ mine.ops = other.ops)
     \/ ~Communicates(n) /\ mine.name # other.name
     \/ mine.ops = "In" /\ \E k \in 1..(i - 1) : ms[k][1] = m[1]

\* Tags assume up to 1000 entries and 100 models
Tag(dst, src, n) == dst * 100 * 1000 + src * 1000 + n

EndTagOwn(p, nm, n, ops) == Tag(p, nm, n)          \* mutant: not turned round
EndTag(p, nm, n, ops) == IF ops = "Out" THEN Tag(nm, p, n) ELSE Tag(p, nm, n)

\* An end that is written to a file puts, one that is read from a file gets, and
\* one that communicates does what its variable does
GetPutOutput(n, ops) ==             \* mutant: the file decides last
  IF NamFile[n].kind \in {"output", "expout"} \/ ops = "Out" THEN "put" ELSE "get"
GetPut(n, ops) ==
  IF Communicates(n) THEN (IF ops = "Out" THEN "put" ELSE "get")
  ELSE IF NamFile[n].kind = "output" THEN "put" ELSE "get"

\* The coupler of the entry: a field for each match, the rest from the last one
Coupler(p, n, ms) ==
  LET last == ms[Len(ms)]
      ops == prism_var[p][last[1]].ops
      nm == last[2]
  IN [namID |-> n, comp |-> nm,
      varid |-> [i \in DOMAIN ms |-> ms[i][1]],
      fldlist |-> [i \in DOMAIN ms |-> prism_var[p][ms[i][1]].name],
      sndrcv |-> Communicates(n),
      getput |-> GetPut(n, ops),
      tag |-> IF Communicates(n) THEN EndTag(p, nm, n, ops) ELSE Tag(p, p, n)]

\* A new coupler for the first match of an entry, the same for the others
AddedPerField(p, n, ms) ==          \* mutant: lnn not compared
  prism_coupler[p] \o [i \in DOMAIN ms |-> Coupler(p, n, <<ms[i]>>)]
AddedPutsFirst(p, n, ms) ==         \* mutant: what is sent before what is received
  IF ms = <<>> THEN prism_coupler[p]
  ELSE IF Coupler(p, n, ms).getput = "put" THEN <<Coupler(p, n, ms)>> \o prism_coupler[p]
  ELSE Append(prism_coupler[p], Coupler(p, n, ms))
Added(p, n, ms) ==
  IF ms = <<>> THEN prism_coupler[p] ELSE Append(prism_coupler[p], Coupler(p, n, ms))

-----------------------------------------------------------------------------
Init ==
  /\ namfldsort = SeqSorted(namfldseq)
  /\ todo \in Programs
  /\ pc = [p \in Model |-> "define"]
  /\ prism_var = [p \in Model |-> <<>>]
  /\ nns = [p \in Model |-> 0]
  /\ prism_coupler = [p \in Model |-> <<>>]
  /\ nc = [p \in Model |-> 1]
  /\ router = [p \in Model |-> <<>>]
  /\ net = [p \in Model |-> [q \in Model |-> <<>>]]
  /\ aborted = "no"

At(p, label) == aborted = "no" /\ pc[p] = label

\* oasis_def_var.  A name that no entry lists gets OASIS_Var_Uncpl; one that is
\* there already, and one more than the entries have, is an error.
DefVar(p) ==
  /\ At(p, "define") /\ todo[p] # <<>>
  /\ todo' = [todo EXCEPT ![p] = Tail(@)]
  /\ LET v == Head(todo[p])
         known == \E i \in DOMAIN prism_var[p] : prism_var[p][i].name = v.name
     IN IF v.name \in NamNames /\ (known \/ Len(prism_var[p]) = mvar)
        THEN aborted' = "def_var" /\ UNCHANGED prism_var
        ELSE /\ prism_var' = IF v.name \in NamNames
                             THEN [prism_var EXCEPT ![p] = Append(@, v)] ELSE prism_var
             /\ UNCHANGED aborted
  /\ UNCHANGED <<namfldsort, pc, nns, prism_coupler, nc, router, net>>

\* oasis_enddef
EndDef(p) ==
  /\ At(p, "define") /\ todo[p] = <<>>
  /\ pc' = [pc EXCEPT ![p] = "share"]
  /\ UNCHANGED <<namfldsort, todo, prism_var, nns, prism_coupler, nc, router, net, aborted>>

\* Each root broadcasts its variables in turn: a model goes on when it has those
\* of all, which do not change any more
Share(p) ==
  /\ At(p, "share") /\ \A q \in Model : pc[q] # "define"
  /\ pc' = [pc EXCEPT ![p] = "match"]
  /\ UNCHANGED <<namfldsort, todo, prism_var, nns, prism_coupler, nc, router, net, aborted>>

\* The next entry, for all the variables of the model, behind a barrier
MatchEntry(p) ==
  /\ At(p, "match") /\ nns[p] < Len(NamFile)
  /\ \A q \in Model : pc[q] # "share" /\ nns[q] >= nns[p]
  /\ LET n == namfldsort[nns[p] + 1] IN
     \E ms \in InLoopOrder(Matches(p, n)) :
       IF \E i \in DOMAIN ms : Refused(p, n, ms, i)
       THEN aborted' = "coupler_setup" /\ UNCHANGED <<nns, prism_coupler>>
       ELSE /\ nns' = [nns EXCEPT ![p] = @ + 1]
            /\ prism_coupler' = [prism_coupler EXCEPT ![p] = Added(p, n, ms)]
            /\ UNCHANGED aborted
  /\ UNCHANGED <<namfldsort, todo, pc, prism_var, nc, router, net>>

EndMatch(p) ==
  /\ At(p, "match") /\ nns[p] = Len(NamFile)
  /\ pc' = [pc EXCEPT ![p] = "router"]
  /\ UNCHANGED <<namfldsort, todo, prism_var, nns, prism_coupler, nc, router, net, aborted>>

\* The router loop.  A coupler that only reads or writes a file has no router.
ThisCoupler(p) == prism_coupler[p][nc[p]]
SkipRouterPast(p) ==                \* mutant: no end of the loop
  /\ At(p, "router") /\ (nc[p] > Len(prism_coupler[p]) \/ ~ThisCoupler(p).sndrcv)
  /\ nc' = [nc EXCEPT ![p] = @ + 1]
  /\ UNCHANGED <<namfldsort, todo, pc, prism_var, nns, prism_coupler, router, net, aborted>>
SkipRouter(p) ==
  /\ At(p, "router") /\ nc[p] <= Len(prism_coupler[p]) /\ ~ThisCoupler(p).sndrcv
  /\ nc' = [nc EXCEPT ![p] = @ + 1]
  /\ UNCHANGED <<namfldsort, todo, pc, prism_var, nns, prism_coupler, router, net, aborted>>

SendParsLate(p) ==                  \* mutant: waits for the other's receive
  /\ At(p, "router") /\ nc[p] <= Len(prism_coupler[p]) /\ ThisCoupler(p).sndrcv
  /\ pc[ThisCoupler(p).comp] = "pars"
  /\ net' = [net EXCEPT ![p][ThisCoupler(p).comp] =
                Append(@, <<"pars", ThisCoupler(p).namID>>)]
  /\ pc' = [pc EXCEPT ![p] = "pars"]
  /\ UNCHANGED <<namfldsort, todo, prism_var, nns, prism_coupler, nc, router, aborted>>
\* MapHandshake_: the sizes go out first, with an MPI_SEND: MPI is taken to buffer
\* these few integers
SendPars(p) ==
  /\ At(p, "router") /\ nc[p] <= Len(prism_coupler[p]) /\ ThisCoupler(p).sndrcv
  /\ net' = [net EXCEPT ![p][ThisCoupler(p).comp] =
                Append(@, <<"pars", ThisCoupler(p).namID>>)]
  /\ pc' = [pc EXCEPT ![p] = "pars"]
  /\ UNCHANGED <<namfldsort, todo, prism_var, nns, prism_coupler, nc, router, aborted>>

\* ExGSMapGSMap_: it has the sizes of the other, and posts its segments
RecvPars(p) ==
  LET q == ThisCoupler(p).comp IN
  /\ At(p, "pars") /\ net[q][p] # <<>>
  /\ router' = [router EXCEPT ![p] = Append(@, [pars |-> Head(net[q][p]), segs |-> <<>>])]
  /\ net' = [net EXCEPT ![q][p] = Tail(@),
                        ![p][q] = Append(@, <<"segs", ThisCoupler(p).namID>>)]
  /\ pc' = [pc EXCEPT ![p] = "segs"]
  /\ UNCHANGED <<namfldsort, todo, prism_var, nns, prism_coupler, nc, aborted>>

\* It has the segments of the other, and its router.  The MPI_WAIT for its own is
\* left out: the other posts its receive for them without waiting for anything more.
RecvSegs(p) ==
  LET q == ThisCoupler(p).comp IN
  /\ At(p, "segs") /\ net[q][p] # <<>>
  /\ router' = [router EXCEPT ![p][Len(router[p])].segs = Head(net[q][p])]
  /\ net' = [net EXCEPT ![q][p] = Tail(@)]
  /\ nc' = [nc EXCEPT ![p] = @ + 1]
  /\ pc' = [pc EXCEPT ![p] = "router"]
  /\ UNCHANGED <<namfldsort, todo, prism_var, nns, prism_coupler, aborted>>

Step(p) ==
  \/ DefVar(p) \/ EndDef(p) \/ Share(p) \/ MatchEntry(p) \/ EndMatch(p)
  \/ SkipRouter(p) \/ SendPars(p) \/ RecvPars(p) \/ RecvSegs(p)
Next == \E p \in Model : Step(p)
Spec == Init /\ [][Next]_vars
FairSpec == Spec /\ \A p \in Model : WF_vars(Step(p))

Ready(p) == pc[p] = "router" /\ nc[p] > Len(prism_coupler[p])
SetUp == aborted = "no" /\ \A p \in Model : Ready(p)

-----------------------------------------------------------------------------
(* Properties *)

CouplerType == [namID : Entries, comp : Model, varid : Seq(Nat), fldlist : Seq(STRING),
                sndrcv : BOOLEAN, getput : {"put", "get"}, tag : Nat]
TypeOK ==
  /\ namfldsort \in StableSorts(namfldseq)
  /\ pc \in [Model -> {"define", "share", "match", "router", "pars", "segs"}]
  /\ prism_var \in [Model -> Seq(Definitions)] /\ todo \in [Model -> Seq(Definitions)]
  /\ \A p \in Model : \A i \in DOMAIN prism_var[p] : prism_var[p][i].name \in NamNames
  /\ \A p \in Model : Len(prism_var[p]) <= mvar
  /\ nns \in [Model -> 0..Len(NamFile)]
  /\ prism_coupler \in [Model -> Seq(CouplerType)]
  /\ nc \in [Model -> Nat]
  /\ \A p \in Model : nc[p] \in 1..(Len(prism_coupler[p]) + 1)
  /\ aborted \in {"no", "def_var", "coupler_setup"}

\* The couplers of a model are those of different entries, in the order of the
\* sort: there are never more than the nnamcpl its tables are allocated for, and
\* any two models look at the couplers they share in the same order.
CouplersSorted ==
  \A p \in Model :
    /\ Len(prism_coupler[p]) <= nns[p]
    /\ \A i, j \in DOMAIN prism_coupler[p] : i < j =>
         \E a, b \in 1..nns[p] :
           /\ a < b
           /\ prism_coupler[p][i].namID = namfldsort[a]
           /\ prism_coupler[p][j].namID = namfldsort[b]

\* Two ends have the same tag when they are the ends of one coupler, which each
\* found by itself, and only then.
Exchanging(p) == {i \in DOMAIN prism_coupler[p] : prism_coupler[p][i].sndrcv}
TagsIdentify ==
  \A p, q \in Model : \A i \in Exchanging(p), j \in Exchanging(q) :
    LET a == prism_coupler[p][i]
        b == prism_coupler[q][j]
    IN a.getput = "put" /\ b.getput = "get" =>
         (a.tag = b.tag <=> a.namID = b.namID /\ a.comp = q /\ b.comp = p)

\* What a user has to keep to; no model looks at more than its own couplers. The
\* two lists of an entry go together, and no name is in one of them twice; the
\* sources of an entry are variables of one model, and so are its targets.
Distinct(list) == \A i, j \in DOMAIN list : list[i] = list[j] => i = j
NamesPaired ==
  \A n \in Entries : Communicates(n) =>
    /\ Len(NamFile[n].src) = Len(NamFile[n].dst)
    /\ Distinct(NamFile[n].src) /\ Distinct(NamFile[n].dst)
OneHome(var) ==
  \A n \in Entries : Communicates(n) =>
    \A p, q \in Model : \A i \in DOMAIN var[p], j \in DOMAIN var[q] :
      InEntry(var[p][i], n) /\ InEntry(var[q][j], n) /\ var[p][i].ops = var[q][j].ops => p = q

\* Two models define the fields that they exchange by an entry in the same order.
Position(v, n) == Index(Side(v.ops, n), v.name)
SameOrder(var) ==
  \A n \in Entries : Communicates(n) =>
    \A p, q \in Model : \A i1, i2 \in DOMAIN var[p], j1, j2 \in DOMAIN var[q] :
      /\ \A v \in {var[p][i1], var[p][i2], var[q][j1], var[q][j2]} : InEntry(v, n)
      /\ Position(var[p][i1], n) = Position(var[q][j1], n)
      /\ Position(var[p][i2], n) = Position(var[q][j2], n)
      => (i1 < i2 <=> j1 < j2)

\* What one model takes for an end of a coupler, the model it names takes for
\* the other end, with as many fields, whatever each of them defines, misses, or
\* defines in another order.
Opposite(d) == IF d = "put" THEN "get" ELSE "put"
EndsAgree ==
  SetUp \/ (\A p \in Model : pc[p] \in {"router", "pars", "segs"}) =>
    \A p \in Model : \A i \in Exchanging(p) :
      LET a == prism_coupler[p][i]
      IN \E j \in Exchanging(a.comp) :
           LET b == prism_coupler[a.comp][j]
           IN /\ b.namID = a.namID /\ b.comp = p /\ b.tag = a.tag
              /\ b.getput = Opposite(a.getput)
              /\ Len(b.fldlist) = Len(a.fldlist)

\* The fields of a message are at the same positions of the entry's two lists at
\* both ends: a value goes into the field that the namcouple names.
Positions(c) == [i \in DOMAIN c.fldlist |->
                   Index(Side(IF c.getput = "put" THEN "Out" ELSE "In", c.namID), c.fldlist[i])]
FieldsPaired ==
  \A p \in Model : \A i \in Exchanging(p) :
    \A j \in Exchanging(prism_coupler[p][i].comp) :
      LET a == prism_coupler[p][i]
          b == prism_coupler[a.comp][j]
      IN a.tag = b.tag => Positions(a) = Positions(b)

\* When the setup goes through, no exchange was asked for of a model with itself,
\* or between two variables of one direction: one end or the other noticed.
FaultsCaught ==
  SetUp =>
    \A n \in {e \in Entries : Communicates(e)} : \A k \in DOMAIN NamFile[n].src :
      \A p, q \in Model : \A i \in DOMAIN prism_var[p], j \in DOMAIN prism_var[q] :
        LET v == prism_var[p][i]
            w == prism_var[q][j]
        IN v.name = NamFile[n].src[k] /\ w.name = NamFile[n].dst[k] /\ v.ops = "Out"
             => w.ops = "In" /\ p # q

\* A router is made of the sizes and the segments of the other end of the same
\* coupler.
Routers(p) == Cardinality({j \in Exchanging(p) : j < nc[p]})
RoutersPaired ==
  \A p \in Model :
    /\ Len(router[p]) = IF pc[p] = "segs" THEN Routers(p) + 1 ELSE Routers(p)
    /\ \A i \in Exchanging(p) :
         LET k == Cardinality({j \in Exchanging(p) : j <= i})
             n == prism_coupler[p][i].namID
         IN k <= Len(router[p]) =>
              router[p][k] = [pars |-> <<"pars", n>>,
                              segs |-> IF i < nc[p] THEN <<"segs", n>> ELSE <<>>]

\* Every model gets through its definitions and its setup, or all are stopped.
SetupEnds == <>(SetUp \/ aborted # "no")

=============================================================================
