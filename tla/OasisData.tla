----------------------------- MODULE OasisData ------------------------------
(***************************************************************************)
(* What the messages of OasisAdvance are made of: the programs that put    *)
(* and get each field at every coupling date, what their messages should   *)
(* hold, and the invariant that follows a put through the sums of a        *)
(* coupler and its restart file.                                           *)
(***************************************************************************)
EXTENDS OasisTimes, Functions

-----------------------------------------------------------------------------
(* The programs *)

\* The visits that count for the couplings of an end: all but the restart
\* visits of a field that is at no coupling time
VisitOf(e, f, s) == IsVisit(s) /\ End(s) = e /\ s.fld = f /\ (s.rest => TimeNow(s))

\* A coupling date of an end: a date at which it should exchange
CouplingDate(e, t) == t >= -LagOf(e) /\ (t + LagOf(e)) % Nam[e[2]].dt = 0

\* A field is visited at each coupling date of the run, at most once at a date,
\* in the order of the dates
Covered(e) ==
  LET script == Script[Owner(e)] IN
  \A f \in Fields(e[2]) : \A t \in (-LagOf(e))..(RunTime - 1) :
    CouplingDate(e, t) =>
      \E j \in DOMAIN script : VisitOf(e, f, script[j]) /\ script[j].msec = t
Forwards(e) ==
  LET script == Script[Owner(e)] IN
  \A f, g \in Fields(e[2]) : \A j \in DOMAIN script : \A i \in 1..(j - 1) :
    VisitOf(e, f, script[i]) /\ VisitOf(e, g, script[j]) =>
      /\ script[i].msec <= script[j].msec
      /\ f = g => script[i].msec < script[j].msec

\* oasis_advance_init before the run proper: the restart visits read their own
\* field and come too early to write partial results
Restarts(c) ==
  LET script == Script[Nam[c].src] IN
  \A j \in DOMAIN script : LET s == script[j] IN
    s.op = "put" /\ s.cpl = c =>
      IF s.rest
      THEN /\ TimeNow(s) => Nam[c].lag > 0 /\ s.msec = -Nam[c].lag /\ s.nff = s.fld
           /\ Nam[c].trans # "instant" => Mseclag(s) + Nam[c].dt < RunTime
      ELSE s.msec \in 0..(RunTime - 1)

\* The partial results are read once, between the restart visits and the others, by
\* the source
LoadOf(c, s) == s.op = "load" /\ s.cpl = c
LoadedOnce(c) ==
  /\ LET script == Script[Nam[c].src] IN
     \E l \in DOMAIN script : \A j \in DOMAIN script : LET s == script[j] IN
       /\ LoadOf(c, s) <=> j = l
       /\ s.op = "put" /\ s.cpl = c => (s.rest <=> j < l)
  /\ \A p \in Proc \ {Nam[c].src} :
       LET script == Script[p] IN \A j \in DOMAIN script : ~LoadOf(c, script[j])

\* Programs that do at each coupling date what the namcouple says
GetsRegular(c) ==
  /\ Covered(<<"get", c>>) /\ Forwards(<<"get", c>>)
  /\ LET script == Script[Nam[c].dst] IN
     \A j \in DOMAIN script : End(script[j]) = <<"get", c>> => script[j].msec >= 0
PutsRegular(c) == /\ LagInRange(c) /\ RunTime % Nam[c].dt = 0
                  /\ Covered(<<"put", c>>) /\ Forwards(<<"put", c>>)
                  /\ Restarts(c) /\ LoadedOnce(c)
Regular == \A c \in Exchanged : PutsRegular(c) /\ GetsRegular(c)

-----------------------------------------------------------------------------
(* Properties *)

\* The dates at which a field is put in a run
PutDates(c, f) ==
  LET script == Script[Nam[c].src]
      PutOf(s) == s.op = "put" /\ s.cpl = c /\ s.fld = f /\ ~s.rest
  IN {script[j].msec : j \in {i \in DOMAIN script : PutOf(script[i])}}
Puts(c, f) == [run : 1..run, at : PutDates(c, f)]

\* A date of any run, counted from the start of the first and of this run
Date(x) == x.run * RunTime + x.at
Since(x) == Date(x) - run * RunTime

\* What the message for the coupling time t should be made of: the put at
\* t - lag, or all the puts of the period that ends there
Window(c, f, t) ==
  LET end == t - Nam[c].lag
      start == IF Nam[c].trans = "instant" THEN end - 1 ELSE end - Nam[c].dt
  IN {x \in Puts(c, f) : Since(x) > start /\ Since(x) <= end}

\* A sequence that has each element of S once, in the order of the dates
Lists(terms, S) ==
  /\ Range(terms) = S
  /\ \A i, j \in DOMAIN terms : i < j => Date(terms[i]) < Date(terms[j])
MadeOf(v, c, S) ==
  /\ Lists(v.terms, S)
  /\ v.div = IF Nam[c].trans = "average" /\ Len(v.terms) > 1 THEN Len(v.terms) ELSE 1
Expected(v, c, f, t) == IF run = 1 /\ t = 0 /\ Nam[c].lag > 0
                        THEN v = User ELSE MadeOf(v, c, Window(c, f, t))

\* A message holds each put of its coupling period once, and no other: none is
\* lost, repeated or put in the period of a neighbour, also when the period
\* spans two runs and half of it went through the restart file.
WindowExact ==
  \A c \in Exchanged : \A i \in DOMAIN chan[c] : \A f \in Fields(c) :
    Expected(chan[c][i].data[f], c, f, chan[c][i].time)

\* All that was sent in a run was received when it ends.
AllConsumed == (\A p \in Proc : Done(p)) => \A c \in Couplers : chan[c] = <<>>

-----------------------------------------------------------------------------
(* The inductive invariant *)

\* A process stays in its script
InScript == \A p \in Proc : pos[p] <= Len(Script[p]) + 1

\* A field was visited at a date of the run
Past(e, f, t) ==
  \E j \in 1..(pos[Owner(e)] - 1) :
    LET s == Script[Owner(e)][j] IN VisitOf(e, f, s) /\ s.msec = t

\* A visit of the end is at a coupling date
Coupled(e, s) == VisitOf(e, s.fld, s) /\ CouplingDate(e, s.msec)

\* A source end has marked the fields that were put at the next coupling date,
\* a target end those that were got at the last one
NextDate(e) == IF Started(e) THEN ltime[e] + Nam[e[2]].dt ELSE -LagOf(e)
PutProgress(e) ==
  /\ Started(e) => /\ CouplingDate(e, ltime[e])
                   /\ \A f \in Fields(e[2]) : Past(e, f, ltime[e])
  /\ \A j \in 1..(pos[Owner(e)] - 1) :
       LET s == Script[Owner(e)][j] IN Coupled(e, s) => s.msec <= NextDate(e)
  /\ \A f \in Fields(e[2]) : f \in status[e] <=> Past(e, f, NextDate(e))
  /\ status[e] # Fields(e[2])
GetProgress(e) ==
  /\ Started(e) => /\ CouplingDate(e, ltime[e])
                   /\ \E f \in Fields(e[2]) : Past(e, f, ltime[e])
                   /\ \A f \in Fields(e[2]) : f \in status[e] <=> Past(e, f, ltime[e])
  /\ ~Started(e) => status[e] = Fields(e[2])
  /\ \A j \in 1..(pos[Owner(e)] - 1) :
       LET s == Script[Owner(e)][j] IN
       Coupled(e, s) => Started(e) /\ s.msec <= ltime[e]

MessagesInTime ==
  \A c \in Couplers : \A i \in DOMAIN chan[c] :
    c \in Exchanged /\ chan[c][i].time < RunTime

\* What is collected for the next message, and what of it came in earlier runs
Collecting(c, f) ==
  {x \in Puts(c, f) : /\ Since(x) > NextDate(<<"put", c>>) - Nam[c].dt
                      /\ x.run < run \/ Past(<<"put", c>>, f, x.at)}
Carried(c, f) ==
  {x \in Puts(c, f) : /\ x.run < run
                      /\ Since(x) > IF Nam[c].lag > 0 THEN -Nam[c].lag
                                                      ELSE -Nam[c].lag - Nam[c].dt}
Sums(v, n, c, S) ==
  /\ Lists(v.terms, S) /\ v.div = 1
  /\ n = IF Nam[c].trans = "average" THEN Len(v.terms)
         ELSE IF v.terms = <<>> THEN 0 ELSE 1

Restoring(c) == Nam[c].lag > 0 /\ ~Started(<<"put", c>>)
Loaded(c) == \E j \in 1..(pos[Nam[c].src] - 1) : LoadOf(c, Script[Nam[c].src][j])
Saving(c) == \E f \in Fields(c), t \in 0..(RunTime - 1) :
               Past(<<"put", c>>, f, t) /\ t + Nam[c].lag + Nam[c].dt >= RunTime

Collects(c, f) ==
  IF Restoring(c)
  THEN f \in status[<<"put", c>>] =>
         avcnt[c][f] = 1 /\ avect[c][f] = rst[c].flds[f]
  ELSE IF Nam[c].trans = "instant"
  THEN f \in status[<<"put", c>>] =>
         avcnt[c][f] = 1 /\ avect[c][f] = PutAt(NextDate(<<"put", c>>))
  ELSE IF Loaded(c) THEN Sums(avect[c][f], avcnt[c][f], c, Collecting(c, f))
                    ELSE avcnt[c][f] = 0 /\ avect[c][f] = Zero

LagFile(c, f) ==
  Nam[c].lag > 0 =>
    IF Started(<<"put", c>>) /\ ltime[<<"put", c>>] + Nam[c].lag = RunTime
    THEN MadeOf(rst[c].flds[f], c, Window(c, f, RunTime))
    ELSE Expected(rst[c].flds[f], c, f, 0)
SumFile(c) ==
  Nam[c].trans # "instant" =>
    IF Saving(c) THEN rst[c].saved /\ rst[c].cnt = avcnt[c] /\ rst[c].av = avect[c]
    ELSE IF run = 1 THEN ~rst[c].saved
    ELSE /\ rst[c].saved
         /\ \A f \in Fields(c) : Sums(rst[c].av[f], rst[c].cnt[f], c, Carried(c, f))

PutProgresses == \A c \in Exchanged : PutProgress(<<"put", c>>)
GetProgresses == \A c \in Exchanged : GetProgress(<<"get", c>>)
Datas == \A c \in Exchanged : /\ SumFile(c)
                              /\ \A f \in Fields(c) : Collects(c, f) /\ LagFile(c, f)

=============================================================================
