----------------------------- MODULE OasisTimes -----------------------------
(***************************************************************************)
(* When the couplings of OasisAdvance meet: the conditions on a program,   *)
(* and the invariant that relates the two ends of a coupler.               *)
(***************************************************************************)
EXTENDS OasisAdvance

IsVisit(s) == s.op \in {"put", "get"}
SameField(r, s) == r.op = s.op /\ r.cpl = s.cpl /\ r.fld = s.fld

\* "The first coupling of a run should occur at time=0" (UG2, oasis_put): the
\* first visit of each field at a coupling time is for the coupling time 0.
AlignedStart ==
  \A p \in Proc : LET script == Script[p] IN
    \A i \in DOMAIN script :
      LET s == script[i] IN
      /\ IsVisit(s) /\ s.cpl \in Exchanged /\ TimeNow(s)
      /\ ~\E j \in 1..(i - 1) : SameField(script[j], s) /\ TimeNow(script[j])
      => Mseclag(s) = 0

InitFirst ==
  \A p \in Proc : LET script == Script[p] IN
    \A i \in DOMAIN script : \A j \in 1..(i - 1) :
      /\ IsVisit(script[i]) /\ IsVisit(script[j])
      /\ script[j].msec >= 0
      => script[i].msec >= 0

-----------------------------------------------------------------------------
(* The inductive invariant *)

LagOf(e) == IF e[1] = "put" THEN Nam[e[2]].lag ELSE 0

\* A field was visited at a coupling time since the start of the run
Seen(p, e, f) ==
  \E j \in 1..(pos[p] - 1) :
    LET s == Script[p][j] IN
    IsVisit(s) /\ End(s) = e /\ s.fld = f /\ TimeNow(s)

\* The process has made a visit of the run proper
Running(p) == \E j \in 1..(pos[p] - 1) :
                IsVisit(Script[p][j]) /\ Script[p][j].msec >= 0

\* Before its first exchange, an end waits for exactly the fields that were not
\* visited at a coupling time
Waiting(p, e) ==
  /\ IF e[1] = "put" THEN status[e] # Fields(e[2]) ELSE status[e] = Fields(e[2])
  /\ \A f \in Fields(e[2]) :
       e[1] = "get" \/ f \notin status[e] => ~Seen(p, e, f)

\* Later, its last exchange was for a coupling time, and in the past
InThePast(p, e) ==
  /\ (ltime[e] + LagOf(e)) % Nam[e[2]].dt = 0
  /\ \/ ltime[e] < 0
     \/ /\ lcouplertime[p] # ISPVAL /\ ltime[e] <= lcouplertime[p]
        /\ Running(p)

Timing ==
  \A p \in Proc : \A e \in EndsOf(p) :
    e[2] \in Exchanged => IF Started(e) THEN InThePast(p, e) ELSE Waiting(p, e)

\* The messages under way are those of the coupling times between the last one
\* received and the last one sent
Consecutive(c) ==
  \A i \in 1..Len(chan[c]) : chan[c][i].time = Got[c] + Nam[c].dt * i
SourceAhead(c) ==
  IF Started(<<"put", c>>)
  THEN LET t == ltime[<<"put", c>>] + Nam[c].lag IN t < RunTime => t = LastSent[c]
  ELSE LastSent[c] = -Nam[c].dt
Stream == \A c \in Exchanged : Consecutive(c) /\ SourceAhead(c)

TimesInv == /\ TypeOK /\ Timing /\ Stream
            /\ TimesMatch /\ NoPeriodMissed /\ SequenceKept

=============================================================================
