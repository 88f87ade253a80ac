---------------------------- MODULE OasisAdvance ----------------------------
(***************************************************************************)
(* oasis_advance_init and oasis_advance_run of psmile, under the coupled   *)
(* processes that call oasis_put and oasis_get.                            *)
(*                                                                         *)
(* A coupler is an entry of the namcouple that links a source and a target *)
(* process.  Its source end collects the fields that are put, sends them   *)
(* when the model time plus the lag is a coupling time, and reads and      *)
(* writes the restart file; its target end receives them when the model    *)
(* time is a coupling time.  A process is one component: its ranks take    *)
(* the same decisions at the same calls, so that the decomposition of a    *)
(* field over them is left to the modules about MCT.                       *)
(*                                                                         *)
(* Script[p] is the sequence of visits to one coupler that the process p   *)
(* makes in a run: the loop over the couplers of a variable in             *)
(* oasis_advance_run and the loops of oasis_advance_init, unrolled.  A     *)
(* value is the sequence of the puts it was computed from, and a divisor.  *)
(***************************************************************************)
EXTENDS Integers, Sequences, FiniteSets

CONSTANTS Proc,      \* the coupled components
          Nam,       \* the namcouple: one record per coupler
          RunTime,   \* $RUNTIME, the maxtime of every coupler
          LastRun,   \* how many runs follow each other through restart files
          Script     \* what each process does in a run

Couplers == DOMAIN Nam
Fields(c) == 1..Nam[c].nflds
Exchanged == {c \in Couplers : Nam[c].kind \in {"exported", "expout"}}
WritesOutput(c) == Nam[c].kind \in {"expout", "output"}

\* The ends of the couplers, and those in the prism_coupler array of a process
Ends == {<<"put", c>> : c \in {d \in Couplers : Nam[d].kind # "input"}}
          \cup {<<"get", c>> : c \in {d \in Couplers : Nam[d].kind # "output"}}
Owner(e) == IF e[1] = "put" THEN Nam[e[2]].src ELSE Nam[e[2]].dst
EndsOf(p) == {e \in Ends : Owner(e) = p}

Kinds == {"exported", "expout", "output", "input"}
Transforms == {"instant", "average", "accumul", "max", "min"}

ASSUME NamAssumption ==
  /\ RunTime \in Nat \ {0}
  /\ LastRun \in Nat \ {0}
  /\ \A c \in Couplers :
       /\ Nam[c].src \in Proc /\ Nam[c].dst \in Proc
       /\ Nam[c].nflds \in Nat \ {0}
       /\ Nam[c].dt \in Nat \ {0}
       /\ Nam[c].lag \in Int /\ Nam[c].seq \in Int
       /\ Nam[c].kind \in Kinds /\ Nam[c].trans \in Transforms

\* mod_oasis_data: the special value of a time that is not set
ISPVAL == -999999

Visits == [op : {"put", "get"}, cpl : Couplers, fld : Nat, msec : Int,
           rest : BOOLEAN, first : BOOLEAN, fresh : BOOLEAN, nff : Nat]
Loads == [op : {"load"}, cpl : Couplers]
Checks == [op : {"check"}, cpl : Couplers]

\* The end an exchange step visits
End(s) == <<s.op, s.cpl>>

ASSUME ScriptAssumption ==
  /\ Script \in [Proc -> Seq(Visits \cup Loads \cup Checks)]
  /\ \A p \in Proc : \A i \in DOMAIN Script[p] :
       LET s == Script[p][i] IN
       s.op \in {"put", "get"} => /\ End(s) \in EndsOf(p)
                                  /\ s.fld \in Fields(s.cpl)
                                  /\ s.msec # ISPVAL

VARIABLES pos,       \* the next element of Script[p]
          status,    \* the fields of an end whose status is READY
          ltime,     \* the time of the last communication of an end
          avcnt,     \* source ends: how many values avect holds, per field
          avect,     \* source ends: the collected values, per field
          avrecv,    \* target ends: the message that was received last
          chan,      \* the messages sent and not received, first one first
          pend,      \* the request of the last send is not complete
          lcouplertime, \* per process, the time of the last visit
          array,     \* per process, the array of oasis_advance_init
          kinfo,     \* per process, the info code of the call
          rst,       \* the restart file of a coupler
          run,       \* the number of the run
          aborted    \* why oasis_abort was called

vars == <<pos, status, ltime, avcnt, avect, avrecv, chan, pend, lcouplertime,
          array, kinfo, rst, run, aborted>>

-----------------------------------------------------------------------------
(* Values *)

Value(terms, div) == [terms |-> terms, div |-> div]
Zero == Value(<<>>, 1)
Junk == Value(<<[run |-> -1, at |-> 0]>>, 1)  \* of an array that is not set
User == Value(<<[run |-> 0, at |-> 0]>>, 1)   \* of a file made by the user
PutAt(t) == Value(<<[run |-> run, at |-> t]>>, 1)

Add(v, w) == Value(v.terms \o w.terms, v.div)
Mean(v, n) == IF n > 1 THEN Value(v.terms, n) ELSE v

Zeros(c) == [f \in Fields(c) |-> Zero]
NoCount(c) == [f \in Fields(c) |-> 0]
NoMessage == [time |-> ISPVAL, data |-> <<>>]

-----------------------------------------------------------------------------
(* What oasis_advance_run computes at a visit s of the process p *)

Mseclag(s) == IF s.op = "put" THEN s.msec + Nam[s.cpl].lag ELSE s.msec
TimeNow(s) == Mseclag(s) % Nam[s.cpl].dt = 0
AtEndLate(s) == Mseclag(s) > RunTime            \* mutant: off by one
AtEnd(s) == Mseclag(s) >= RunTime
Instant(s) == s.rest \/ Nam[s.cpl].trans = "instant"

Started(e) == ltime[e] # ISPVAL
Both(s, n) == s.cpl \in Exchanged /\ n[2] \in Exchanged

\* The reasons for which a visit ends in oasis_abort, in the code's order
LagTooLong(s) == Nam[s.cpl].lag > Nam[s.cpl].dt \/ -Nam[s.cpl].lag > Nam[s.cpl].dt
BeyondEndLagged(s) == Mseclag(s) >= RunTime      \* mutant: with the lag
BeyondEnd(s) == s.msec >= RunTime
Backwards(p, s) == /\ lcouplertime[p] # ISPVAL
                   /\ s.msec >= 0
                   /\ s.msec < lcouplertime[p]
SkippedOnGet(p, s) == \E n \in EndsOf(p) :    \* mutant: for a get only
                        /\ Started(n) /\ Both(s, n) /\ s.op = "get"
                        /\ s.msec > ltime[n] + Nam[n[2]].dt
Skipped(p, s) == \E n \in EndsOf(p) :
                   /\ Started(n) /\ Both(s, n)
                   /\ s.msec > ltime[n] + Nam[n[2]].dt
OutOfSequenceLate(p, s) == \E n \in EndsOf(p) :    \* mutant: off by one
                             /\ Started(n) /\ Both(s, n) /\ s.op = "get"
                             /\ Nam[s.cpl].seq > Nam[n[2]].seq
                             /\ s.msec > ltime[n] + Nam[n[2]].dt
OutOfSequence(p, s) == \E n \in EndsOf(p) :
                         /\ Started(n) /\ Both(s, n) /\ s.op = "get"
                         /\ Nam[s.cpl].seq > Nam[n[2]].seq
                         /\ s.msec >= ltime[n] + Nam[n[2]].dt

\* status after the put side marked its field; the get side marks it later
ReadyFields(s) == IF s.op = "put" /\ TimeNow(s) THEN status[End(s)] \cup {s.fld}
                                                ELSE status[End(s)]
CommNow(s) == TimeNow(s) /\ ReadyFields(s) = Fields(s.cpl)
NotAdvanced(s) == CommNow(s) /\ Started(End(s)) /\ s.msec <= ltime[End(s)]

Rejected(p, s) == \/ LagTooLong(s) \/ BeyondEnd(s) \/ Backwards(p, s)
                  \/ Skipped(p, s) \/ OutOfSequence(p, s) \/ NotAdvanced(s)

\* The data of a put: the caller's, or what the lag restart file holds of the
\* field number nff, left in the array for the couplers that do not read it
RestartValue(p, s) ==
  IF Nam[s.cpl].lag > 0
  THEN IF s.nff \in Fields(s.cpl) THEN rst[s.cpl].flds[s.nff] ELSE Junk
  ELSE IF s.fresh THEN Junk ELSE array[p]
ArrayIn(p, s) == IF s.rest THEN RestartValue(p, s) ELSE PutAt(s.msec)

\* The local transformation
Counted(s) ==
  [avcnt[s.cpl] EXCEPT ![s.fld] =
     IF Instant(s) THEN (IF TimeNow(s) THEN 1 ELSE @)
     ELSE IF Nam[s.cpl].trans = "average" THEN @ + 1 ELSE 1]
Collected(p, s) ==
  [avect[s.cpl] EXCEPT ![s.fld] =
     IF Instant(s) THEN (IF TimeNow(s) THEN ArrayIn(p, s) ELSE @)
     ELSE IF Nam[s.cpl].trans \in {"max", "min"} /\ avcnt[s.cpl][s.fld] = 0
          THEN ArrayIn(p, s)
          ELSE Add(@, ArrayIn(p, s))]
AveragedAfterReset(p, s) ==      \* mutant: avcnt is reset first
  [f \in Fields(s.cpl) |-> Value(Collected(p, s)[f].terms, NoCount(s.cpl)[f])]
AveragedOwnField(p, s) ==        \* mutant: one field of the coupler only
  [Collected(p, s) EXCEPT ![s.fld] = Mean(@, Counted(s)[s.fld])]
Averaged(p, s) ==
  [f \in Fields(s.cpl) |-> Mean(Collected(p, s)[f], Counted(s)[f])]

\* The restart file, with the partial results once the end of the run is near
SavePartial(s, file, cnt, av) ==
  IF Mseclag(s) + Nam[s.cpl].dt >= RunTime /\ Nam[s.cpl].trans # "instant"
  THEN [flds |-> file.flds, saved |-> TRUE, cnt |-> cnt, av |-> av]
  ELSE file
WritesLagRestart(s) == Nam[s.cpl].lag > 0 /\ Mseclag(s) = RunTime
SaveLag(p, s, file) ==
  IF WritesLagRestart(s) THEN [file EXCEPT !.flds = Averaged(p, s)] ELSE file

\* The info code
InfoAtCall(p, s) == IF ~s.first THEN kinfo[p]
                    ELSE IF s.rest THEN "FromRest" ELSE "OK"
InfoCollected(p, s) == IF InfoAtCall(p, s) = "OK" /\ ~Instant(s)
                       THEN "LocTrans" ELSE InfoAtCall(p, s)
InfoOutput(c, k) == IF ~WritesOutput(c) THEN k
                    ELSE IF k = "Sent" THEN "SentOut"
                    ELSE IF k = "ToRest" THEN "ToRestOut" ELSE "Output"
InfoUnpacked(c, k) == IF Nam[c].kind = "input" THEN "Input"
                      ELSE IF k = "Output" THEN "RecvOut"
                      ELSE IF k = "FromRest" THEN "FromRestOut" ELSE "Recvd"

-----------------------------------------------------------------------------
(* The actions *)

\* The state before a run, all of it lost between two runs but the files
Fresh ==
  [pos |-> [p \in Proc |-> 1],
   status |-> [e \in Ends |-> IF e[1] = "put" THEN {} ELSE Fields(e[2])],
   ltime |-> [e \in Ends |-> ISPVAL],
   avcnt |-> [c \in Couplers |-> NoCount(c)],
   avect |-> [c \in Couplers |-> Zeros(c)],
   avrecv |-> [c \in Couplers |-> NoMessage],
   chan |-> [c \in Couplers |-> <<>>],
   pend |-> [c \in Couplers |-> FALSE],
   lcouplertime |-> [p \in Proc |-> ISPVAL],
   array |-> [p \in Proc |-> Junk],
   kinfo |-> [p \in Proc |-> "OK"]]

\* The user makes the restart files of the lagged fields before the first run
UserFile(c) == [flds |-> [f \in Fields(c) |-> User],
                saved |-> FALSE, cnt |-> NoCount(c), av |-> Zeros(c)]

Init ==
  /\ pos = Fresh.pos /\ status = Fresh.status /\ ltime = Fresh.ltime
  /\ avcnt = Fresh.avcnt /\ avect = Fresh.avect /\ avrecv = Fresh.avrecv
  /\ chan = Fresh.chan /\ pend = Fresh.pend /\ kinfo = Fresh.kinfo
  /\ lcouplertime = Fresh.lcouplertime /\ array = Fresh.array
  /\ rst = [c \in Couplers |-> UserFile(c)]
  /\ run = 1
  /\ aborted = "no"

Now(p) == Script[p][pos[p]]
Done(p) == pos[p] > Len(Script[p])
Runs(p, ops) == aborted = "no" /\ ~Done(p) /\ Now(p).op \in ops
Advances(p) == pos' = [pos EXCEPT ![p] = @ + 1]
Visited(p) == /\ Advances(p)
              /\ lcouplertime' = [lcouplertime EXCEPT ![p] = Now(p).msec]
              /\ UNCHANGED <<run, aborted>>
KeepsArray(p, s) == array' = IF s.rest THEN [array EXCEPT ![p] = RestartValue(p, s)]
                                       ELSE array

\* A put that collects its data and does not communicate
PutHold(p) ==
  LET s == Now(p) c == s.cpl IN
  /\ Runs(p, {"put"})
  /\ ~Rejected(p, s) /\ ~CommNow(s)
  /\ avcnt' = [avcnt EXCEPT ![c] = Counted(s)]
  /\ avect' = [avect EXCEPT ![c] = Collected(p, s)]
  /\ status' = [status EXCEPT ![End(s)] = ReadyFields(s)]
  /\ kinfo' = [kinfo EXCEPT ![p] = InfoCollected(p, s)]
  /\ rst' = [rst EXCEPT ![c] = SavePartial(s, @, Counted(s), Collected(p, s))]
  /\ KeepsArray(p, s)
  /\ Visited(p)
  /\ UNCHANGED <<ltime, avrecv, chan, pend>>

\* The source end starts a new coupling period
ResetPut(s) ==
  /\ ltime' = [ltime EXCEPT ![End(s)] = s.msec]
  /\ status' = [status EXCEPT ![End(s)] = {}]
  /\ avcnt' = [avcnt EXCEPT ![s.cpl] = NoCount(s.cpl)]
  /\ avect' = [avect EXCEPT ![s.cpl] = Zeros(s.cpl)]

PutSendNoWait(p) ==              \* mutant: the buffer of a pending send is refilled
  LET s == Now(p) c == s.cpl
      message == [time |-> Mseclag(s), data |-> Averaged(p, s)] IN
  /\ Runs(p, {"put"})
  /\ ~Rejected(p, s) /\ CommNow(s)
  /\ c \in Exchanged /\ ~AtEnd(s)
  /\ chan' = [chan EXCEPT ![c] =
       Append([i \in DOMAIN @ |-> IF i = Len(@) /\ pend[c] THEN message ELSE @[i]],
              message)]
  /\ pend' = [pend EXCEPT ![c] = TRUE]
  /\ kinfo' = [kinfo EXCEPT ![p] = InfoOutput(c, "Sent")]
  /\ ResetPut(s)
  /\ rst' = [rst EXCEPT ![c] = SavePartial(s, @, NoCount(c), Zeros(c))]
  /\ KeepsArray(p, s)
  /\ Visited(p)
  /\ UNCHANGED avrecv

\* A put that sends: mct_waitsend, which blocks while the last send of the
\* router is pending, then mct_isend, which copies the data
PutSend(p) ==
  LET s == Now(p) c == s.cpl IN
  /\ Runs(p, {"put"})
  /\ ~Rejected(p, s) /\ CommNow(s)
  /\ c \in Exchanged /\ ~AtEnd(s)
  /\ pend[c] => chan[c] = <<>>
  /\ chan' = [chan EXCEPT ![c] =
                Append(@, [time |-> Mseclag(s), data |-> Averaged(p, s)])]
  /\ pend' = [pend EXCEPT ![c] = TRUE]
  /\ kinfo' = [kinfo EXCEPT ![p] = InfoOutput(c, "Sent")]
  /\ ResetPut(s)
  /\ rst' = [rst EXCEPT ![c] = SavePartial(s, @, NoCount(c), Zeros(c))]
  /\ KeepsArray(p, s)
  /\ Visited(p)
  /\ UNCHANGED avrecv

\* A put that communicates with files only: at the end of the run, where the
\* lag restart is written, and for a coupler that only writes output
PutFile(p) ==
  LET s == Now(p) c == s.cpl IN
  /\ Runs(p, {"put"})
  /\ ~Rejected(p, s) /\ CommNow(s)
  /\ c \notin Exchanged \/ AtEnd(s)
  /\ kinfo' = [kinfo EXCEPT ![p] =
                 InfoOutput(c, IF WritesLagRestart(s) THEN "ToRest"
                                                      ELSE InfoCollected(p, s))]
  /\ ResetPut(s)
  /\ rst' = [rst EXCEPT ![c] =
               SavePartial(s, SaveLag(p, s, @), NoCount(c), Zeros(c))]
  /\ KeepsArray(p, s)
  /\ Visited(p)
  /\ UNCHANGED <<avrecv, chan, pend>>

GetRecvAllWait(p) ==             \* mutant: its field is not marked as unpacked
  LET s == Now(p) c == s.cpl IN
  /\ Runs(p, {"get"})
  /\ ~Rejected(p, s) /\ CommNow(s)
  /\ c \in Exchanged
  /\ chan[c] # <<>>
  /\ avrecv' = [avrecv EXCEPT ![c] = Head(chan[c])]
  /\ chan' = [chan EXCEPT ![c] = Tail(@)]
  /\ ltime' = [ltime EXCEPT ![End(s)] = s.msec]
  /\ status' = [status EXCEPT ![End(s)] = {}]
  /\ kinfo' = [kinfo EXCEPT ![p] =
                 InfoUnpacked(c, InfoOutput(c, InfoAtCall(p, s)))]
  /\ Visited(p)
  /\ UNCHANGED <<avcnt, avect, pend, array, rst>>

\* A get that receives: mct_recv blocks until a message arrives
GetRecv(p) ==
  LET s == Now(p) c == s.cpl IN
  /\ Runs(p, {"get"})
  /\ ~Rejected(p, s) /\ CommNow(s)
  /\ c \in Exchanged
  /\ chan[c] # <<>>
  /\ avrecv' = [avrecv EXCEPT ![c] = Head(chan[c])]
  /\ chan' = [chan EXCEPT ![c] = Tail(@)]
  /\ ltime' = [ltime EXCEPT ![End(s)] = s.msec]
  /\ status' = [status EXCEPT ![End(s)] = {s.fld}]
  /\ kinfo' = [kinfo EXCEPT ![p] =
                 InfoUnpacked(c, InfoOutput(c, InfoAtCall(p, s)))]
  /\ Visited(p)
  /\ UNCHANGED <<avcnt, avect, pend, array, rst>>

\* A get that does not communicate: between two coupling times, at a coupling
\* time whose message another field of the coupler has received, or from a file
GetLocal(p) ==
  LET s == Now(p) c == s.cpl IN
  /\ Runs(p, {"get"})
  /\ ~Rejected(p, s)
  /\ ~CommNow(s) \/ c \notin Exchanged
  /\ ltime' = IF CommNow(s) THEN [ltime EXCEPT ![End(s)] = s.msec] ELSE ltime
  /\ status' = [status EXCEPT ![End(s)] = IF ~TimeNow(s) THEN @
                                          ELSE IF CommNow(s) THEN {s.fld}
                                          ELSE @ \cup {s.fld}]
  /\ kinfo' = [kinfo EXCEPT ![p] = IF TimeNow(s)
                                   THEN InfoUnpacked(c, InfoAtCall(p, s))
                                   ELSE InfoAtCall(p, s)]
  /\ Visited(p)
  /\ UNCHANGED <<avcnt, avect, avrecv, chan, pend, array, rst>>

LoadSumOnly(p) ==                \* mutant: avcnt is not read
  LET c == Now(p).cpl IN
  /\ Runs(p, {"load"})
  /\ IF Nam[c].trans # "instant" /\ rst[c].saved
     THEN avect' = [avect EXCEPT ![c] = rst[c].av] /\ UNCHANGED avcnt
     ELSE UNCHANGED <<avcnt, avect>>
  /\ Advances(p)
  /\ UNCHANGED <<status, ltime, avrecv, chan, pend, lcouplertime, array, kinfo,
                 rst, run, aborted>>

\* oasis_advance_init: a partial result is read back, if the file has one
Load(p) ==
  LET c == Now(p).cpl IN
  /\ Runs(p, {"load"})
  /\ IF Nam[c].trans # "instant" /\ rst[c].saved
     THEN /\ avcnt' = [avcnt EXCEPT ![c] = rst[c].cnt]
          /\ avect' = [avect EXCEPT ![c] = rst[c].av]
     ELSE UNCHANGED <<avcnt, avect>>
  /\ Advances(p)
  /\ UNCHANGED <<status, ltime, avrecv, chan, pend, lcouplertime, array, kinfo,
                 rst, run, aborted>>

\* oasis_advance_init: the lag of a coupler
LagInRange(c) == Nam[c].lag <= Nam[c].dt /\ Nam[c].lag > -Nam[c].dt
Check(p) ==
  /\ Runs(p, {"check"})
  /\ LagInRange(Now(p).cpl)
  /\ Advances(p)
  /\ UNCHANGED <<status, ltime, avcnt, avect, avrecv, chan, pend, lcouplertime,
                 array, kinfo, rst, run, aborted>>

\* oasis_abort ends all the processes
Reason(p, s) ==
  CASE s.op = "check" -> "lag out of range"
    [] LagTooLong(s) -> "lag too long"
    [] BeyondEnd(s) -> "beyond maxtime"
    [] Backwards(p, s) -> "running backwards"
    [] Skipped(p, s) -> "coupling skipped"
    [] OutOfSequence(p, s) -> "out of sequence"
    [] OTHER -> "did not advance"
Abort(p) ==
  LET s == Now(p) IN
  /\ \/ Runs(p, {"put", "get"}) /\ Rejected(p, s)
     \/ Runs(p, {"check"}) /\ ~LagInRange(s.cpl)
  /\ aborted' = Reason(p, s)
  /\ UNCHANGED <<pos, status, ltime, avcnt, avect, avrecv, chan, pend,
                 lcouplertime, array, kinfo, rst, run>>

\* MPI completes a send whose message is not received: it has buffered it.
\* (It may, it need not: nothing of the library relies on it.)
SendDone(c) ==
  /\ aborted = "no"
  /\ pend[c]
  /\ pend' = [pend EXCEPT ![c] = FALSE]
  /\ UNCHANGED <<pos, status, ltime, avcnt, avect, avrecv, chan, lcouplertime,
                 array, kinfo, rst, run, aborted>>

\* Every process has called oasis_terminate; the next run starts from the files
NextRun ==
  /\ aborted = "no"
  /\ \A p \in Proc : Done(p)
  /\ run < LastRun
  /\ run' = run + 1
  /\ pos' = Fresh.pos /\ status' = Fresh.status /\ ltime' = Fresh.ltime
  /\ avcnt' = Fresh.avcnt /\ avect' = Fresh.avect /\ avrecv' = Fresh.avrecv
  /\ chan' = Fresh.chan /\ pend' = Fresh.pend /\ kinfo' = Fresh.kinfo
  /\ lcouplertime' = Fresh.lcouplertime /\ array' = Fresh.array
  /\ UNCHANGED <<rst, aborted>>

\* The program has stopped: without this a hang and an end look the same
Finished == run = LastRun /\ \A p \in Proc : Done(p)
Stop == (Finished \/ aborted # "no") /\ UNCHANGED vars

Exchange(p) == PutSend(p) \/ PutFile(p) \/ GetRecv(p)
Local(p) == PutHold(p) \/ GetLocal(p) \/ Load(p) \/ Check(p) \/ Abort(p)

Next == \/ \E p \in Proc : Exchange(p) \/ Local(p)
        \/ \E c \in Couplers : SendDone(c)
        \/ NextRun
        \/ Stop

\* A process that can go on does; whether MPI buffers is left open
Fairness == /\ \A p \in Proc : WF_vars(Exchange(p) \/ Local(p))
            /\ WF_vars(NextRun)

Spec == Init /\ [][Next]_vars
FairSpec == Spec /\ Fairness

-----------------------------------------------------------------------------
(* Properties *)

Values == [terms : Seq([run : Int, at : Int]), div : Nat \ {0}]
Tables(c) == [Fields(c) -> Values]
Counts(c) == [Fields(c) -> Nat]
Files(c) == [flds : Tables(c), saved : BOOLEAN, cnt : Counts(c), av : Tables(c)]
Messages(c) == [time : Int, data : Tables(c)]
PerCoupler(f) == f = [c \in Couplers |-> f[c]]
Infos == {"OK", "FromRest", "LocTrans", "Sent", "SentOut", "ToRest", "ToRestOut",
          "Output", "Input", "Recvd", "RecvOut", "FromRestOut"}
Reasons == {"no", "lag out of range", "lag too long", "beyond maxtime",
            "running backwards", "coupling skipped", "out of sequence",
            "did not advance"}

\* Every variable has its type: each table is one of the fields of its coupler.
TypeOK ==
  /\ pos \in [Proc -> Nat \ {0}]
  /\ status \in [Ends -> SUBSET Nat] /\ ltime \in [Ends -> Int]
  /\ \A e \in Ends : status[e] \subseteq Fields(e[2])
  /\ PerCoupler(avcnt) /\ PerCoupler(avect) /\ PerCoupler(avrecv)
  /\ PerCoupler(chan) /\ PerCoupler(rst)
  /\ \A c \in Couplers :
       /\ avcnt[c] \in Counts(c) /\ avect[c] \in Tables(c)
       /\ avrecv[c] \in Messages(c) \cup {NoMessage}
       /\ chan[c] \in Seq(Messages(c)) /\ rst[c] \in Files(c)
  /\ pend \in [Couplers -> BOOLEAN]
  /\ lcouplertime \in [Proc -> Int] /\ array \in [Proc -> Values]
  /\ kinfo \in [Proc -> Infos]
  /\ run \in 1..LastRun /\ aborted \in Reasons

\* A get at a coupling time gets what the put of that time sent: however the
\* processes interleave, the n-th receive of a coupler meets the n-th send.
TimesMatch ==
  \A c \in Exchanged :
    Started(<<"get", c>>) => avrecv[c].time = ltime[<<"get", c>>]

\* No end of a process exchanges when another one has missed a coupling period:
\* they stay within one period of each other.
ExchangedEnds(p) == {e \in EndsOf(p) : e[2] \in Exchanged /\ Started(e)}
NoPeriodMissed ==
  \A p \in Proc : \A e, n \in ExchangedEnds(p) :
    ltime[e] <= ltime[n] + Nam[n[2]].dt

\* A process receives in the order of SEQ: when a get of a period is done, the
\* ends with a smaller number have exchanged for that period.
SequenceKept ==
  \A p \in Proc : \A e, n \in ExchangedEnds(p) :
    e[1] = "get" /\ Nam[e[2]].seq > Nam[n[2]].seq
      => ltime[e] < ltime[n] + Nam[n[2]].dt

\* The couplers implement the abstract clock of the couplings.
Got == [c \in Exchanged |-> IF Started(<<"get", c>>) THEN ltime[<<"get", c>>]
                                                     ELSE -Nam[c].dt]
LastSent == [c \in Exchanged |-> Got[c] + Nam[c].dt * Len(chan[c])]
Clock == INSTANCE CouplingClock
  WITH Couplings <- Exchanged,
       Period <- [c \in Exchanged |-> Nam[c].dt],
       EndTime <- RunTime,
       got <- Got,
       sent <- LastSent
ClockSpec == Clock!Spec

=============================================================================
