------------------------ MODULE OasisAdvance_proofs -------------------------
(***************************************************************************)
(* The couplings of OasisAdvance meet at the right times, for every        *)
(* namcouple and all the programs that start their couplings at time 0,    *)
(* and their messages hold the right puts, for the regular programs.       *)
(*                                                                         *)
(* The two checks of oasis_advance_run that a process makes on its own     *)
(* couplers, "coupling skipped" and "did not advance in time", leave only  *)
(* one time for the next exchange of an end: a period after the last one.  *)
(* Both ends count from the coupling time 0, so the messages in a channel  *)
(* are those of consecutive coupling times, and the first one is the one   *)
(* the target waits for.                                                   *)
(*                                                                         *)
(* A regular program visits each field once at every coupling date, in the *)
(* order of the dates.  So the marks of an end tell which fields of the    *)
(* period have been put, the sums of a coupler are those of the puts since *)
(* the last message, and the files of a run that ends hold what the next   *)
(* one needs to go on.                                                     *)
(***************************************************************************)
EXTENDS OasisData, SequenceTheorems, TLAPS

-----------------------------------------------------------------------------
(* Types *)

\* What a put or a get of a script is
LEMMA VisitFacts ==
  ASSUME pos \in [Proc -> Nat \ {0}], NEW p \in Proc,
         Runs(p, {"put"}) \/ Runs(p, {"get"}) \/ Runs(p, {"put", "get"})
  PROVE  /\ Now(p) \in Visits
         /\ Now(p).op \in {"put", "get"} /\ Now(p).cpl \in Couplers
         /\ Now(p).fld \in Fields(Now(p).cpl)
         /\ Now(p).msec \in Int /\ Now(p).msec # ISPVAL
         /\ Now(p).rest \in BOOLEAN /\ Now(p).nff \in Nat
         /\ End(Now(p)) \in Ends /\ End(Now(p)) \in EndsOf(p)
<1>1. /\ Script[p] \in Seq(Visits \cup Loads \cup Checks)
      /\ pos[p] \in DOMAIN Script[p]
  BY ScriptAssumption DEF Runs, Done
<1>2. Now(p) \in Visits \cup Loads \cup Checks /\ Now(p).op \in {"put", "get"}
  BY <1>1 DEF Runs, Now
<1>3. Now(p) \in Visits
  BY <1>2 DEF Visits, Loads, Checks
<1>4. /\ End(Now(p)) \in EndsOf(p) /\ Now(p).fld \in Fields(Now(p).cpl)
      /\ Now(p).msec # ISPVAL
  BY <1>1, <1>2, ScriptAssumption DEF Now
<1> QED
  BY <1>2, <1>3, <1>4 DEF Visits, EndsOf

\* What an element of the other kinds is
LEMMA LoadFacts ==
  ASSUME pos \in [Proc -> Nat \ {0}], NEW p \in Proc,
         Runs(p, {"load"}) \/ Runs(p, {"check"})
  PROVE  Now(p).cpl \in Couplers
<1>1. /\ Script[p] \in Seq(Visits \cup Loads \cup Checks)
      /\ pos[p] \in DOMAIN Script[p]
  BY ScriptAssumption DEF Runs, Done
<1> QED
  BY <1>1 DEF Runs, Now, Visits, Loads, Checks

LEMMA ValueFacts ==
  /\ Zero \in Values /\ Junk \in Values /\ User \in Values
  /\ \A v \in Values, n \in Nat : Mean(v, n) \in Values
  /\ \A v, w \in Values : Add(v, w) \in Values
  /\ run \in Int => \A t \in Int : PutAt(t) \in Values
<1> DEFINE T == [run : Int, at : Int]
<1>1. <<>> \in Seq(T) /\ \A t \in T : <<t>> \in Seq(T)
  OBVIOUS
<1>2. /\ Zero \in Values /\ Junk \in Values /\ User \in Values
      /\ run \in Int => \A t \in Int : PutAt(t) \in Values
  BY <1>1 DEF Zero, Junk, User, PutAt, Values, Value
<1>3. \A v \in Values, n \in Nat : Mean(v, n) \in Values
  BY DEF Mean, Values, Value
<1>4. \A v, w \in Values : Add(v, w) \in Values
  <2> TAKE v, w \in Values
  <2>1. v.terms \o w.terms \in Seq(T)
    BY ConcatProperties DEF Values
  <2> QED
    BY <2>1 DEF Add, Values, Value
<1> QED
  BY <1>2, <1>3, <1>4

LEMMA IspvalIsTime == ISPVAL \in Int
BY SMT DEF ISPVAL

\* The namcouple
LEMMA NamFacts ==
  ASSUME NEW c \in Couplers
  PROVE  /\ Nam[c].dt \in Nat \ {0} /\ Nam[c].lag \in Int /\ Nam[c].seq \in Int
         /\ Nam[c].nflds \in Nat \ {0} /\ Fields(c) \subseteq Nat
         /\ Fields(c) # {}
BY NamAssumption DEF Fields

LEMMA EmptyTables ==
  ASSUME NEW c \in Couplers
  PROVE  Zeros(c) \in Tables(c) /\ NoCount(c) \in Counts(c)
BY ValueFacts DEF Zeros, NoCount, Tables, Counts

\* What a put computes
LEMMA PutTypes ==
  ASSUME TypeOK, NEW p \in Proc, Runs(p, {"put"})
  PROVE  LET s == Now(p) c == Now(p).cpl IN
         /\ RestartValue(p, s) \in Values
         /\ Counted(s) \in Counts(c)
         /\ Collected(p, s) \in Tables(c)
         /\ Averaged(p, s) \in Tables(c)
         /\ Mseclag(s) \in Int
         /\ ReadyFields(s) \subseteq Fields(c)
<1> DEFINE s == Now(p)
           c == Now(p).cpl
<1>1. /\ s.op = "put" /\ c \in Couplers /\ s.fld \in Fields(c) /\ s.msec \in Int
      /\ s.rest \in BOOLEAN /\ End(s) \in Ends /\ End(s)[2] = c
  BY VisitFacts DEF TypeOK, Runs, End
<1>2. /\ avcnt[c] \in Counts(c) /\ avect[c] \in Tables(c) /\ rst[c] \in Files(c)
      /\ array[p] \in Values /\ run \in Int /\ status[End(s)] \subseteq Fields(c)
  BY <1>1, NamAssumption DEF TypeOK
<1> HIDE DEF s, c
<1>3. rst[c].flds \in Tables(c)
  BY <1>2 DEF Files
<1>4. RestartValue(p, Now(p)) \in Values
  <2>1. \A f \in Fields(c) : rst[c].flds[f] \in Values
    BY <1>3 DEF Tables
  <2> QED
    BY <2>1, <1>2, ValueFacts DEF RestartValue, s, c
<1>5. ArrayIn(p, s) \in Values
  BY <1>1, <1>2, <1>4, ValueFacts DEF ArrayIn, s
<1>6. \A n : avcnt[c][s.fld] + 1 \in Nat /\ avcnt[c][s.fld] \in Nat
  BY <1>1, <1>2 DEF Counts
<1>7. Counted(s) \in Counts(c)
  BY <1>2, <1>6 DEF Counted, Counts, c, s
<1>8. avect[c][s.fld] \in Values
  BY <1>1, <1>2 DEF Tables
<1>9. Collected(p, s) \in Tables(c)
  BY <1>2, <1>5, <1>8, ValueFacts DEF Collected, Tables, c, s
<1>10. Averaged(p, s) \in Tables(c)
  BY <1>7, <1>9, ValueFacts DEF Averaged, Tables, Counts, c, s
<1>11. Mseclag(s) \in Int
  BY <1>1, NamFacts DEF Mseclag, c, s
<1>12. ReadyFields(s) \subseteq Fields(c)
  BY <1>1, <1>2 DEF ReadyFields
<1> QED
  BY <1>4, <1>7, <1>9, <1>10, <1>11, <1>12 DEF s, c

LEMMA FileTypes ==
  ASSUME NEW s, NEW c \in Couplers, NEW file \in Files(c),
         NEW cnt \in Counts(c), NEW av \in Tables(c)
  PROVE  SavePartial(s, file, cnt, av) \in Files(c)
BY DEF SavePartial, Files

LEMMA InfoTypes ==
  /\ \A c, k : k \in Infos =>
       InfoOutput(c, k) \in Infos /\ InfoUnpacked(c, k) \in Infos
  /\ \A p \in Proc : \A s : kinfo \in [Proc -> Infos] =>
       InfoAtCall(p, s) \in Infos /\ InfoCollected(p, s) \in Infos
<1>1. \A c, k : k \in Infos => InfoOutput(c, k) \in Infos
  BY DEF InfoOutput, Infos
<1>2. \A c, k : k \in Infos => InfoUnpacked(c, k) \in Infos
  BY DEF InfoUnpacked, Infos
<1>3. \A p \in Proc : \A s : kinfo \in [Proc -> Infos] => InfoAtCall(p, s) \in Infos
  BY DEF InfoAtCall, Infos
<1>4. \A p \in Proc : \A s : kinfo \in [Proc -> Infos] => InfoCollected(p, s) \in Infos
  BY <1>3 DEF InfoCollected, Infos
<1> QED
  BY <1>1, <1>2, <1>3, <1>4

LEMMA InitTypes == Init => TypeOK
<1> SUFFICES ASSUME Init PROVE TypeOK
  OBVIOUS
<1>1. /\ pos \in [Proc -> Nat \ {0}] /\ ltime \in [Ends -> Int]
      /\ pend \in [Couplers -> BOOLEAN] /\ lcouplertime \in [Proc -> Int]
      /\ array \in [Proc -> Values] /\ kinfo \in [Proc -> Infos]
      /\ run \in 1..LastRun /\ aborted \in Reasons
  BY ValueFacts, NamAssumption, IspvalIsTime DEF Init, Fresh, Infos, Reasons
<1>2. status \in [Ends -> SUBSET Nat]
      /\ \A e \in Ends : status[e] \subseteq Fields(e[2])
  <2>1. \A e \in Ends : e[2] \in Couplers
    BY DEF Ends
  <2> QED
    BY <2>1, NamFacts DEF Init, Fresh
<1>3. /\ PerCoupler(avcnt) /\ PerCoupler(avect) /\ PerCoupler(avrecv)
      /\ PerCoupler(chan) /\ PerCoupler(rst)
  BY DEF Init, Fresh, PerCoupler
<1>4. ASSUME NEW c \in Couplers
      PROVE  /\ avcnt[c] \in Counts(c) /\ avect[c] \in Tables(c)
             /\ avrecv[c] \in Messages(c) \cup {NoMessage}
             /\ chan[c] \in Seq(Messages(c)) /\ rst[c] \in Files(c)
  <2>1. UserFile(c) \in Files(c)
    BY EmptyTables, ValueFacts DEF UserFile, Files, Tables
  <2> QED
    BY <2>1, EmptyTables DEF Init, Fresh
<1> QED
  BY <1>1, <1>2, <1>3, <1>4 DEF TypeOK

\* A step of a process, and a visit
LEMMA AdvancesTypes ==
  ASSUME TypeOK, NEW p \in Proc, Advances(p)
  PROVE  pos' \in [Proc -> Nat \ {0}]
<1>1. \A q \in Proc : pos[q] \in Nat \ {0} /\ pos[q] + 1 \in Nat \ {0}
  BY DEF TypeOK
<1> QED
  BY <1>1 DEF Advances, TypeOK

LEMMA VisitedTypes ==
  ASSUME TypeOK, NEW p \in Proc, Runs(p, {"put"}) \/ Runs(p, {"get"}), Visited(p)
  PROVE  /\ pos' \in [Proc -> Nat \ {0}] /\ lcouplertime' \in [Proc -> Int]
         /\ run' \in 1..LastRun /\ aborted' \in Reasons
<1>1. Now(p).msec \in Int
  BY VisitFacts DEF TypeOK
<1> QED
  BY <1>1, AdvancesTypes DEF Visited, TypeOK

LEMMA KeepsArrayTypes ==
  ASSUME TypeOK, NEW p \in Proc, Runs(p, {"put"}), KeepsArray(p, Now(p))
  PROVE  array' \in [Proc -> Values]
BY PutTypes DEF KeepsArray, TypeOK

LEMMA PutHoldTypes ==
  ASSUME TypeOK, NEW p \in Proc, PutHold(p)
  PROVE  TypeOK'
<1> DEFINE s == Now(p)
           c == Now(p).cpl
<1>1. /\ Runs(p, {"put"}) /\ c \in Couplers /\ End(s) \in Ends /\ End(s)[2] = c
      /\ s.msec \in Int /\ s.fld \in Fields(c)
  BY VisitFacts DEF TypeOK, PutHold, End
<1>2. /\ RestartValue(p, s) \in Values /\ Counted(s) \in Counts(c)
      /\ Collected(p, s) \in Tables(c) /\ ReadyFields(s) \subseteq Fields(c)
      /\ SavePartial(s, rst[c], Counted(s), Collected(p, s)) \in Files(c)
  BY <1>1, PutTypes, FileTypes DEF TypeOK
<1>3. InfoCollected(p, s) \in Infos
  BY InfoTypes DEF TypeOK
<1> HIDE DEF s, c
<1>4. /\ avcnt' = [avcnt EXCEPT ![c] = Counted(s)]
      /\ avect' = [avect EXCEPT ![c] = Collected(p, s)]
      /\ status' = [status EXCEPT ![End(s)] = ReadyFields(s)]
      /\ kinfo' = [kinfo EXCEPT ![p] = InfoCollected(p, s)]
      /\ rst' = [rst EXCEPT ![c] = SavePartial(s, rst[c], Counted(s), Collected(p, s))]
      /\ Visited(p) /\ KeepsArray(p, s)
      /\ UNCHANGED <<ltime, avrecv, chan, pend>>
  BY DEF PutHold, s, c
<1>5. /\ pos' \in [Proc -> Nat \ {0}] /\ ltime' \in [Ends -> Int]
      /\ pend' \in [Couplers -> BOOLEAN] /\ lcouplertime' \in [Proc -> Int]
      /\ array' \in [Proc -> Values] /\ kinfo' \in [Proc -> Infos]
      /\ run' \in 1..LastRun /\ aborted' \in Reasons
  <2>1. array' \in [Proc -> Values]
    BY <1>1, <1>4, KeepsArrayTypes DEF s
  <2>2. kinfo' \in [Proc -> Infos]
    BY <1>3, <1>4 DEF TypeOK
  <2> QED
    BY <1>1, <1>4, <2>1, <2>2, VisitedTypes DEF TypeOK
<1>6. status' \in [Ends -> SUBSET Nat]
      /\ \A e \in Ends : status'[e] \subseteq Fields(e[2])
  BY <1>1, <1>2, <1>4, NamFacts DEF TypeOK
<1>7. /\ PerCoupler(avcnt') /\ PerCoupler(avect') /\ PerCoupler(avrecv')
      /\ PerCoupler(chan') /\ PerCoupler(rst')
  BY <1>4 DEF TypeOK, PerCoupler
<1>8. ASSUME NEW d \in Couplers
      PROVE  /\ avcnt'[d] \in Counts(d) /\ avect'[d] \in Tables(d)
             /\ avrecv'[d] \in Messages(d) \cup {NoMessage}
             /\ chan'[d] \in Seq(Messages(d)) /\ rst'[d] \in Files(d)
  BY <1>2, <1>4 DEF TypeOK, PerCoupler
<1> QED
  BY <1>5, <1>6, <1>7, <1>8 DEF TypeOK

\* The source end is reset
LEMMA ResetPutTypes ==
  ASSUME TypeOK, NEW s, s.msec \in Int, s.cpl \in Couplers, End(s) \in Ends,
         ResetPut(s)
  PROVE  /\ ltime' \in [Ends -> Int] /\ status' \in [Ends -> SUBSET Nat]
         /\ \A e \in Ends : status'[e] \subseteq Fields(e[2])
         /\ PerCoupler(avcnt') /\ PerCoupler(avect')
         /\ \A d \in Couplers : avcnt'[d] \in Counts(d) /\ avect'[d] \in Tables(d)
<1>1. NoCount(s.cpl) \in Counts(s.cpl) /\ Zeros(s.cpl) \in Tables(s.cpl)
  BY EmptyTables
<1>2. /\ ltime' \in [Ends -> Int] /\ status' \in [Ends -> SUBSET Nat]
      /\ \A e \in Ends : status'[e] \subseteq Fields(e[2])
  BY DEF ResetPut, TypeOK
<1>3. PerCoupler(avcnt') /\ PerCoupler(avect')
  BY DEF ResetPut, TypeOK, PerCoupler
<1> QED
  BY <1>1, <1>2, <1>3 DEF ResetPut, TypeOK, PerCoupler

LEMMA PutSendTypes ==
  ASSUME TypeOK, NEW p \in Proc, PutSend(p)
  PROVE  TypeOK'
<1> DEFINE s == Now(p)
           c == Now(p).cpl
           m == [time |-> Mseclag(s), data |-> Averaged(p, s)]
<1>1. /\ Runs(p, {"put"}) /\ c \in Couplers /\ s.cpl = c /\ End(s) \in Ends
      /\ s.msec \in Int
  BY VisitFacts DEF TypeOK, PutSend
<1>2. m \in Messages(c)
  BY <1>1, PutTypes DEF Messages
<1>3. SavePartial(s, rst[c], NoCount(c), Zeros(c)) \in Files(c)
  BY <1>1, FileTypes, EmptyTables DEF TypeOK
<1>4. InfoOutput(c, "Sent") \in Infos
  BY InfoTypes DEF Infos
<1> HIDE DEF s, c, m
<1>5. /\ chan' = [chan EXCEPT ![c] = Append(chan[c], m)]
      /\ pend' = [pend EXCEPT ![c] = TRUE]
      /\ kinfo' = [kinfo EXCEPT ![p] = InfoOutput(c, "Sent")]
      /\ ResetPut(s)
      /\ rst' = [rst EXCEPT ![c] = SavePartial(s, rst[c], NoCount(c), Zeros(c))]
      /\ KeepsArray(p, s) /\ Visited(p) /\ avrecv' = avrecv
  BY DEF PutSend, s, c, m
<1>6. /\ pos' \in [Proc -> Nat \ {0}] /\ lcouplertime' \in [Proc -> Int]
      /\ run' \in 1..LastRun /\ aborted' \in Reasons
      /\ array' \in [Proc -> Values]
  BY <1>1, <1>5, VisitedTypes, KeepsArrayTypes DEF s
<1>7. /\ ltime' \in [Ends -> Int] /\ status' \in [Ends -> SUBSET Nat]
      /\ \A e \in Ends : status'[e] \subseteq Fields(e[2])
      /\ PerCoupler(avcnt') /\ PerCoupler(avect')
      /\ \A d \in Couplers : avcnt'[d] \in Counts(d) /\ avect'[d] \in Tables(d)
  BY <1>1, <1>5, ResetPutTypes
<1>8. kinfo' \in [Proc -> Infos] /\ pend' \in [Couplers -> BOOLEAN]
  BY <1>4, <1>5 DEF TypeOK
<1>9. PerCoupler(avrecv') /\ PerCoupler(chan') /\ PerCoupler(rst')
  BY <1>5 DEF TypeOK, PerCoupler
<1>10. Append(chan[c], m) \in Seq(Messages(c))
  BY <1>1, <1>2 DEF TypeOK
<1>11. ASSUME NEW d \in Couplers
       PROVE  /\ avrecv'[d] \in Messages(d) \cup {NoMessage}
              /\ chan'[d] \in Seq(Messages(d)) /\ rst'[d] \in Files(d)
  BY <1>3, <1>5, <1>10 DEF TypeOK, PerCoupler
<1> QED
  BY <1>6, <1>7, <1>8, <1>9, <1>11 DEF TypeOK

LEMMA PutFileTypes ==
  ASSUME TypeOK, NEW p \in Proc, PutFile(p)
  PROVE  TypeOK'
<1> DEFINE s == Now(p)
           c == Now(p).cpl
           k == IF WritesLagRestart(s) THEN "ToRest" ELSE InfoCollected(p, s)
           file == SavePartial(s, SaveLag(p, s, rst[c]), NoCount(c), Zeros(c))
<1>1. /\ Runs(p, {"put"}) /\ c \in Couplers /\ s.cpl = c /\ End(s) \in Ends
      /\ s.msec \in Int
  BY VisitFacts DEF TypeOK, PutFile
<1>2. SaveLag(p, s, rst[c]) \in Files(c)
  <2>1. Averaged(p, s) \in Tables(c) /\ rst[c] \in Files(c)
    BY <1>1, PutTypes DEF TypeOK
  <2> QED
    BY <2>1 DEF SaveLag, Files
<1>3. file \in Files(c)
  BY <1>1, <1>2, FileTypes, EmptyTables
<1>4. InfoOutput(c, k) \in Infos
  <2>1. k \in Infos
    BY InfoTypes DEF Infos, TypeOK
  <2> QED
    BY <2>1, InfoTypes
<1> HIDE DEF s, c, k, file
<1>5. /\ kinfo' = [kinfo EXCEPT ![p] = InfoOutput(c, k)]
      /\ ResetPut(s)
      /\ rst' = [rst EXCEPT ![c] = file]
      /\ KeepsArray(p, s) /\ Visited(p)
      /\ UNCHANGED <<avrecv, chan, pend>>
  BY DEF PutFile, s, c, k, file
<1>6. /\ pos' \in [Proc -> Nat \ {0}] /\ lcouplertime' \in [Proc -> Int]
      /\ run' \in 1..LastRun /\ aborted' \in Reasons
      /\ array' \in [Proc -> Values]
  BY <1>1, <1>5, VisitedTypes, KeepsArrayTypes DEF s
<1>7. /\ ltime' \in [Ends -> Int] /\ status' \in [Ends -> SUBSET Nat]
      /\ \A e \in Ends : status'[e] \subseteq Fields(e[2])
      /\ PerCoupler(avcnt') /\ PerCoupler(avect')
      /\ \A d \in Couplers : avcnt'[d] \in Counts(d) /\ avect'[d] \in Tables(d)
  BY <1>1, <1>5, ResetPutTypes
<1>8. kinfo' \in [Proc -> Infos] /\ pend' \in [Couplers -> BOOLEAN]
  BY <1>4, <1>5 DEF TypeOK
<1>9. PerCoupler(avrecv') /\ PerCoupler(chan') /\ PerCoupler(rst')
  BY <1>5 DEF TypeOK, PerCoupler
<1>10. ASSUME NEW d \in Couplers
       PROVE  /\ avrecv'[d] \in Messages(d) \cup {NoMessage}
              /\ chan'[d] \in Seq(Messages(d)) /\ rst'[d] \in Files(d)
  BY <1>3, <1>5 DEF TypeOK, PerCoupler
<1> QED
  BY <1>6, <1>7, <1>8, <1>9, <1>10 DEF TypeOK

LEMMA GetRecvTypes ==
  ASSUME TypeOK, NEW p \in Proc, GetRecv(p)
  PROVE  TypeOK'
<1> DEFINE s == Now(p)
           c == Now(p).cpl
           k == InfoUnpacked(c, InfoOutput(c, InfoAtCall(p, s)))
<1>1. /\ Runs(p, {"get"}) /\ c \in Couplers /\ End(s) \in Ends /\ End(s)[2] = c
      /\ s.msec \in Int /\ s.fld \in Fields(c) /\ chan[c] # <<>>
  BY VisitFacts DEF TypeOK, GetRecv, End
<1>2. Head(chan[c]) \in Messages(c) /\ Tail(chan[c]) \in Seq(Messages(c))
  BY <1>1, HeadTailProperties DEF TypeOK
<1>3. k \in Infos
  BY InfoTypes DEF TypeOK
<1> HIDE DEF s, c, k
<1>4. /\ avrecv' = [avrecv EXCEPT ![c] = Head(chan[c])]
      /\ chan' = [chan EXCEPT ![c] = Tail(chan[c])]
      /\ ltime' = [ltime EXCEPT ![End(s)] = s.msec]
      /\ status' = [status EXCEPT ![End(s)] = {s.fld}]
      /\ kinfo' = [kinfo EXCEPT ![p] = k]
      /\ Visited(p)
      /\ UNCHANGED <<avcnt, avect, pend, array, rst>>
  BY DEF GetRecv, s, c, k
<1>5. /\ pos' \in [Proc -> Nat \ {0}] /\ lcouplertime' \in [Proc -> Int]
      /\ run' \in 1..LastRun /\ aborted' \in Reasons
  BY <1>1, <1>4, VisitedTypes
<1>6. /\ ltime' \in [Ends -> Int] /\ status' \in [Ends -> SUBSET Nat]
      /\ \A e \in Ends : status'[e] \subseteq Fields(e[2])
  BY <1>1, <1>4, NamFacts DEF TypeOK
<1>7. /\ kinfo' \in [Proc -> Infos] /\ pend' \in [Couplers -> BOOLEAN]
      /\ array' \in [Proc -> Values]
  BY <1>3, <1>4 DEF TypeOK
<1>8. /\ PerCoupler(avcnt') /\ PerCoupler(avect') /\ PerCoupler(avrecv')
      /\ PerCoupler(chan') /\ PerCoupler(rst')
  BY <1>4 DEF TypeOK, PerCoupler
<1>9. ASSUME NEW d \in Couplers
      PROVE  /\ avcnt'[d] \in Counts(d) /\ avect'[d] \in Tables(d)
             /\ avrecv'[d] \in Messages(d) \cup {NoMessage}
             /\ chan'[d] \in Seq(Messages(d)) /\ rst'[d] \in Files(d)
  BY <1>2, <1>4 DEF TypeOK, PerCoupler
<1> QED
  BY <1>5, <1>6, <1>7, <1>8, <1>9 DEF TypeOK

LEMMA GetLocalTypes ==
  ASSUME TypeOK, NEW p \in Proc, GetLocal(p)
  PROVE  TypeOK'
<1> DEFINE s == Now(p)
           c == Now(p).cpl
           k == IF TimeNow(s) THEN InfoUnpacked(c, InfoAtCall(p, s))
                              ELSE InfoAtCall(p, s)
           fs == IF ~TimeNow(s) THEN status[End(s)]
                 ELSE IF CommNow(s) THEN {s.fld} ELSE status[End(s)] \cup {s.fld}
<1>1. /\ Runs(p, {"get"}) /\ c \in Couplers /\ End(s) \in Ends /\ End(s)[2] = c
      /\ s.msec \in Int /\ s.fld \in Fields(c)
  BY VisitFacts DEF TypeOK, GetLocal, End
<1>2. fs \subseteq Fields(c)
  BY <1>1 DEF TypeOK
<1>3. k \in Infos
  BY InfoTypes DEF TypeOK
<1> HIDE DEF s, c, k, fs
<1>4. /\ ltime' = IF CommNow(s) THEN [ltime EXCEPT ![End(s)] = s.msec] ELSE ltime
      /\ status' = [status EXCEPT ![End(s)] = fs]
      /\ kinfo' = [kinfo EXCEPT ![p] = k]
      /\ Visited(p)
      /\ UNCHANGED <<avcnt, avect, avrecv, chan, pend, array, rst>>
  BY DEF GetLocal, s, c, k, fs
<1>5. /\ pos' \in [Proc -> Nat \ {0}] /\ lcouplertime' \in [Proc -> Int]
      /\ run' \in 1..LastRun /\ aborted' \in Reasons
  BY <1>1, <1>4, VisitedTypes
<1>6. /\ ltime' \in [Ends -> Int] /\ status' \in [Ends -> SUBSET Nat]
      /\ \A e \in Ends : status'[e] \subseteq Fields(e[2])
  BY <1>1, <1>2, <1>4, NamFacts DEF TypeOK
<1>7. kinfo' \in [Proc -> Infos]
  BY <1>3, <1>4 DEF TypeOK
<1> QED
  BY <1>4, <1>5, <1>6, <1>7 DEF TypeOK, PerCoupler

LEMMA LoadTypes ==
  ASSUME TypeOK, NEW p \in Proc, Load(p)
  PROVE  TypeOK'
<1> DEFINE c == Now(p).cpl
<1>1. c \in Couplers
  BY LoadFacts DEF TypeOK, Load
<1>2. rst[c].cnt \in Counts(c) /\ rst[c].av \in Tables(c)
  BY <1>1 DEF TypeOK, Files
<1> HIDE DEF c
<1>3. /\ \/ /\ avcnt' = [avcnt EXCEPT ![c] = rst[c].cnt]
            /\ avect' = [avect EXCEPT ![c] = rst[c].av]
         \/ UNCHANGED <<avcnt, avect>>
      /\ Advances(p)
      /\ UNCHANGED <<status, ltime, avrecv, chan, pend, lcouplertime, array,
                     kinfo, rst, run, aborted>>
  BY DEF Load, c
<1>4. pos' \in [Proc -> Nat \ {0}]
  BY <1>3, AdvancesTypes
<1>5. PerCoupler(avcnt') /\ PerCoupler(avect')
  BY <1>3 DEF TypeOK, PerCoupler
<1>6. ASSUME NEW d \in Couplers
      PROVE  avcnt'[d] \in Counts(d) /\ avect'[d] \in Tables(d)
  BY <1>2, <1>3 DEF TypeOK, PerCoupler
<1> QED
  BY <1>3, <1>4, <1>5, <1>6 DEF TypeOK

LEMMA NextTypes ==
  ASSUME TypeOK, [Next]_vars
  PROVE  TypeOK'
<1>1. ASSUME NEW p \in Proc, Exchange(p)
      PROVE  TypeOK'
  BY <1>1, PutSendTypes, PutFileTypes, GetRecvTypes DEF Exchange
<1>2. ASSUME NEW p \in Proc, Check(p)
      PROVE  TypeOK'
  BY <1>2, AdvancesTypes DEF Check, TypeOK, PerCoupler
<1>3. ASSUME NEW p \in Proc, Abort(p)
      PROVE  TypeOK'
  <2>1. Reason(p, Now(p)) \in Reasons
    BY DEF Reason, Reasons
  <2> QED
    BY <1>3, <2>1 DEF Abort, TypeOK, PerCoupler
<1>4. ASSUME NEW p \in Proc, Local(p)
      PROVE  TypeOK'
  BY <1>2, <1>3, <1>4, PutHoldTypes, GetLocalTypes, LoadTypes DEF Local
<1>5. ASSUME NEW c \in Couplers, SendDone(c)
      PROVE  TypeOK'
  BY <1>5 DEF SendDone, TypeOK, PerCoupler
<1>6. ASSUME NextRun
      PROVE  TypeOK'
  <2>1. /\ pos' \in [Proc -> Nat \ {0}] /\ ltime' \in [Ends -> Int]
        /\ pend' \in [Couplers -> BOOLEAN] /\ lcouplertime' \in [Proc -> Int]
        /\ array' \in [Proc -> Values] /\ kinfo' \in [Proc -> Infos]
    BY <1>6, ValueFacts, IspvalIsTime DEF NextRun, Fresh, Infos
  <2>2. run' \in 1..LastRun /\ aborted' \in Reasons
    BY <1>6, NamAssumption DEF NextRun, TypeOK
  <2>3. status' \in [Ends -> SUBSET Nat]
        /\ \A e \in Ends : status'[e] \subseteq Fields(e[2])
    <3>1. \A e \in Ends : e[2] \in Couplers
      BY DEF Ends
    <3> QED
      BY <1>6, <3>1, NamFacts DEF NextRun, Fresh
  <2>4. /\ PerCoupler(avcnt') /\ PerCoupler(avect') /\ PerCoupler(avrecv')
        /\ PerCoupler(chan') /\ PerCoupler(rst')
    BY <1>6 DEF NextRun, Fresh, PerCoupler, TypeOK
  <2>5. ASSUME NEW c \in Couplers
        PROVE  /\ avcnt'[c] \in Counts(c) /\ avect'[c] \in Tables(c)
               /\ avrecv'[c] \in Messages(c) \cup {NoMessage}
               /\ chan'[c] \in Seq(Messages(c)) /\ rst'[c] \in Files(c)
    BY <1>6, EmptyTables DEF NextRun, Fresh, TypeOK
  <2> QED
    BY <2>1, <2>2, <2>3, <2>4, <2>5 DEF TypeOK
<1>7. ASSUME UNCHANGED vars
      PROVE  TypeOK'
  BY <1>7 DEF vars, TypeOK, PerCoupler
<1> QED
  BY <1>1, <1>4, <1>5, <1>6, <1>7 DEF Next, Stop

\* Every variable keeps its type: the tables of mod_oasis_advance are those of
\* the fields of their coupler in every run.
THEOREM TypeCorrect == Spec => []TypeOK
<1>1. TypeOK /\ [Next]_vars => TypeOK'
  BY NextTypes
<1> QED
  BY InitTypes, <1>1, PTL DEF Spec

-----------------------------------------------------------------------------
(* Arithmetic *)

LEMMA DivMod ==
  ASSUME NEW x \in Int, NEW d \in Nat \ {0}, x % d = 0
  PROVE  x = d * (x \div d) /\ x \div d \in Int
OBVIOUS

LEMMA OneMore ==
  ASSUME NEW g \in Int, NEW d \in Int, NEW n \in Int
  PROVE  /\ g + d * (n + 1) = (g + d * n) + d
         /\ g + d * (n + 1) = (g + d) + d * n
OBVIOUS

\* Of the multiples of d, only x + d is above x and at most d away
LEMMA NextMultiple ==
  ASSUME NEW x \in Int, NEW y \in Int, NEW d \in Nat \ {0},
         x % d = 0, y % d = 0, x < y, y <= x + d
  PROVE  y = x + d
<1> DEFINE q == x \div d
           r == y \div d
<1>1. x = d * q /\ q \in Int /\ y = d * r /\ r \in Int
  BY DivMod
<1> HIDE DEF q, r
<1>2. y - x = d * (r - q)
  BY <1>1
<1>3. r - q >= 1
  <2>1. CASE r - q <= 0
    <3>1. d * (r - q) <= 0
      BY <2>1, <1>1
    <3> QED
      BY <3>1, <1>2, <1>1
  <2> QED
    BY <2>1, <1>1
<1>4. r - q <= 1
  <2>1. CASE r - q >= 2
    <3>1. d * (r - q) >= d * 2
      BY <2>1, <1>1
    <3> QED
      BY <3>1, <1>2, <1>1
  <2> QED
    BY <2>1, <1>1
<1> QED
  BY <1>1, <1>2, <1>3, <1>4

-----------------------------------------------------------------------------
(* Visits *)

LEMMA EndFacts ==
  ASSUME NEW p \in Proc, NEW e \in EndsOf(p)
  PROVE  /\ e \in Ends /\ e[1] \in {"put", "get"} /\ e[2] \in Couplers
         /\ e = <<e[1], e[2]>> /\ Owner(e) = p
         /\ LagOf(e) \in Int /\ Nam[e[2]].dt \in Nat \ {0}
         /\ Nam[e[2]].seq \in Int
BY NamFacts DEF EndsOf, Ends, LagOf

\* The visit s of the process p, which is not rejected
Visiting(p) == /\ p \in Proc
               /\ Runs(p, {"put"}) \/ Runs(p, {"get"})
               /\ ~Rejected(p, Now(p))

LEMMA VisitingFacts ==
  ASSUME TypeOK, NEW p, Visiting(p)
  PROVE  LET s == Now(p) IN
         /\ p \in Proc /\ IsVisit(s) /\ s.cpl \in Couplers /\ s.msec \in Int
         /\ s.msec # ISPVAL /\ s.fld \in Fields(s.cpl)
         /\ End(s) \in EndsOf(p) /\ End(s) = <<s.op, s.cpl>>
         /\ Mseclag(s) = s.msec + LagOf(End(s)) /\ Mseclag(s) \in Int
         /\ pos[p] \in DOMAIN Script[p] /\ s = Script[p][pos[p]]
         /\ pos[p] \in Nat \ {0} /\ DOMAIN Script[p] = 1..Len(Script[p])
<1> DEFINE s == Now(p)
<1>1. /\ p \in Proc /\ IsVisit(s) /\ s.cpl \in Couplers /\ s.msec \in Int
      /\ s.msec # ISPVAL /\ s.fld \in Fields(s.cpl) /\ End(s) \in EndsOf(p)
  BY VisitFacts DEF Visiting, IsVisit, TypeOK
<1>2. Nam[s.cpl].lag \in Int
  BY <1>1, NamFacts
<1>3. Mseclag(s) = s.msec + LagOf(End(s)) /\ Mseclag(s) \in Int
  BY <1>1, <1>2 DEF Mseclag, LagOf, End
<1>4. Script[p] \in Seq(Visits \cup Loads \cup Checks) /\ pos[p] \in Nat \ {0}
  BY <1>1, ScriptAssumption DEF TypeOK
<1>5. pos[p] \in DOMAIN Script[p]
  BY <1>4 DEF Visiting, Runs, Done
<1> QED
  BY <1>1, <1>3, <1>4, <1>5 DEF End, Now

\* What a visit does to the variables the times depend on
LEMMA VisitStep ==
  ASSUME TypeOK, NEW p \in Proc,
         PutHold(p) \/ PutSend(p) \/ PutFile(p) \/ GetRecv(p) \/ GetLocal(p)
  PROVE  LET s == Now(p) e == End(Now(p)) IN
         /\ Visiting(p)
         /\ pos' = [pos EXCEPT ![p] = pos[p] + 1]
         /\ lcouplertime' = [lcouplertime EXCEPT ![p] = s.msec]
         /\ ltime' = IF CommNow(s) THEN [ltime EXCEPT ![e] = s.msec] ELSE ltime
         /\ \E fs : /\ status' = [status EXCEPT ![e] = fs]
                    /\ ~CommNow(s) /\ s.op = "put" => fs = ReadyFields(s)
                    /\ ~TimeNow(s) => fs = status[e]
<1> DEFINE s == Now(p)
           e == End(s)
<1>1. ASSUME PutHold(p)
      PROVE  /\ Visiting(p) /\ Visited(p) /\ ~CommNow(s) /\ ltime' = ltime
             /\ status' = [status EXCEPT ![e] = ReadyFields(s)]
             /\ ~TimeNow(s) => ReadyFields(s) = status[e]
  BY <1>1 DEF PutHold, Visiting, ReadyFields
<1>2. ASSUME PutSend(p) \/ PutFile(p)
      PROVE  /\ Visiting(p) /\ Visited(p) /\ CommNow(s) /\ TimeNow(s)
             /\ ltime' = [ltime EXCEPT ![e] = s.msec]
             /\ status' = [status EXCEPT ![e] = {}]
  BY <1>2 DEF PutSend, PutFile, Visiting, ResetPut, CommNow
<1>3. ASSUME GetRecv(p)
      PROVE  /\ Visiting(p) /\ Visited(p) /\ CommNow(s) /\ TimeNow(s)
             /\ ltime' = [ltime EXCEPT ![e] = s.msec]
             /\ status' = [status EXCEPT ![e] = {s.fld}]
  BY <1>3 DEF GetRecv, Visiting, CommNow
<1>4. ASSUME GetLocal(p)
      PROVE  /\ Visiting(p) /\ Visited(p) /\ s.op = "get"
             /\ ltime' = IF CommNow(s) THEN [ltime EXCEPT ![e] = s.msec] ELSE ltime
             /\ \E fs : /\ status' = [status EXCEPT ![e] = fs]
                        /\ ~TimeNow(s) => fs = status[e]
  BY <1>4 DEF GetLocal, Visiting, Runs
<1>5. Visited(p) => /\ pos' = [pos EXCEPT ![p] = pos[p] + 1]
                    /\ lcouplertime' = [lcouplertime EXCEPT ![p] = s.msec]
  BY DEF Visited, Advances
<1> HIDE DEF s, e
<1>6. CASE PutHold(p)
  BY <1>1, <1>5, <1>6 DEF s, e
<1>7. CASE PutSend(p) \/ PutFile(p)
  BY <1>2, <1>5, <1>7 DEF s, e
<1>8. CASE GetRecv(p)
  BY <1>3, <1>5, <1>8 DEF s, e
<1>9. CASE GetLocal(p)
  BY <1>4, <1>5, <1>9 DEF s, e
<1> QED
  BY <1>6, <1>7, <1>8, <1>9

\* The first exchange of an end is for the coupling time 0
LEMMA FirstExchange ==
  ASSUME TypeOK, Timing, AlignedStart, NEW p, Visiting(p),
         CommNow(Now(p)), Now(p).cpl \in Exchanged, ~Started(End(Now(p)))
  PROVE  Mseclag(Now(p)) = 0
<1> DEFINE s == Now(p)
           e == End(s)
<1>1. /\ p \in Proc /\ IsVisit(s) /\ s.fld \in Fields(s.cpl) /\ e \in EndsOf(p)
      /\ e = <<s.op, s.cpl>> /\ pos[p] \in DOMAIN Script[p]
      /\ s = Script[p][pos[p]]
  BY VisitingFacts
<1>2. TimeNow(s) /\ ReadyFields(s) = Fields(s.cpl)
  BY DEF CommNow
<1> HIDE DEF s, e
<1>3. Waiting(p, e) /\ e[1] = s.op /\ e[2] = s.cpl
  BY <1>1 DEF Timing, s, e
<1>4. ~Seen(p, e, s.fld)
  <2>1. CASE s.op = "put"
    BY <1>1, <1>2, <1>3, <2>1 DEF Waiting, ReadyFields, e
  <2>2. CASE s.op = "get"
    BY <1>1, <1>3, <2>2 DEF Waiting
  <2> QED
    BY <1>1, <2>1, <2>2 DEF IsVisit
<1>5. ASSUME NEW j \in 1..(pos[p] - 1), SameField(Script[p][j], s)
      PROVE  ~TimeNow(Script[p][j])
  BY <1>1, <1>4, <1>5 DEF SameField, Seen, IsVisit, End
<1> QED
  BY <1>1, <1>2, <1>5 DEF AlignedStart, s

\* The next one is a period later
LEMMA NextExchange ==
  ASSUME TypeOK, Timing, NEW p, Visiting(p),
         CommNow(Now(p)), Now(p).cpl \in Exchanged, Started(End(Now(p)))
  PROVE  Now(p).msec = ltime[End(Now(p))] + Nam[Now(p).cpl].dt
<1> DEFINE s == Now(p)
           e == End(s)
           x == ltime[e] + LagOf(e)
           y == Mseclag(s)
           d == Nam[s.cpl].dt
<1>1. /\ p \in Proc /\ e \in EndsOf(p) /\ e[2] = s.cpl /\ s.msec \in Int
      /\ y = s.msec + LagOf(e) /\ y \in Int
  BY VisitingFacts
<1>2. d \in Nat \ {0} /\ LagOf(e) \in Int /\ ltime[e] \in Int /\ e \in Ends
  BY <1>1, EndFacts DEF TypeOK
<1>3. x % d = 0
  BY <1>1 DEF Timing, InThePast
<1>4. y % d = 0
  BY DEF CommNow, TimeNow
<1>5. s.msec > ltime[e] /\ s.msec <= ltime[e] + d
  <2>1. ~NotAdvanced(s) /\ ~Skipped(p, s)
    BY DEF Visiting, Rejected
  <2>2. ~(s.msec <= ltime[e])
    BY <2>1 DEF NotAdvanced
  <2>3. ~(s.msec > ltime[e] + d)
    BY <1>1, <2>1 DEF Skipped, Both
  <2> QED
    BY <2>2, <2>3, <1>1, <1>2
<1> HIDE DEF s, e, y, d
<1>6. x \in Int /\ x < y /\ y <= x + d
  BY <1>1, <1>2, <1>5
<1>7. y = x + d
  BY <1>2, <1>1, <1>3, <1>4, <1>6, NextMultiple
<1>8. s.msec = ltime[e] + d
  BY <1>1, <1>2, <1>7
<1> QED
  BY <1>8 DEF s, e, d

-----------------------------------------------------------------------------
(* Timing *)

\* What was visited before a step of a process, and what after it
LEMMA SeenStep ==
  ASSUME TypeOK, NEW p \in Proc, pos' = [pos EXCEPT ![p] = pos[p] + 1],
         NEW q \in Proc
  PROVE  /\ \A e, f : Seen(q, e, f)' =>
              \/ Seen(q, e, f)
              \/ /\ q = p /\ IsVisit(Now(p)) /\ End(Now(p)) = e
                 /\ Now(p).fld = f /\ TimeNow(Now(p))
         /\ Running(q) => Running(q)'
         /\ IsVisit(Now(p)) /\ Now(p).msec >= 0 => Running(p)'
<1>1. /\ pos[p] \in Nat \ {0} /\ pos[q] \in Nat \ {0}
      /\ pos'[q] = IF q = p THEN pos[p] + 1 ELSE pos[q]
      /\ pos'[p] = pos[p] + 1
  BY DEF TypeOK
<1>2. /\ \A j \in 1..(pos[q] - 1) : j \in 1..(pos'[q] - 1)
      /\ \A j \in 1..(pos'[q] - 1) : j \in 1..(pos[q] - 1) \/ (q = p /\ j = pos[p])
      /\ pos[p] \in 1..(pos'[p] - 1)
  BY <1>1
<1>3. Running(q) => Running(q)'
  <2>1. SUFFICES ASSUME NEW j \in 1..(pos[q] - 1),
                        IsVisit(Script[q][j]), Script[q][j].msec >= 0
                 PROVE  Running(q)'
    BY DEF Running
  <2>2. j \in 1..(pos'[q] - 1)
    BY <1>2
  <2> QED
    BY <2>1, <2>2 DEF Running
<1>4. IsVisit(Now(p)) /\ Now(p).msec >= 0 => Running(p)'
  <2>1. SUFFICES ASSUME IsVisit(Script[p][pos[p]]), Script[p][pos[p]].msec >= 0
                 PROVE  Running(p)'
    BY DEF Now
  <2> QED
    BY <1>2, <2>1 DEF Running
<1>5. ASSUME NEW e, NEW f, Seen(q, e, f)'
      PROVE  \/ Seen(q, e, f)
             \/ /\ q = p /\ IsVisit(Now(p)) /\ End(Now(p)) = e
                /\ Now(p).fld = f /\ TimeNow(Now(p))
  <2>1. PICK j \in 1..(pos'[q] - 1) :
          /\ IsVisit(Script[q][j]) /\ End(Script[q][j]) = e
          /\ Script[q][j].fld = f /\ TimeNow(Script[q][j])
    BY <1>5 DEF Seen
  <2> QED
    BY <2>1, <1>2 DEF Seen, Now
<1> QED
  BY <1>3, <1>4, <1>5

\* A visit of the run proper is not before the last one
LEMMA Forward ==
  ASSUME TypeOK, InitFirst, NEW p, Visiting(p), Running(p),
         lcouplertime[p] # ISPVAL
  PROVE  Now(p).msec >= 0 /\ lcouplertime[p] <= Now(p).msec
<1>1. /\ p \in Proc /\ IsVisit(Now(p)) /\ Now(p).msec \in Int
      /\ pos[p] \in DOMAIN Script[p] /\ Now(p) = Script[p][pos[p]]
  BY VisitingFacts
<1>2. PICK j \in 1..(pos[p] - 1) : IsVisit(Script[p][j]) /\ Script[p][j].msec >= 0
  BY DEF Running
<1>3. Now(p).msec >= 0
  <2>1. \A i \in DOMAIN Script[p] : \A k \in 1..(i - 1) :
          IsVisit(Script[p][i]) /\ IsVisit(Script[p][k]) /\ Script[p][k].msec >= 0
            => Script[p][i].msec >= 0
    BY <1>1 DEF InitFirst
  <2> QED
    BY <1>1, <1>2, <2>1
<1>4. ~Backwards(p, Now(p))
  BY DEF Visiting, Rejected
<1>5. lcouplertime[p] \in Int
  BY <1>1 DEF TypeOK
<1> QED
  BY <1>1, <1>3, <1>4, <1>5 DEF Backwards

LEMMA PastKept ==
  ASSUME TypeOK, InitFirst, NEW p \in Proc, Visiting(p),
         pos' = [pos EXCEPT ![p] = pos[p] + 1],
         lcouplertime' = [lcouplertime EXCEPT ![p] = Now(p).msec],
         NEW q \in Proc, NEW e \in EndsOf(q), InThePast(q, e),
         ltime'[e] = ltime[e]
  PROVE  InThePast(q, e)'
<1>1. Running(q) => Running(q)'
  BY SeenStep
<1>2. lcouplertime'[q] = IF q = p THEN Now(p).msec ELSE lcouplertime[q]
  BY DEF TypeOK
<1>3. Now(p).msec \in Int /\ Now(p).msec # ISPVAL
  BY VisitingFacts
<1>4. lcouplertime[q] \in Int /\ ltime[e] \in Int
  BY EndFacts DEF TypeOK
<1>5. CASE ltime[e] < 0
  BY <1>5 DEF InThePast, LagOf
<1>6. CASE lcouplertime[q] # ISPVAL /\ ltime[e] <= lcouplertime[q] /\ Running(q)
  <2>1. q = p => lcouplertime[q] <= Now(p).msec
    BY <1>6, Forward
  <2>2. lcouplertime'[q] # ISPVAL /\ ltime[e] <= lcouplertime'[q]
    BY <2>1, <1>2, <1>3, <1>4, <1>6
  <2> QED
    BY <2>2, <1>1, <1>6 DEF InThePast, LagOf
<1> QED
  BY <1>5, <1>6 DEF InThePast

LEMMA TimingVisit ==
  ASSUME TypeOK, TypeOK', Timing, InitFirst, NEW p \in Proc,
         PutHold(p) \/ PutSend(p) \/ PutFile(p) \/ GetRecv(p) \/ GetLocal(p)
  PROVE  Timing'
<1> DEFINE s == Now(p)
           e == End(s)
<1>1. /\ Visiting(p) /\ pos' = [pos EXCEPT ![p] = pos[p] + 1]
      /\ lcouplertime' = [lcouplertime EXCEPT ![p] = s.msec]
      /\ ltime' = IF CommNow(s) THEN [ltime EXCEPT ![e] = s.msec] ELSE ltime
  BY VisitStep
<1>2. PICK fs : /\ status' = [status EXCEPT ![e] = fs]
                /\ ~CommNow(s) /\ s.op = "put" => fs = ReadyFields(s)
                /\ ~TimeNow(s) => fs = status[e]
  BY VisitStep
<1>3. /\ IsVisit(s) /\ s.cpl \in Couplers /\ s.msec \in Int /\ s.msec # ISPVAL
      /\ s.fld \in Fields(s.cpl) /\ e \in EndsOf(p) /\ e = <<s.op, s.cpl>>
      /\ Mseclag(s) = s.msec + LagOf(e)
  BY <1>1, VisitingFacts
<1>4. SUFFICES ASSUME NEW q \in Proc, NEW n \in EndsOf(q), n[2] \in Exchanged
               PROVE  IF Started(n)' THEN InThePast(q, n)' ELSE Waiting(q, n)'
  BY DEF Timing, EndsOf
<1>5. /\ n \in Ends /\ n[1] \in {"put", "get"} /\ Owner(n) = q
      /\ e \in Ends /\ Owner(e) = p
  BY <1>3, EndFacts
<1>6. /\ ltime'[n] = IF CommNow(s) /\ n = e THEN s.msec ELSE ltime[n]
      /\ status'[n] = IF n = e THEN fs ELSE status[n]
  BY <1>1, <1>2, <1>5 DEF TypeOK
<1>7. \A m, f : Seen(q, m, f)' =>
         \/ Seen(q, m, f)
         \/ q = p /\ IsVisit(s) /\ e = m /\ s.fld = f /\ TimeNow(s)
  BY <1>1, SeenStep
<1>8. IF Started(n) THEN InThePast(q, n) ELSE Waiting(q, n)
  BY <1>4 DEF Timing
<1>9. s.msec >= 0 => Running(p)'
  BY <1>1, <1>3, SeenStep
<1>10. lcouplertime'[p] = s.msec
  BY <1>1 DEF TypeOK
<1>11. ltime'[n] = ltime[n] /\ InThePast(q, n) => InThePast(q, n)'
  BY <1>1, PastKept
<1> HIDE DEF s, e
<1>12. CASE n = e /\ CommNow(s)
  <2>1. q = p /\ ltime'[n] = s.msec
    BY <1>5, <1>6, <1>12
  <2>2. (ltime'[n] + LagOf(n)) % Nam[n[2]].dt = 0
    BY <1>3, <1>12, <2>1 DEF CommNow, TimeNow
  <2>3. InThePast(q, n)'
    BY <1>3, <1>9, <1>10, <2>1, <2>2 DEF InThePast, LagOf
  <2> QED
    BY <1>3, <2>1, <2>3 DEF Started
<1>13. CASE ~(n = e /\ CommNow(s)) /\ Started(n)
  BY <1>6, <1>8, <1>11, <1>13 DEF Started
<1>14. CASE n # e /\ ~Started(n)
  <2>1. \A f : Seen(q, n, f)' => Seen(q, n, f)
    BY <1>7, <1>14
  <2> QED
    BY <1>6, <1>8, <1>14, <2>1 DEF Waiting, Started
<1>15. CASE n = e /\ ~CommNow(s) /\ ~Started(n)
  <2>1. Waiting(q, n) /\ n[1] = s.op /\ n[2] = s.cpl
    BY <1>3, <1>8, <1>15
  <2>2. CASE TimeNow(s)
    <3>1. s.op = "put"
      BY <1>3, <1>15, <2>1, <2>2 DEF Waiting, CommNow, ReadyFields, IsVisit, e
    <3>2. fs # Fields(n[2]) /\ fs = status[n] \cup {s.fld}
      BY <1>2, <1>15, <2>1, <2>2, <3>1 DEF CommNow, ReadyFields, e
    <3>3. \A f \in Fields(n[2]) : f \notin fs => ~Seen(q, n, f)'
      BY <1>7, <2>1, <3>1, <3>2 DEF Waiting
    <3>4. Waiting(q, n)'
      BY <1>6, <1>15, <2>1, <3>1, <3>2, <3>3 DEF Waiting
    <3> QED
      BY <3>4, <1>6, <1>15 DEF Started
  <2>3. CASE ~TimeNow(s)
    <3>1. \A f : Seen(q, n, f)' => Seen(q, n, f)
      BY <1>7, <2>3
    <3>2. status'[n] = status[n]
      BY <1>2, <1>6, <1>15, <2>3
    <3> QED
      BY <1>6, <1>15, <2>1, <3>1, <3>2 DEF Waiting, Started
  <2> QED
    BY <2>2, <2>3
<1> QED
  BY <1>12, <1>13, <1>14, <1>15

LEMMA TimingOther ==
  ASSUME TypeOK, Timing, NEW p \in Proc, Load(p) \/ Check(p)
  PROVE  Timing'
<1>1. /\ pos' = [pos EXCEPT ![p] = pos[p] + 1] /\ ~IsVisit(Now(p))
      /\ UNCHANGED <<status, ltime, lcouplertime>>
  BY DEF Load, Check, Runs, Advances, IsVisit
<1>2. ASSUME NEW q \in Proc
      PROVE  /\ \A e, f : Seen(q, e, f)' => Seen(q, e, f)
             /\ Running(q) => Running(q)'
  BY <1>1, SeenStep
<1> QED
  BY <1>1, <1>2 DEF Timing, InThePast, Waiting, Started, EndsOf, LagOf

-----------------------------------------------------------------------------
(* The start of a run *)

LEMMA AtStart ==
  ASSUME pos = Fresh.pos, status = Fresh.status, ltime = Fresh.ltime,
         chan = Fresh.chan
  PROVE  Timing /\ Stream /\ TimesMatch /\ NoPeriodMissed /\ SequenceKept
<1>1. \A e \in Ends : ~Started(e)
  BY DEF Fresh, Started
<1>2. \A c \in Exchanged : /\ c \in Couplers /\ chan[c] = <<>>
                           /\ <<"put", c>> \in Ends /\ <<"get", c>> \in Ends
  BY DEF Fresh, Exchanged, Ends
<1>3. Timing
  <2>1. SUFFICES ASSUME NEW p \in Proc, NEW e \in EndsOf(p), e[2] \in Exchanged
                 PROVE  Waiting(p, e)
    BY <1>1 DEF Timing, EndsOf
  <2>2. \A f : ~Seen(p, e, f)
    <3>1. pos[p] = 1
      BY DEF Fresh
    <3>2. 1..(pos[p] - 1) = {}
      BY <3>1
    <3> QED
      BY <3>2 DEF Seen
  <2>3. /\ e \in Ends /\ e[1] \in {"put", "get"} /\ e[2] \in Couplers
        /\ Nam[e[2]].nflds \in Nat \ {0}
    BY EndFacts, NamFacts
  <2>4. status[e] = IF e[1] = "put" THEN {} ELSE Fields(e[2])
    BY <2>3 DEF Fresh
  <2>5. Fields(e[2]) # {}
    BY <2>3 DEF Fields
  <2> QED
    BY <2>2, <2>3, <2>4, <2>5 DEF Waiting
<1>4. Stream
  <2>1. ASSUME NEW c \in Exchanged
        PROVE  Consecutive(c) /\ SourceAhead(c)
    <3>1. chan[c] = <<>> /\ ~Started(<<"get", c>>) /\ ~Started(<<"put", c>>)
      BY <1>1, <1>2
    <3>2. Nam[c].dt \in Nat \ {0}
      BY <1>2, NamFacts
    <3>3. Len(chan[c]) = 0
      BY <3>1
    <3>4. Got[c] = -Nam[c].dt
      BY <3>1 DEF Got
    <3>5. LastSent[c] = -Nam[c].dt
      BY <3>2, <3>3, <3>4 DEF LastSent
    <3> QED
      BY <3>1, <3>3, <3>5 DEF Consecutive, SourceAhead
  <2> QED
    BY <2>1 DEF Stream
<1>5. TimesMatch
  BY <1>1, <1>2 DEF TimesMatch
<1>6. NoPeriodMissed /\ SequenceKept
  BY <1>1 DEF NoPeriodMissed, SequenceKept, ExchangedEnds, EndsOf
<1> QED
  BY <1>3, <1>4, <1>5, <1>6

-----------------------------------------------------------------------------
(* The ends of one process *)

\* The time of an exchange, and the times of the other ends of the process
LEMMA NewTime ==
  ASSUME TypeOK, Timing, NoPeriodMissed, AlignedStart, InitFirst,
         NEW p, Visiting(p), CommNow(Now(p)), Now(p).cpl \in Exchanged,
         NEW n \in ExchangedEnds(p)
  PROVE  /\ Now(p).msec <= ltime[n] + Nam[n[2]].dt
         /\ ltime[n] < Now(p).msec + Nam[Now(p).cpl].dt
         /\ Now(p).op = "get" /\ Nam[Now(p).cpl].seq > Nam[n[2]].seq
              => Now(p).msec < ltime[n] + Nam[n[2]].dt
<1> DEFINE s == Now(p)
           e == End(s)
<1>1. /\ p \in Proc /\ e \in EndsOf(p) /\ e = <<s.op, s.cpl>>
      /\ s.cpl \in Couplers /\ s.msec \in Int /\ Mseclag(s) = s.msec + LagOf(e)
  BY VisitingFacts
<1>2. n \in EndsOf(p) /\ n[2] \in Exchanged /\ Started(n)
  BY DEF ExchangedEnds
<1>3. /\ n \in Ends /\ n[2] \in Couplers /\ e \in Ends
  BY <1>1, <1>2, EndFacts
<1>4. /\ ltime[n] \in Int /\ ltime[e] \in Int
      /\ Nam[n[2]].dt \in Nat \ {0} /\ Nam[s.cpl].dt \in Nat \ {0}
      /\ Nam[s.cpl].lag \in Int /\ LagOf(e) \in Int
  BY <1>1, <1>3, NamFacts, EndFacts DEF TypeOK
<1>5. ~Skipped(p, s) /\ ~OutOfSequence(p, s) /\ ~LagTooLong(s)
  BY DEF Visiting, Rejected
<1>6. s.msec <= ltime[n] + Nam[n[2]].dt
  <2>1. ~(s.msec > ltime[n] + Nam[n[2]].dt)
    BY <1>2, <1>5 DEF Skipped, Both
  <2> QED
    BY <2>1, <1>1, <1>4
<1>7. s.op = "get" /\ Nam[s.cpl].seq > Nam[n[2]].seq
         => s.msec < ltime[n] + Nam[n[2]].dt
  <2>1. s.op = "get" /\ Nam[s.cpl].seq > Nam[n[2]].seq
           => ~(s.msec >= ltime[n] + Nam[n[2]].dt)
    BY <1>2, <1>5 DEF OutOfSequence, Both
  <2> QED
    BY <2>1, <1>1, <1>4
<1>8. ltime[n] < s.msec + Nam[s.cpl].dt
  <2>1. CASE Started(e)
    <3>1. s.msec = ltime[e] + Nam[s.cpl].dt
      BY <2>1, NextExchange
    <3>2. e \in ExchangedEnds(p) /\ e[2] = s.cpl
      BY <1>1, <2>1 DEF ExchangedEnds
    <3>3. ltime[n] <= ltime[e] + Nam[s.cpl].dt
      BY <1>1, <3>2 DEF NoPeriodMissed
    <3> HIDE DEF s, e
    <3> QED
      BY <3>1, <3>3, <1>1, <1>4
  <2>2. CASE ~Started(e)
    <3>1. Mseclag(s) = 0
      BY <2>2, FirstExchange
    <3>2. s.msec + Nam[s.cpl].dt >= 0
      <4>1. ~(Nam[s.cpl].lag > Nam[s.cpl].dt)
        BY <1>5 DEF LagTooLong
      <4>2. LagOf(e) \in {0, Nam[s.cpl].lag}
        BY <1>1 DEF LagOf
      <4> HIDE DEF s, e
      <4>3. LagOf(e) <= Nam[s.cpl].dt
        BY <4>1, <4>2, <1>4
      <4> QED
        BY <3>1, <4>3, <1>1, <1>4 DEF s
    <3>3. CASE ltime[n] < 0
      BY <3>2, <3>3, <1>1, <1>4
    <3>4. CASE ltime[n] >= 0
      <4>1. InThePast(p, n)
        BY <1>1, <1>2 DEF Timing
      <4>2. /\ lcouplertime[p] # ISPVAL /\ ltime[n] <= lcouplertime[p]
            /\ Running(p)
        BY <4>1, <3>4, <1>4 DEF InThePast
      <4>3. lcouplertime[p] <= s.msec /\ lcouplertime[p] \in Int
        BY <4>2, <1>1, Forward DEF TypeOK
      <4> HIDE DEF s, e
      <4> QED
        BY <4>2, <4>3, <1>1, <1>4
    <3> QED
      BY <3>3, <3>4, <1>4
  <2> QED
    BY <2>1, <2>2
<1> QED
  BY <1>6, <1>7, <1>8

\* The properties of the ends of a process, kept by every visit
LEMMA EndsVisit ==
  ASSUME TypeOK, Timing, NoPeriodMissed, SequenceKept, AlignedStart, InitFirst,
         NEW p \in Proc,
         PutHold(p) \/ PutSend(p) \/ PutFile(p) \/ GetRecv(p) \/ GetLocal(p)
  PROVE  NoPeriodMissed' /\ SequenceKept'
<1> DEFINE s == Now(p)
           e == End(s)
<1>1. /\ Visiting(p)
      /\ ltime' = IF CommNow(s) THEN [ltime EXCEPT ![e] = s.msec] ELSE ltime
  BY VisitStep
<1>2. /\ s.cpl \in Couplers /\ s.msec \in Int /\ e \in EndsOf(p)
      /\ e = <<s.op, s.cpl>> /\ e \in Ends /\ Owner(e) = p
  BY <1>1, VisitingFacts, EndFacts
<1>3. SUFFICES ASSUME NEW q \in Proc, NEW m \in ExchangedEnds(q)',
                      NEW n \in ExchangedEnds(q)'
               PROVE  /\ ltime'[m] <= ltime'[n] + Nam[n[2]].dt
                      /\ m[1] = "get" /\ Nam[m[2]].seq > Nam[n[2]].seq
                           => ltime'[m] < ltime'[n] + Nam[n[2]].dt
  BY DEF NoPeriodMissed, SequenceKept
<1>4. /\ m \in EndsOf(q) /\ m[2] \in Exchanged /\ m \in Ends /\ Owner(m) = q
      /\ n \in EndsOf(q) /\ n[2] \in Exchanged /\ n \in Ends /\ Owner(n) = q
      /\ Nam[n[2]].dt \in Nat \ {0} /\ Nam[m[2]].seq \in Int
      /\ Nam[n[2]].seq \in Int
      /\ ltime'[m] # ISPVAL /\ ltime'[n] # ISPVAL
  BY EndFacts DEF ExchangedEnds, EndsOf, Started
<1>5. /\ ltime'[m] = IF CommNow(s) /\ m = e THEN s.msec ELSE ltime[m]
      /\ ltime'[n] = IF CommNow(s) /\ n = e THEN s.msec ELSE ltime[n]
  BY <1>1, <1>4 DEF TypeOK
<1>6. CASE ~(CommNow(s) /\ m = e) /\ ~(CommNow(s) /\ n = e)
  <2>1. m \in ExchangedEnds(q) /\ n \in ExchangedEnds(q)
    BY <1>4, <1>5, <1>6 DEF ExchangedEnds, Started
  <2> QED
    BY <1>5, <1>6, <2>1 DEF NoPeriodMissed, SequenceKept
<1>7. CASE CommNow(s) /\ m = e /\ n = e
  BY <1>2, <1>4, <1>5, <1>7
<1>8. CASE CommNow(s) /\ m = e /\ n # e
  <2>1. q = p /\ s.cpl \in Exchanged /\ n \in ExchangedEnds(p)
        /\ m[1] = s.op /\ m[2] = s.cpl
    BY <1>2, <1>4, <1>5, <1>8 DEF ExchangedEnds, Started
  <2> QED
    BY <1>1, <1>5, <1>8, <2>1, NewTime
<1>9. CASE CommNow(s) /\ m # e /\ n = e
  <2>1. q = p /\ s.cpl \in Exchanged /\ m \in ExchangedEnds(p) /\ n[2] = s.cpl
    BY <1>2, <1>4, <1>5, <1>9 DEF ExchangedEnds, Started
  <2>2. ltime[m] < s.msec + Nam[s.cpl].dt
    BY <1>1, <1>9, <2>1, NewTime
  <2>3. ltime[m] \in Int
    BY <1>4 DEF TypeOK
  <2> QED
    BY <1>2, <1>4, <1>5, <1>9, <2>1, <2>2, <2>3
<1> QED
  BY <1>6, <1>7, <1>8, <1>9

-----------------------------------------------------------------------------
(* The messages of a coupler *)

LEMMA ExchangedFacts ==
  ASSUME TypeOK, NEW c \in Exchanged
  PROVE  /\ c \in Couplers /\ Nam[c].dt \in Nat \ {0} /\ Nam[c].lag \in Int
         /\ <<"put", c>> \in Ends /\ <<"get", c>> \in Ends
         /\ ltime[<<"put", c>>] \in Int /\ ltime[<<"get", c>>] \in Int
         /\ chan[c] \in Seq(Messages(c)) /\ Len(chan[c]) \in Nat
         /\ Got[c] \in Int /\ LastSent[c] \in Int
<1>1. /\ c \in Couplers /\ Nam[c].dt \in Nat \ {0} /\ Nam[c].lag \in Int
      /\ <<"put", c>> \in Ends /\ <<"get", c>> \in Ends
  BY NamFacts DEF Exchanged, Ends
<1>2. /\ ltime[<<"put", c>>] \in Int /\ ltime[<<"get", c>>] \in Int
      /\ chan[c] \in Seq(Messages(c))
  BY <1>1 DEF TypeOK
<1>3. Len(chan[c]) \in Nat
  BY <1>2
<1>4. Got[c] \in Int
  BY <1>1, <1>2 DEF Got
<1>5. LastSent[c] \in Int
  BY <1>1, <1>3, <1>4 DEF LastSent
<1> QED
  BY <1>1, <1>2, <1>3, <1>4, <1>5

\* Steps that neither send nor receive
LEMMA StreamKept ==
  ASSUME TypeOK, Stream, TimesMatch, UNCHANGED <<chan, avrecv>>,
         \A d \in Exchanged :
           /\ ltime'[<<"get", d>>] = ltime[<<"get", d>>]
           /\ \/ ltime'[<<"put", d>>] = ltime[<<"put", d>>]
              \/ /\ ltime'[<<"put", d>>] # ISPVAL
                 /\ ~(ltime'[<<"put", d>>] + Nam[d].lag < RunTime)
  PROVE  /\ Stream' /\ TimesMatch'
         /\ \A d \in Exchanged : Got'[d] = Got[d] /\ LastSent'[d] = LastSent[d]
<1>0. chan' = chan /\ avrecv' = avrecv
  OBVIOUS
<1>1. ASSUME NEW d \in Exchanged
      PROVE  Got'[d] = Got[d] /\ LastSent'[d] = LastSent[d]
  BY <1>0 DEF Got, LastSent, Started
<1>2. ASSUME NEW d \in Exchanged
      PROVE  Consecutive(d)' /\ SourceAhead(d)'
  <2>1. Consecutive(d) /\ SourceAhead(d)
    BY DEF Stream
  <2>2. Consecutive(d)'
    BY <1>0, <1>1, <2>1 DEF Consecutive
  <2>3. CASE ltime'[<<"put", d>>] = ltime[<<"put", d>>]
    BY <1>1, <2>1, <2>2, <2>3 DEF SourceAhead, Started
  <2>4. CASE /\ ltime'[<<"put", d>>] # ISPVAL
             /\ ~(ltime'[<<"put", d>>] + Nam[d].lag < RunTime)
    BY <2>2, <2>4 DEF SourceAhead, Started
  <2> QED
    BY <2>2, <2>3, <2>4
<1>3. TimesMatch'
  BY <1>0 DEF TimesMatch, Started
<1> QED
  BY <1>1, <1>2, <1>3 DEF Stream

\* A send is for the coupling time after that of the last message
LEMMA SendTime ==
  ASSUME TypeOK, Timing, Stream, AlignedStart, NEW p, Visiting(p),
         CommNow(Now(p)), Now(p).op = "put", Now(p).cpl \in Exchanged,
         ~AtEnd(Now(p))
  PROVE  LET c == Now(p).cpl IN
         /\ Mseclag(Now(p)) < RunTime
         /\ Mseclag(Now(p)) = LastSent[c] + Nam[c].dt
<1> DEFINE s == Now(p)
           c == s.cpl
           e == <<"put", c>>
           dt == Nam[c].dt
           lag == Nam[c].lag
           mseclag == Mseclag(s)
           sent == LastSent[c]
<1>1. s.msec \in Int /\ End(s) = e /\ mseclag = s.msec + lag
  BY VisitingFacts DEF Mseclag
<1>2. /\ dt \in Nat \ {0} /\ lag \in Int /\ ltime[e] \in Int
      /\ sent \in Int /\ RunTime \in Nat \ {0}
  BY ExchangedFacts, NamAssumption
<1>3. ~(mseclag >= RunTime)
  BY DEF AtEnd
<1>4. SourceAhead(c)
  BY DEF Stream
<1>5. Started(e) => /\ s.msec = ltime[e] + dt
                    /\ ltime[e] + lag < RunTime => ltime[e] + lag = sent
  BY <1>1, <1>4, NextExchange DEF SourceAhead
<1>6. ~Started(e) => mseclag = 0 /\ sent = -dt
  BY <1>1, <1>4, FirstExchange DEF SourceAhead
<1> HIDE DEF s, c, e, dt, lag, mseclag, sent
<1>7. mseclag < RunTime
  BY <1>1, <1>2, <1>3
<1>8. mseclag = sent + dt
  BY <1>1, <1>2, <1>5, <1>6, <1>7
<1> QED
  BY <1>7, <1>8 DEF s, c, dt, mseclag, sent

LEMMA StreamSend ==
  ASSUME TypeOK, Timing, Stream, TimesMatch, AlignedStart,
         NEW p \in Proc, PutSend(p)
  PROVE  LET c == Now(p).cpl IN
         /\ Stream' /\ TimesMatch'
         /\ c \in Exchanged /\ LastSent[c] + Nam[c].dt < RunTime
         /\ \A d \in Exchanged :
              /\ Got'[d] = Got[d]
              /\ LastSent'[d] = IF d = c THEN LastSent[c] + Nam[c].dt
                                         ELSE LastSent[d]
<1> DEFINE s == Now(p)
           c == s.cpl
           m == [time |-> Mseclag(s), data |-> Averaged(p, s)]
<1>1. /\ Visiting(p) /\ s.op = "put" /\ CommNow(s) /\ c \in Exchanged
      /\ ~AtEnd(s)
  BY DEF PutSend, Visiting, Runs
<1>2. /\ chan' = [chan EXCEPT ![c] = Append(@, m)]
      /\ ltime' = [ltime EXCEPT ![End(s)] = s.msec] /\ avrecv' = avrecv
  BY DEF PutSend, ResetPut
<1>3. /\ s.msec \in Int /\ s.msec # ISPVAL /\ End(s) = <<"put", c>>
      /\ Mseclag(s) = s.msec + Nam[c].lag
  BY <1>1, VisitingFacts DEF Mseclag
<1>4. Mseclag(s) < RunTime /\ Mseclag(s) = LastSent[c] + Nam[c].dt
  BY <1>1, SendTime
<1>5. /\ c \in Couplers /\ Nam[c].dt \in Nat \ {0}
      /\ Len(chan[c]) \in Nat /\ Got[c] \in Int /\ LastSent[c] \in Int
  BY <1>1, ExchangedFacts
<1> HIDE DEF s, c, m
<1>11. Got[c] + Nam[c].dt * (Len(chan[c]) + 1)
         = (Got[c] + Nam[c].dt * Len(chan[c])) + Nam[c].dt
  <2>1. Got[c] \in Int /\ Nam[c].dt \in Int /\ Len(chan[c]) \in Int
    BY <1>5
  <2> QED
    BY <2>1, OneMore
<1>6. /\ \A d \in Exchanged : /\ ltime'[<<"get", d>>] = ltime[<<"get", d>>]
                              /\ d # c => /\ ltime'[<<"put", d>>] = ltime[<<"put", d>>]
                                          /\ chan'[d] = chan[d]
      /\ ltime'[<<"put", c>>] = s.msec
      /\ chan'[c] = Append(chan[c], m)
  <2>1. /\ \A d \in Exchanged :
             d \in Couplers /\ <<"put", d>> \in Ends /\ <<"get", d>> \in Ends
        /\ DOMAIN ltime = Ends /\ c \in Exchanged
    BY <1>1, ExchangedFacts DEF TypeOK
  <2>2. \A d \in Couplers : chan'[d] = IF d = c THEN Append(chan[c], m) ELSE chan[d]
    BY <1>2 DEF TypeOK, PerCoupler
  <2>3. \A e \in Ends : ltime'[e] = IF e = <<"put", c>> THEN s.msec ELSE ltime[e]
    BY <1>2, <1>3 DEF TypeOK
  <2> QED
    BY <2>1, <2>2, <2>3
<1>7. /\ Len(chan'[c]) = Len(chan[c]) + 1
      /\ \A i \in 1..Len(chan[c]) : chan'[c][i] = chan[c][i]
      /\ chan'[c][Len(chan[c]) + 1].time = Mseclag(s)
  <2>1. m.time = Mseclag(s) /\ m \in [time : {Mseclag(s)}, data : {Averaged(p, s)}]
    BY DEF m
  <2>2. chan[c] \in Seq(Messages(c))
    BY <1>1, ExchangedFacts
  <2> QED
    BY <1>6, <2>1, <2>2
<1>8. ASSUME NEW d \in Exchanged
      PROVE  Got'[d] = Got[d]
  <2>1. ltime'[<<"get", d>>] = ltime[<<"get", d>>]
    BY <1>6
  <2> QED
    BY <2>1 DEF Got, Started
<1>9. \A d \in Exchanged :
        LastSent'[d] = IF d = c THEN LastSent[c] + Nam[c].dt ELSE LastSent[d]
  <2>1. LastSent'[c] = LastSent[c] + Nam[c].dt
    <3>1. Got'[c] = Got[c] /\ Len(chan'[c]) = Len(chan[c]) + 1
      BY <1>1, <1>7, <1>8
    <3>2. LastSent'[c] = Got'[c] + Nam[c].dt * Len(chan'[c])
      BY <1>1 DEF LastSent
    <3>3. LastSent[c] = Got[c] + Nam[c].dt * Len(chan[c])
      BY <1>1 DEF LastSent
    <3>4. LastSent'[c] = Got[c] + Nam[c].dt * (Len(chan[c]) + 1)
      BY <3>1, <3>2
    <3> QED
      BY <3>3, <3>4, <1>11
  <2> QED
    BY <1>6, <1>8, <2>1 DEF LastSent
<1>10. \A i \in 1..Len(chan'[c]) : chan'[c][i].time = Got'[c] + Nam[c].dt * i
  <2>1. \A i \in 1..Len(chan[c]) : chan[c][i].time = Got[c] + Nam[c].dt * i
    BY <1>1 DEF Stream, Consecutive
  <2>2. chan'[c][Len(chan[c]) + 1].time = Got[c] + Nam[c].dt * (Len(chan[c]) + 1)
    <3>1. LastSent[c] = Got[c] + Nam[c].dt * Len(chan[c])
      BY <1>1 DEF LastSent
    <3> QED
      BY <3>1, <1>4, <1>11, <1>7
  <2>3. SUFFICES ASSUME NEW i \in 1..Len(chan'[c])
                 PROVE  chan'[c][i].time = Got'[c] + Nam[c].dt * i
    OBVIOUS
  <2>4. i \in 1..Len(chan[c]) \/ i = Len(chan[c]) + 1
    BY <1>5, <1>7
  <2>5. Got'[c] = Got[c]
    BY <1>1, <1>8
  <2> QED
    BY <1>7, <2>1, <2>2, <2>4, <2>5
<1>16. ltime'[<<"put", c>>] + Nam[c].lag = LastSent'[c] /\ ltime'[<<"put", c>>] # ISPVAL
  BY <1>1, <1>3, <1>4, <1>6, <1>9
<1>12. ASSUME NEW d \in Exchanged
       PROVE  Consecutive(d)' /\ SourceAhead(d)'
  <2>1. CASE d # c
    <3>1. Consecutive(d) /\ SourceAhead(d)
      BY DEF Stream
    <3> QED
      BY <1>6, <1>8, <1>9, <2>1, <3>1 DEF Consecutive, SourceAhead, Started
  <2>2. CASE d = c
    BY <1>10, <1>16, <2>2 DEF Consecutive, SourceAhead, Started
  <2> QED
    BY <2>1, <2>2
<1>13. TimesMatch'
  BY <1>1, <1>2, <1>6 DEF TimesMatch, Started
<1>14. Stream'
  BY <1>12 DEF Stream
<1> QED
  BY <1>1, <1>4, <1>8, <1>9, <1>13, <1>14 DEF s, c

\* A receive is for the coupling time after that of the last one
LEMMA ReceiveTime ==
  ASSUME TypeOK, Timing, AlignedStart, NEW p, Visiting(p),
         CommNow(Now(p)), Now(p).op = "get", Now(p).cpl \in Exchanged
  PROVE  LET c == Now(p).cpl IN Now(p).msec = Got[c] + Nam[c].dt
<1> DEFINE s == Now(p)
           c == s.cpl
           dt == Nam[c].dt
           got == Got[c]
<1>1. s.msec \in Int /\ End(s) = <<"get", c>> /\ Mseclag(s) = s.msec
  BY VisitingFacts DEF Mseclag
<1>2. dt \in Nat \ {0} /\ got \in Int
  BY ExchangedFacts
<1>3. CASE Started(<<"get", c>>)
  BY <1>1, <1>3, NextExchange DEF Got
<1>4. CASE ~Started(<<"get", c>>)
  <2>1. s.msec = 0
    BY <1>1, <1>4, FirstExchange
  <2>2. got = -dt
    BY <1>4 DEF Got
  <2> HIDE DEF s, c, dt, got
  <2>3. s.msec = got + dt
    BY <2>1, <2>2, <1>2
  <2> QED
    BY <2>3 DEF s, c, dt, got
<1> QED
  BY <1>3, <1>4

LEMMA StreamReceive ==
  ASSUME TypeOK, Timing, Stream, TimesMatch, AlignedStart,
         NEW p \in Proc, GetRecv(p)
  PROVE  LET c == Now(p).cpl IN
         /\ Stream' /\ TimesMatch'
         /\ c \in Exchanged /\ Got[c] < LastSent[c]
         /\ \A d \in Exchanged :
              /\ Got'[d] = IF d = c THEN Got[c] + Nam[c].dt ELSE Got[d]
              /\ LastSent'[d] = LastSent[d]
<1> DEFINE s == Now(p)
           c == s.cpl
           n == Len(chan'[c])
<1>1. /\ Visiting(p) /\ s.op = "get" /\ CommNow(s) /\ c \in Exchanged
      /\ chan[c] # <<>>
  BY DEF GetRecv, Visiting, Runs
<1>2. /\ chan' = [chan EXCEPT ![c] = Tail(@)]
      /\ ltime' = [ltime EXCEPT ![End(s)] = s.msec]
      /\ avrecv' = [avrecv EXCEPT ![c] = Head(chan[c])]
  BY DEF GetRecv
<1>3. /\ s.msec \in Int /\ s.msec # ISPVAL /\ End(s) = <<"get", c>>
  BY <1>1, VisitingFacts
<1>4. s.msec = Got[c] + Nam[c].dt
  BY <1>1, ReceiveTime
<1>5. /\ c \in Couplers /\ Nam[c].dt \in Nat \ {0}
      /\ Got[c] \in Int /\ LastSent[c] \in Int
  BY <1>1, ExchangedFacts
<1> HIDE DEF s, c
<1>6. /\ \A d \in Exchanged : /\ ltime'[<<"put", d>>] = ltime[<<"put", d>>]
                              /\ d # c => /\ ltime'[<<"get", d>>] = ltime[<<"get", d>>]
                                          /\ chan'[d] = chan[d]
                                          /\ avrecv'[d] = avrecv[d]
      /\ ltime'[<<"get", c>>] = s.msec
      /\ chan'[c] = Tail(chan[c]) /\ avrecv'[c] = Head(chan[c])
  <2>1. /\ \A d \in Exchanged :
             d \in Couplers /\ <<"put", d>> \in Ends /\ <<"get", d>> \in Ends
        /\ DOMAIN ltime = Ends /\ c \in Exchanged
    BY <1>1, ExchangedFacts DEF TypeOK
  <2>2. \A d \in Couplers :
          /\ chan'[d] = IF d = c THEN Tail(chan[c]) ELSE chan[d]
          /\ avrecv'[d] = IF d = c THEN Head(chan[c]) ELSE avrecv[d]
    BY <1>2 DEF TypeOK, PerCoupler
  <2>3. \A e \in Ends : ltime'[e] = IF e = <<"get", c>> THEN s.msec ELSE ltime[e]
    BY <1>2, <1>3 DEF TypeOK
  <2> QED
    BY <2>1, <2>2, <2>3
<1>7. /\ n \in Nat /\ Len(chan[c]) = n + 1
      /\ \A i \in 1..n : chan'[c][i] = chan[c][i + 1]
      /\ avrecv'[c] = chan[c][1]
  <2>1. chan[c] \in Seq(Messages(c))
    BY <1>1, ExchangedFacts
  <2>2. /\ Tail(chan[c]) \in Seq(Messages(c))
        /\ Len(Tail(chan[c])) = Len(chan[c]) - 1
        /\ \A i \in 1..Len(Tail(chan[c])) : Tail(chan[c])[i] = chan[c][i + 1]
        /\ Head(chan[c]) = chan[c][1]
    BY <1>1, <2>1, HeadTailProperties
  <2> QED
    BY <1>6, <2>1, <2>2
<1> HIDE DEF n
<1>8. \A i \in 1..(n + 1) : chan[c][i].time = Got[c] + Nam[c].dt * i
  BY <1>1, <1>7 DEF Stream, Consecutive
<1>9. ASSUME NEW d \in Exchanged
      PROVE  Got'[d] = IF d = c THEN Got[c] + Nam[c].dt ELSE Got[d]
  <2>1. CASE d = c
    BY <1>3, <1>4, <1>6, <2>1 DEF Got, Started
  <2>2. CASE d # c
    <3>1. ltime'[<<"get", d>>] = ltime[<<"get", d>>]
      BY <1>6, <2>2
    <3> QED
      BY <2>2, <3>1 DEF Got, Started
  <2> QED
    BY <2>1, <2>2
<1>10. LastSent[c] = Got[c] + Nam[c].dt * (n + 1) /\ Got[c] < LastSent[c]
  <2>1. LastSent[c] = Got[c] + Nam[c].dt * (n + 1)
    BY <1>1, <1>7 DEF LastSent
  <2>2. Nam[c].dt * (n + 1) > 0
    BY <1>5, <1>7
  <2>3. Nam[c].dt * (n + 1) \in Int
    BY <1>5, <1>7
  <2> QED
    BY <2>1, <2>2, <2>3, <1>5
\* Shifting the times by a period shifts the messages by one
<1>11. \A i \in Nat : (Got[c] + Nam[c].dt) + Nam[c].dt * i
                        = Got[c] + Nam[c].dt * (i + 1)
  <2>1. Got[c] \in Int /\ Nam[c].dt \in Int
    BY <1>5
  <2>2. ASSUME NEW i \in Nat
        PROVE  (Got[c] + Nam[c].dt) + Nam[c].dt * i = Got[c] + Nam[c].dt * (i + 1)
    <3>1. i \in Int
      OBVIOUS
    <3> QED
      BY <2>1, <3>1, OneMore
  <2> QED
    BY <2>2
<1>12. \A d \in Exchanged : LastSent'[d] = LastSent[d]
  <2>1. LastSent'[c] = LastSent[c]
    <3>1. LastSent'[c] = Got'[c] + Nam[c].dt * n
      BY <1>1 DEF LastSent, n
    <3>2. Got'[c] = Got[c] + Nam[c].dt
      BY <1>1, <1>9
    <3> QED
      BY <3>1, <3>2, <1>7, <1>10, <1>11
  <2> QED
    BY <1>6, <1>9, <2>1 DEF LastSent
<1>13. \A i \in 1..n : chan'[c][i].time = Got'[c] + Nam[c].dt * i
  <2>1. SUFFICES ASSUME NEW i \in 1..n
                 PROVE  chan'[c][i].time = Got'[c] + Nam[c].dt * i
    OBVIOUS
  <2>2. i \in Nat /\ i + 1 \in 1..(n + 1)
    BY <1>7
  <2>3. chan'[c][i].time = Got[c] + Nam[c].dt * (i + 1)
    BY <1>7, <1>8, <2>2
  <2>4. Got'[c] = Got[c] + Nam[c].dt
    BY <1>1, <1>9
  <2> QED
    BY <1>11, <2>2, <2>3, <2>4
<1>14. ASSUME NEW d \in Exchanged
       PROVE  Consecutive(d)' /\ SourceAhead(d)'
  <2>1. Consecutive(d) /\ SourceAhead(d)
    BY DEF Stream
  <2>2. ltime'[<<"put", d>>] = ltime[<<"put", d>>] /\ LastSent'[d] = LastSent[d]
    BY <1>6, <1>12
  <2>3. SourceAhead(d)'
    BY <2>1, <2>2 DEF SourceAhead, Started
  <2>4. CASE d # c
    <3>1. chan'[d] = chan[d] /\ Got'[d] = Got[d]
      BY <1>6, <1>9, <2>4
    <3> QED
      BY <2>1, <2>3, <3>1 DEF Consecutive
  <2>5. CASE d = c
    BY <1>13, <2>3, <2>5 DEF Consecutive, n
  <2> QED
    BY <2>4, <2>5
<1>15. avrecv'[c].time = s.msec
  <2>1. 1 \in 1..(n + 1) /\ Nam[c].dt * 1 = Nam[c].dt
    BY <1>5, <1>7
  <2> QED
    BY <1>4, <1>7, <1>8, <2>1
<1>16. TimesMatch'
  BY <1>6, <1>15 DEF TimesMatch, Started
<1>17. Stream'
  BY <1>14 DEF Stream
<1> QED
  BY <1>1, <1>9, <1>10, <1>12, <1>16, <1>17 DEF s, c

-----------------------------------------------------------------------------
(* The steps *)

\* What the coupler promises of the times, as a step of the abstract clock
ClockStep == [Clock!Next]_<<LastSent, Got>>

LEMMA ClockFunctions ==
  /\ LastSent = [d \in Exchanged |-> LastSent[d]]
  /\ Got = [d \in Exchanged |-> Got[d]]
  /\ LastSent' = [d \in Exchanged |-> LastSent'[d]]
  /\ Got' = [d \in Exchanged |-> Got'[d]]
BY DEF LastSent, Got

LEMMA ClockStutters ==
  ASSUME \A d \in Exchanged : Got'[d] = Got[d] /\ LastSent'[d] = LastSent[d]
  PROVE  ClockStep
<1>1. LastSent' = LastSent /\ Got' = Got
  BY ClockFunctions
<1> QED
  BY <1>1 DEF ClockStep

LEMMA ExchangeStep ==
  ASSUME TimesInv, AlignedStart, NEW p \in Proc, PutSend(p) \/ GetRecv(p)
  PROVE  Stream' /\ TimesMatch' /\ ClockStep
<1> DEFINE c == Now(p).cpl
<1> USE DEF TimesInv
<1>1. CASE PutSend(p)
  <2>1. /\ Stream' /\ TimesMatch'
        /\ c \in Exchanged /\ LastSent[c] + Nam[c].dt < RunTime
        /\ \A d \in Exchanged :
             /\ Got'[d] = Got[d]
             /\ LastSent'[d] = IF d = c THEN LastSent[c] + Nam[c].dt
                                        ELSE LastSent[d]
    BY <1>1, StreamSend
  <2> HIDE DEF c, TimesInv
  <2>2. Got' = Got
    BY <2>1, ClockFunctions
  <2>3. LastSent' = [LastSent EXCEPT ![c] = LastSent[c] + Nam[c].dt]
    BY <2>1, ClockFunctions
  <2>4. [d \in Exchanged |-> Nam[d].dt][c] = Nam[c].dt
    BY <2>1
  <2>5. Clock!Send(c)
    BY <2>1, <2>2, <2>3, <2>4 DEF Clock!Send
  <2> QED
    BY <2>1, <2>5 DEF ClockStep, Clock!Next
<1>2. CASE GetRecv(p)
  <2>1. /\ Stream' /\ TimesMatch'
        /\ c \in Exchanged /\ Got[c] < LastSent[c]
        /\ \A d \in Exchanged :
             /\ Got'[d] = IF d = c THEN Got[c] + Nam[c].dt ELSE Got[d]
             /\ LastSent'[d] = LastSent[d]
    BY <1>2, StreamReceive
  <2> HIDE DEF c, TimesInv
  <2>2. LastSent' = LastSent
    BY <2>1, ClockFunctions
  <2>3. Got' = [Got EXCEPT ![c] = Got[c] + Nam[c].dt]
    BY <2>1, ClockFunctions
  <2>4. [d \in Exchanged |-> Nam[d].dt][c] = Nam[c].dt
    BY <2>1
  <2>5. Clock!Receive(c)
    BY <2>1, <2>2, <2>3, <2>4 DEF Clock!Receive
  <2> QED
    BY <2>1, <2>5 DEF ClockStep, Clock!Next
<1> QED
  BY <1>1, <1>2

\* A put that only writes files is beyond the times of the messages
LEMMA FileStep ==
  ASSUME TimesInv, NEW p \in Proc, PutFile(p)
  PROVE  Stream' /\ TimesMatch' /\ ClockStep
<1> DEFINE s == Now(p)
<1>1. /\ Visiting(p) /\ s.op = "put"
      /\ s.cpl \notin Exchanged \/ AtEnd(s)
      /\ ltime' = [ltime EXCEPT ![End(s)] = s.msec]
      /\ UNCHANGED <<chan, avrecv>>
  BY DEF PutFile, Visiting, Runs, ResetPut
<1>2. /\ s.msec \in Int /\ s.msec # ISPVAL /\ End(s) = <<"put", s.cpl>>
      /\ Mseclag(s) = s.msec + Nam[s.cpl].lag /\ Mseclag(s) \in Int
  <2>1. TypeOK
    BY DEF TimesInv
  <2> QED
    BY <1>1, <2>1, VisitingFacts DEF Mseclag
<1>3. RunTime \in Nat
  BY NamAssumption
<1>4. AtEnd(s) => ~(Mseclag(s) < RunTime)
  BY <1>2, <1>3 DEF AtEnd
<1> HIDE DEF s
<1>5. ASSUME NEW d \in Exchanged
      PROVE  /\ ltime'[<<"get", d>>] = ltime[<<"get", d>>]
             /\ \/ ltime'[<<"put", d>>] = ltime[<<"put", d>>]
                \/ /\ ltime'[<<"put", d>>] # ISPVAL
                   /\ ~(ltime'[<<"put", d>>] + Nam[d].lag < RunTime)
  <2>1. /\ <<"put", d>> \in Ends /\ <<"get", d>> \in Ends /\ DOMAIN ltime = Ends
    BY ExchangedFacts DEF TimesInv, TypeOK
  <2>2. \A e \in Ends : ltime'[e] = IF e = <<"put", s.cpl>> THEN s.msec ELSE ltime[e]
    BY <1>1, <1>2, <2>1
  <2>3. ltime'[<<"get", d>>] = ltime[<<"get", d>>]
    BY <2>1, <2>2
  <2>4. CASE d = s.cpl
    <3>1. ltime'[<<"put", d>>] = s.msec
      BY <2>1, <2>2, <2>4
    <3> QED
      BY <1>1, <1>2, <1>4, <2>3, <2>4, <3>1
  <2>5. CASE d # s.cpl
    BY <2>1, <2>2, <2>3, <2>5
  <2> QED
    BY <2>4, <2>5
<1>6. /\ Stream' /\ TimesMatch'
      /\ \A d \in Exchanged : Got'[d] = Got[d] /\ LastSent'[d] = LastSent[d]
  BY <1>1, <1>5, StreamKept DEF TimesInv
<1> QED
  BY <1>6, ClockStutters

\* The other visits, and all that a process does without the coupler
LEMMA QuietStep ==
  ASSUME TimesInv, UNCHANGED <<chan, avrecv>>,
         \A e \in Ends : e[2] \in Exchanged => ltime'[e] = ltime[e]
  PROVE  Stream' /\ TimesMatch' /\ ClockStep
<1>1. ASSUME NEW d \in Exchanged
      PROVE  /\ ltime'[<<"get", d>>] = ltime[<<"get", d>>]
             /\ ltime'[<<"put", d>>] = ltime[<<"put", d>>]
  BY ExchangedFacts DEF TimesInv
<1>2. /\ Stream' /\ TimesMatch'
      /\ \A d \in Exchanged : Got'[d] = Got[d] /\ LastSent'[d] = LastSent[d]
  BY <1>1, StreamKept DEF TimesInv
<1> QED
  BY <1>2, ClockStutters

LEMMA VisitInv ==
  ASSUME TimesInv, TypeOK', AlignedStart, InitFirst, NEW p \in Proc,
         PutHold(p) \/ PutSend(p) \/ PutFile(p) \/ GetRecv(p) \/ GetLocal(p)
  PROVE  TimesInv' /\ ClockStep
<1>1. TypeOK /\ Timing /\ NoPeriodMissed /\ SequenceKept
  BY DEF TimesInv
<1>2. Timing'
  BY <1>1, TimingVisit
<1>3. NoPeriodMissed' /\ SequenceKept'
  BY <1>1, EndsVisit
<1>4. Stream' /\ TimesMatch' /\ ClockStep
  <2>1. CASE PutHold(p)
    BY <2>1, QuietStep DEF PutHold
  <2>2. CASE PutSend(p) \/ GetRecv(p)
    BY <2>2, ExchangeStep
  <2>3. CASE PutFile(p)
    BY <2>3, FileStep
  <2>4. CASE GetLocal(p)
    <3>1. /\ UNCHANGED <<chan, avrecv>>
          /\ CommNow(Now(p)) => Now(p).cpl \notin Exchanged
          /\ ltime' = IF CommNow(Now(p))
                      THEN [ltime EXCEPT ![End(Now(p))] = Now(p).msec] ELSE ltime
      BY <2>4 DEF GetLocal
    <3>2. End(Now(p))[2] = Now(p).cpl
      BY DEF End
    <3>3. \A e \in Ends : e[2] \in Exchanged => ltime'[e] = ltime[e]
      BY <1>1, <3>1, <3>2 DEF TypeOK
    <3> QED
      BY <3>1, <3>3, QuietStep
  <2> QED
    BY <2>1, <2>2, <2>3, <2>4
<1> QED
  BY <1>2, <1>3, <1>4 DEF TimesInv

LEMMA StartInv ==
  ASSUME pos = Fresh.pos, status = Fresh.status, ltime = Fresh.ltime,
         chan = Fresh.chan, TypeOK
  PROVE  TimesInv /\ LastSent = Clock!Before /\ Got = Clock!Before
<1>1. Timing /\ Stream /\ TimesMatch /\ NoPeriodMissed /\ SequenceKept
  BY AtStart
<1>2. ASSUME NEW d \in Exchanged
      PROVE  Got[d] = -Nam[d].dt /\ LastSent[d] = -Nam[d].dt
  <2>1. /\ <<"get", d>> \in Ends /\ <<"put", d>> \in Ends
    BY ExchangedFacts
  <2>2. ~Started(<<"get", d>>) /\ ~Started(<<"put", d>>)
    BY <2>1 DEF Fresh, Started
  <2> QED
    BY <1>1, <2>2 DEF Got, Stream, SourceAhead
<1>3. \A d \in Exchanged : [c \in Exchanged |-> Nam[c].dt][d] = Nam[d].dt
  OBVIOUS
<1>4. LastSent = Clock!Before /\ Got = Clock!Before
  BY <1>2, <1>3, ClockFunctions DEF Clock!Before
<1> QED
  BY <1>1, <1>4 DEF TimesInv

LEMMA NextInv ==
  ASSUME TimesInv, AlignedStart, InitFirst, [Next]_vars
  PROVE  TimesInv' /\ ClockStep
<1>1. TypeOK /\ Timing /\ NoPeriodMissed /\ SequenceKept
  BY DEF TimesInv
<1>2. TypeOK'
  BY <1>1, NextTypes
<1>3. ASSUME UNCHANGED <<status, ltime, chan, avrecv>>, Timing'
      PROVE  TimesInv' /\ ClockStep
  <2>1. Stream' /\ TimesMatch' /\ ClockStep
    BY <1>3, QuietStep
  <2>2. NoPeriodMissed' /\ SequenceKept'
    BY <1>1, <1>3 DEF NoPeriodMissed, SequenceKept, ExchangedEnds, EndsOf, Started
  <2> QED
    BY <1>2, <1>3, <2>1, <2>2 DEF TimesInv
<1>4. ASSUME UNCHANGED <<pos, status, ltime, chan, avrecv, lcouplertime>>
      PROVE  TimesInv' /\ ClockStep
  <2>1. Timing'
    BY <1>1, <1>4 DEF Timing, InThePast, Waiting, Seen, Running, Started, EndsOf,
                      LagOf
  <2> QED
    BY <1>3, <1>4, <2>1
<1>5. ASSUME NEW p \in Proc, Exchange(p)
      PROVE  TimesInv' /\ ClockStep
  BY <1>2, <1>5, VisitInv DEF Exchange
<1>6. ASSUME NEW p \in Proc, Local(p)
      PROVE  TimesInv' /\ ClockStep
  <2>1. CASE PutHold(p) \/ GetLocal(p)
    BY <1>2, <2>1, VisitInv
  <2>2. CASE Load(p) \/ Check(p)
    <3>1. Timing'
      BY <1>1, <2>2, TimingOther
    <3> QED
      BY <1>3, <2>2, <3>1 DEF Load, Check
  <2>3. CASE Abort(p)
    BY <1>4, <2>3 DEF Abort
  <2> QED
    BY <1>6, <2>1, <2>2, <2>3 DEF Local
<1>7. ASSUME NEW c \in Couplers, SendDone(c)
      PROVE  TimesInv' /\ ClockStep
  BY <1>4, <1>7 DEF SendDone
<1>8. ASSUME NextRun
      PROVE  TimesInv' /\ ClockStep
  <2>1. pos' = Fresh.pos /\ status' = Fresh.status /\ ltime' = Fresh.ltime
        /\ chan' = Fresh.chan
    BY <1>8 DEF NextRun
  <2>2. (/\ pos = Fresh.pos /\ status = Fresh.status /\ ltime = Fresh.ltime
         /\ chan = Fresh.chan /\ TypeOK
         => TimesInv /\ LastSent = Clock!Before /\ Got = Clock!Before)'
    BY StartInv, PTL
  <2>3. TimesInv' /\ LastSent' = Clock!Before /\ Got' = Clock!Before
    BY <1>2, <2>1, <2>2 DEF Fresh
  <2> QED
    BY <2>3 DEF ClockStep, Clock!Next, Clock!NewRun
<1>9. ASSUME UNCHANGED vars
      PROVE  TimesInv' /\ ClockStep
  BY <1>4, <1>9 DEF vars
<1> QED
  BY <1>5, <1>6, <1>7, <1>8, <1>9 DEF Next, Stop

-----------------------------------------------------------------------------
(* The theorems *)

\* For every program that starts its couplings at time 0 and makes the calls of
\* oasis_advance_init first: the inductive invariant.
THEOREM TimesInvariant == AlignedStart /\ InitFirst => (Spec => []TimesInv)
<1> SUFFICES ASSUME AlignedStart, InitFirst
             PROVE  Spec => []TimesInv
  OBVIOUS
<1>1. Init => TimesInv
  <2> SUFFICES ASSUME Init PROVE TimesInv
    OBVIOUS
  <2>1. TypeOK
    BY InitTypes
  <2> QED
    BY <2>1, StartInv DEF Init
<1>2. TimesInv /\ [Next]_vars => TimesInv'
  BY NextInv
<1> QED
  BY <1>1, <1>2, PTL DEF Spec

\* A get at a coupling time receives the message of that coupling time, and no
\* other, however the processes interleave and whatever MPI buffers.
THEOREM DatesMatch == AlignedStart /\ InitFirst => (Spec => []TimesMatch)
<1> SUFFICES ASSUME AlignedStart, InitFirst
             PROVE  Spec => []TimesMatch
  OBVIOUS
<1>1. TimesInv => TimesMatch
  BY DEF TimesInv
<1> QED
  BY <1>1, TimesInvariant, PTL

\* The checks of oasis_advance_run keep the ends of a process within one period
\* of each other.
THEOREM PeriodsKept == AlignedStart /\ InitFirst => (Spec => []NoPeriodMissed)
<1> SUFFICES ASSUME AlignedStart, InitFirst
             PROVE  Spec => []NoPeriodMissed
  OBVIOUS
<1>1. TimesInv => NoPeriodMissed
  BY DEF TimesInv
<1> QED
  BY <1>1, TimesInvariant, PTL

\* They also keep the order of SEQ: of the couplers that have exchanged, a get
\* is never a period ahead of one with a smaller number.
THEOREM OrderKept == AlignedStart /\ InitFirst => (Spec => []SequenceKept)
<1> SUFFICES ASSUME AlignedStart, InitFirst
             PROVE  Spec => []SequenceKept
  OBVIOUS
<1>1. TimesInv => SequenceKept
  BY DEF TimesInv
<1> QED
  BY <1>1, TimesInvariant, PTL

\* oasis_advance_run implements the abstract clock: one send and one receive in
\* every coupling period, the receive after the send, all before the end.
THEOREM ImplementsClock == AlignedStart /\ InitFirst => (Spec => ClockSpec)
<1> SUFFICES ASSUME AlignedStart, InitFirst
             PROVE  Spec => ClockSpec
  OBVIOUS
<1>1. Init => Clock!Init
  <2> SUFFICES ASSUME Init PROVE Clock!Init
    OBVIOUS
  <2>1. TypeOK
    BY InitTypes
  <2>2. LastSent = Clock!Before /\ Got = Clock!Before
    BY <2>1, StartInv DEF Init
  <2> QED
    BY <2>2 DEF Clock!Init
<1>2. TimesInv /\ [Next]_vars => [Clock!Next]_<<LastSent, Got>>
  BY NextInv DEF ClockStep
<1> QED
  BY <1>1, <1>2, TimesInvariant, PTL DEF Spec, ClockSpec, Clock!Spec

-----------------------------------------------------------------------------
(* Multiples *)

\* A multiple of the period is at no distance from it.
LEMMA MultipleMod ==
  ASSUME NEW d \in Nat \ {0}, NEW q \in Int
  PROVE  (d * q) % d = 0
<1> DEFINE x == d * q
           r == x \div d
           m == x % d
<1>1. x \in Int /\ r \in Int /\ m \in 0..(d - 1) /\ x = d * r + m
  OBVIOUS
<1>2. m = d * (q - r)
  BY <1>1
<1>3. CASE q - r >= 1
  <2>1. d * (q - r) >= d
    BY <1>3, <1>1
  <2> QED
    BY <2>1, <1>1, <1>2
<1>4. CASE q - r <= -1
  <2>1. d * (q - r) <= -d
    BY <1>4, <1>1
  <2> QED
    BY <2>1, <1>1, <1>2
<1>5. CASE q - r = 0
  BY <1>2, <1>5
<1> QED
  BY <1>1, <1>3, <1>4, <1>5

\* Nor is it a period later or earlier.
LEMMA ShiftMod ==
  ASSUME NEW d \in Nat \ {0}, NEW x \in Int, x % d = 0
  PROVE  (x + d) % d = 0 /\ (x - d) % d = 0
<1>1. x = d * (x \div d) /\ x \div d \in Int
  BY DivMod
<1>2. PICK q \in Int : x = d * q
  BY <1>1
<1>3. x + d = d * (q + 1) /\ x - d = d * (q - 1)
  BY <1>2
<1> QED
  BY <1>3, MultipleMod

\* The coupling dates are a period apart
LEMMA NextCoupling ==
  ASSUME NEW t \in Int, NEW l \in Int, NEW d \in Nat \ {0}, (t + l) % d = 0
  PROVE  ((t + d) + l) % d = 0 /\ ((t - d) + l) % d = 0
<1>1. PICK x \in Int : x = t + l
  OBVIOUS
<1>2. (x + d) % d = 0 /\ (x - d) % d = 0
  BY <1>1, ShiftMod
<1>3. (t + d) + l = x + d /\ (t - d) + l = x - d
  BY <1>1
<1> QED
  BY <1>2, <1>3

-----------------------------------------------------------------------------
(* The visits of an end so far *)

\* The process of an end, and its script.
LEMMA OwnerFacts ==
  ASSUME NEW e \in Ends
  PROVE  /\ Owner(e) \in Proc /\ e \in EndsOf(Owner(e))
         /\ Script[Owner(e)] \in Seq(Visits \cup Loads \cup Checks)
         /\ DOMAIN Script[Owner(e)] = 1..Len(Script[Owner(e)])
         /\ Len(Script[Owner(e)]) \in Nat
         /\ e = <<e[1], e[2]>> /\ e[1] \in {"put", "get"} /\ e[2] \in Couplers
         /\ LagOf(e) \in Int /\ Nam[e[2]].dt \in Nat \ {0}
<1>1. /\ e[1] \in {"put", "get"} /\ e[2] \in Couplers /\ e = <<e[1], e[2]>>
  BY DEF Ends
<1>2. Owner(e) \in Proc
  BY <1>1, NamAssumption DEF Owner
<1>3. Script[Owner(e)] \in Seq(Visits \cup Loads \cup Checks)
  BY <1>2, ScriptAssumption
<1>4. LagOf(e) \in Int /\ Nam[e[2]].dt \in Nat \ {0}
  BY <1>1, NamFacts DEF LagOf
<1> QED
  BY <1>1, <1>2, <1>3, <1>4 DEF EndsOf

\* A visit that counts has a date
LEMMA VisitDate ==
  ASSUME NEW e \in Ends, NEW f, NEW j \in DOMAIN Script[Owner(e)],
         VisitOf(e, f, Script[Owner(e)][j])
  PROVE  /\ Script[Owner(e)][j].msec \in Int
         /\ Script[Owner(e)][j].rest \in BOOLEAN
         /\ f \in Fields(e[2])
         /\ Script[Owner(e)][j].cpl = e[2] /\ Script[Owner(e)][j].op = e[1]
<1>1. /\ Owner(e) \in Proc /\ Script[Owner(e)] \in Seq(Visits \cup Loads \cup Checks)
      /\ DOMAIN Script[Owner(e)] = 1..Len(Script[Owner(e)])
  BY OwnerFacts
<1> DEFINE s == Script[Owner(e)][j]
<1>2. s \in Visits \cup Loads \cup Checks /\ s.op \in {"put", "get"}
      /\ End(s) = e /\ s.fld = f
  BY <1>1 DEF VisitOf, IsVisit
<1>3. s \in Visits
  BY <1>2 DEF Visits, Loads, Checks
<1>4. s.fld \in Fields(s.cpl)
  BY <1>1, <1>2, ScriptAssumption
<1>5. e[1] = s.op /\ e[2] = s.cpl
  BY <1>2 DEF End
<1> QED
  BY <1>2, <1>3, <1>4, <1>5 DEF Visits

\* A step of a process adds one element to its past, and to no other past.
LEMMA BeforeStep ==
  ASSUME TypeOK, NEW p \in Proc, pos' = [pos EXCEPT ![p] = pos[p] + 1],
         NEW q \in Proc
  PROVE  \A j : j \in 1..(pos'[q] - 1) <=>
                  j \in 1..(pos[q] - 1) \/ (q = p /\ j = pos[p])
<1>1. pos[p] \in Nat \ {0} /\ pos[q] \in Nat \ {0}
  BY DEF TypeOK
<1>2. pos'[q] = IF q = p THEN pos[p] + 1 ELSE pos[q]
  BY DEF TypeOK
<1> QED
  BY <1>1, <1>2

\* A visit that is made is past after it.
LEMMA PastStep ==
  ASSUME TypeOK, NEW p \in Proc, pos' = [pos EXCEPT ![p] = pos[p] + 1],
         NEW e \in Ends, NEW f, NEW t
  PROVE  Past(e, f, t)' <=>
           \/ Past(e, f, t)
           \/ Owner(e) = p /\ VisitOf(e, f, Now(p)) /\ Now(p).msec = t
<1>1. Owner(e) \in Proc
  BY OwnerFacts
<1>2. \A j : j \in 1..(pos'[Owner(e)] - 1) <=>
               j \in 1..(pos[Owner(e)] - 1) \/ (Owner(e) = p /\ j = pos[p])
  BY <1>1, BeforeStep
<1> QED
  BY <1>2 DEF Past, Now, VisitOf, IsVisit, TimeNow, Mseclag, End

\* So are the partial results after they are read.
LEMMA LoadedStep ==
  ASSUME TypeOK, NEW p \in Proc, pos' = [pos EXCEPT ![p] = pos[p] + 1],
         NEW c \in Couplers
  PROVE  Loaded(c)' <=> Loaded(c) \/ (Nam[c].src = p /\ LoadOf(c, Now(p)))
<1>1. Nam[c].src \in Proc
  BY NamFacts, NamAssumption
<1>2. \A j : j \in 1..(pos'[Nam[c].src] - 1) <=>
               j \in 1..(pos[Nam[c].src] - 1) \/ (Nam[c].src = p /\ j = pos[p])
  BY <1>1, BeforeStep
<1> QED
  BY <1>2 DEF Loaded, Now, LoadOf

\* The process p is at the visit of the field g of the end e
AtVisit(e, g) ==
  /\ e \in Ends /\ g \in Fields(e[2])
  /\ pos[Owner(e)] \in DOMAIN Script[Owner(e)]
  /\ VisitOf(e, g, Now(Owner(e)))

\* What was visited before is not later
LEMMA PastOrder ==
  ASSUME NEW e, NEW g, AtVisit(e, g), Forwards(e), NEW f, NEW t, Past(e, f, t)
  PROVE  /\ t \in Int /\ f \in Fields(e[2]) /\ t <= Now(Owner(e)).msec
         /\ f = g => t < Now(Owner(e)).msec
<1>1. PICK i \in 1..(pos[Owner(e)] - 1) :
        VisitOf(e, f, Script[Owner(e)][i]) /\ Script[Owner(e)][i].msec = t
  BY DEF Past
<1>2. /\ e \in Ends /\ pos[Owner(e)] \in DOMAIN Script[Owner(e)]
      /\ VisitOf(e, g, Script[Owner(e)][pos[Owner(e)]]) /\ g \in Fields(e[2])
  BY DEF AtVisit, Now
<1>3. DOMAIN Script[Owner(e)] = 1..Len(Script[Owner(e)]) /\ Len(Script[Owner(e)]) \in Nat
  BY <1>2, OwnerFacts
<1>4. i \in DOMAIN Script[Owner(e)]
  BY <1>2, <1>3
<1>5. t \in Int /\ f \in Fields(e[2])
  BY <1>1, <1>2, <1>4, VisitDate
<1> QED
  BY <1>1, <1>2, <1>5 DEF Forwards, Now

\* What should be visited before was visited
LEMMA PastCovered ==
  ASSUME NEW e, NEW g, AtVisit(e, g), Forwards(e), Covered(e),
         NEW f \in Fields(e[2]), NEW t \in Int, CouplingDate(e, t),
         t < Now(Owner(e)).msec, t < RunTime
  PROVE  Past(e, f, t)
<1>1. /\ e \in Ends /\ pos[Owner(e)] \in DOMAIN Script[Owner(e)]
      /\ VisitOf(e, g, Script[Owner(e)][pos[Owner(e)]]) /\ g \in Fields(e[2])
  BY DEF AtVisit, Now
<1>2. DOMAIN Script[Owner(e)] = 1..Len(Script[Owner(e)]) /\ Len(Script[Owner(e)]) \in Nat
      /\ LagOf(e) \in Int
  BY <1>1, OwnerFacts
<1>3. t \in (-LagOf(e))..(RunTime - 1)
  BY <1>2, NamAssumption DEF CouplingDate
<1>4. PICK j \in DOMAIN Script[Owner(e)] :
        VisitOf(e, f, Script[Owner(e)][j]) /\ Script[Owner(e)][j].msec = t
  BY <1>3 DEF Covered
<1>5. Script[Owner(e)][pos[Owner(e)]].msec \in Int
  BY <1>1, VisitDate
<1>6. CASE j < pos[Owner(e)]
  <2>1. j \in 1..(pos[Owner(e)] - 1)
    BY <1>1, <1>2, <1>4, <1>6
  <2> QED
    BY <1>4, <2>1 DEF Past
<1>7. CASE j = pos[Owner(e)]
  BY <1>4, <1>5, <1>7 DEF Now
<1>8. CASE j > pos[Owner(e)]
  <2>1. pos[Owner(e)] \in 1..(j - 1)
    BY <1>1, <1>2, <1>4, <1>8
  <2>2. Script[Owner(e)][pos[Owner(e)]].msec <= Script[Owner(e)][j].msec
    BY <1>1, <1>4, <2>1 DEF Forwards
  <2> QED
    BY <2>2, <1>4, <1>5 DEF Now
<1> QED
  BY <1>1, <1>2, <1>4, <1>6, <1>7, <1>8

\* What was visited at a coupling date, as a visit
LEMMA CoupledPast ==
  ASSUME NEW e \in Ends, NEW f, NEW t, Past(e, f, t), CouplingDate(e, t)
  PROVE  \E j \in 1..(pos[Owner(e)] - 1) :
           Coupled(e, Script[Owner(e)][j]) /\ Script[Owner(e)][j].msec = t
<1>1. PICK j \in 1..(pos[Owner(e)] - 1) :
        VisitOf(e, f, Script[Owner(e)][j]) /\ Script[Owner(e)][j].msec = t
  BY DEF Past
<1>2. Script[Owner(e)][j].fld = f
  BY <1>1 DEF VisitOf
<1> QED
  BY <1>1, <1>2 DEF Coupled

\* What is past after a step was so before it, or is the step.
LEMMA CoupledStep ==
  ASSUME TypeOK, NEW p \in Proc, pos' = [pos EXCEPT ![p] = pos[p] + 1],
         NEW e \in Ends, NEW j \in 1..(pos'[Owner(e)] - 1)
  PROVE  \/ j \in 1..(pos[Owner(e)] - 1)
         \/ Owner(e) = p /\ Script[Owner(e)][j] = Now(p)
<1>1. Owner(e) \in Proc
  BY OwnerFacts
<1> QED
  BY <1>1, BeforeStep DEF Now

-----------------------------------------------------------------------------
(* How far an end is *)

\* The next date is a coupling date
LEMMA NextIsCoupling ==
  ASSUME TypeOK, NEW e \in Ends
  PROVE  /\ NextDate(e) \in Int
         /\ ~Started(e) => CouplingDate(e, NextDate(e))
         /\ Started(e) /\ CouplingDate(e, ltime[e]) => CouplingDate(e, NextDate(e))
<1>1. LagOf(e) \in Int /\ Nam[e[2]].dt \in Nat \ {0} /\ ltime[e] \in Int
  BY OwnerFacts DEF TypeOK
<1>2. ~Started(e) => CouplingDate(e, NextDate(e))
  BY <1>1 DEF CouplingDate, NextDate
<1>3. ASSUME Started(e), CouplingDate(e, ltime[e])
      PROVE  CouplingDate(e, NextDate(e))
  <2>1. /\ (ltime[e] + LagOf(e)) % Nam[e[2]].dt = 0
        /\ ltime[e] >= -LagOf(e) /\ NextDate(e) = ltime[e] + Nam[e[2]].dt
    BY <1>3 DEF CouplingDate, NextDate
  <2>2. ((ltime[e] + Nam[e[2]].dt) + LagOf(e)) % Nam[e[2]].dt = 0
    BY <1>1, <2>1, NextCoupling
  <2> QED
    BY <1>1, <2>1, <2>2 DEF CouplingDate
<1>4. NextDate(e) \in Int
  BY <1>1 DEF NextDate
<1> QED
  BY <1>2, <1>3, <1>4

\* A visit of one end leaves the progress of the others, and a visit that does
\* not count that of its own
LEMMA ProgressKept ==
  ASSUME TypeOK, NEW p \in Proc, pos' = [pos EXCEPT ![p] = pos[p] + 1],
         NEW e \in Ends,
         Owner(e) = p => ~Coupled(e, Now(p)),
         status'[e] = status[e], ltime'[e] = ltime[e]
  PROVE  /\ PutProgress(e) => PutProgress(e)'
         /\ GetProgress(e) => GetProgress(e)'
<1>1. \A f, t : CouplingDate(e, t) => (Past(e, f, t)' <=> Past(e, f, t))
  <2>1. ASSUME VisitOf(e, Now(p).fld, Now(p)), CouplingDate(e, Now(p).msec)
        PROVE  Owner(e) # p
    BY <2>1 DEF Coupled
  <2>2. \A f : VisitOf(e, f, Now(p)) => Now(p).fld = f
    BY DEF VisitOf
  <2> QED
    BY <2>1, <2>2, PastStep
<1>2. \A j \in 1..(pos'[Owner(e)] - 1) :
        Coupled(e, Script[Owner(e)][j]) => j \in 1..(pos[Owner(e)] - 1)
  BY CoupledStep
<1>3. /\ \A s : Coupled(e, s)' <=> Coupled(e, s)
      /\ \A t : CouplingDate(e, t)' <=> CouplingDate(e, t)
      /\ Started(e)' <=> Started(e)
      /\ NextDate(e)' = NextDate(e) /\ LagOf(e) \in Int /\ Nam[e[2]].dt \in Nat \ {0}
  BY OwnerFacts DEF Coupled, VisitOf, IsVisit, TimeNow, Mseclag, End, CouplingDate,
                    LagOf, Started, NextDate
<1>4. /\ ~Started(e) => CouplingDate(e, NextDate(e))
      /\ Started(e) /\ CouplingDate(e, ltime[e]) => CouplingDate(e, NextDate(e))
  BY NextIsCoupling
<1>5. ASSUME PutProgress(e)
      PROVE  PutProgress(e)'
  BY <1>1, <1>2, <1>3, <1>4, <1>5 DEF PutProgress, Fields, Owner
<1>6. ASSUME GetProgress(e)
      PROVE  GetProgress(e)'
  BY <1>1, <1>2, <1>3, <1>6 DEF GetProgress, Fields, Owner
<1> QED
  BY <1>5, <1>6

\* Two coupling dates that are less than a period apart
LEMMA CouplingApart ==
  ASSUME NEW e \in Ends, NEW t \in Int, NEW u \in Int,
         CouplingDate(e, t), CouplingDate(e, u), t < u
  PROVE  u >= t + Nam[e[2]].dt
<1>1. LagOf(e) \in Int /\ Nam[e[2]].dt \in Nat \ {0}
  BY OwnerFacts
<1>2. PICK x \in Int, y \in Int, d \in Nat \ {0} :
        x = t + LagOf(e) /\ y = u + LagOf(e) /\ d = Nam[e[2]].dt
  BY <1>1
<1>3. x % d = 0 /\ y % d = 0 /\ x < y
  BY <1>1, <1>2 DEF CouplingDate
<1>4. ~(y <= x + d) \/ y = x + d
  BY <1>3, NextMultiple
<1> QED
  BY <1>1, <1>2, <1>4

\* A source end is visited at the next coupling date, and at no other one
LEMMA PutDate ==
  ASSUME TypeOK, NEW e, NEW f, AtVisit(e, f), Forwards(e), Covered(e),
         PutProgress(e), Coupled(e, Now(Owner(e))), Now(Owner(e)).msec < RunTime
  PROVE  /\ Now(Owner(e)).msec = NextDate(e) /\ f \notin status[e]
         /\ \A g \in Fields(e[2]) : Past(e, g, NextDate(e)) <=> g \in status[e]
<1> DEFINE T == Now(Owner(e)).msec
           N == NextDate(e)
<1>1. /\ e \in Ends /\ f \in Fields(e[2]) /\ pos[Owner(e)] \in DOMAIN Script[Owner(e)]
      /\ VisitOf(e, f, Script[Owner(e)][pos[Owner(e)]])
  BY DEF AtVisit, Now
<1>2. T \in Int /\ CouplingDate(e, T)
  BY <1>1, VisitDate DEF Now, Coupled
<1>3. N \in Int /\ CouplingDate(e, N)
  BY <1>1, NextIsCoupling DEF PutProgress
<1>4. /\ status[e] # Fields(e[2]) /\ status[e] \subseteq Fields(e[2])
      /\ \A g \in Fields(e[2]) : g \in status[e] <=> Past(e, g, N)
      /\ Started(e) => CouplingDate(e, ltime[e]) /\ Past(e, f, ltime[e])
  BY <1>1 DEF PutProgress, TypeOK
<1>5. /\ ltime[e] \in Int /\ RunTime \in Int /\ LagOf(e) \in Int
      /\ Nam[e[2]].dt \in Nat \ {0}
      /\ N = IF Started(e) THEN ltime[e] + Nam[e[2]].dt ELSE -LagOf(e)
  BY <1>1, OwnerFacts, NamAssumption DEF TypeOK, NextDate
<1> HIDE DEF N
<1>6. ~(T > N)
  <2> SUFFICES ASSUME T > N
               PROVE  FALSE
    OBVIOUS
  <2>1. \A g \in Fields(e[2]) : Past(e, g, N)
    <3>1. N < RunTime
      BY <1>2, <1>3, <1>5
    <3> QED
      BY <3>1, <1>3, PastCovered
  <2> QED
    BY <2>1, <1>4
<1>7. ~(T < N)
  <2> SUFFICES ASSUME T < N
               PROVE  FALSE
    OBVIOUS
  <2>1. CASE Started(e)
    <3>1. ltime[e] < T
      BY <1>4, <2>1, PastOrder
    <3>2. T >= ltime[e] + Nam[e[2]].dt
      BY <1>1, <1>2, <1>4, <1>5, <2>1, <3>1, CouplingApart
    <3> QED
      BY <3>2, <1>2, <1>5, <2>1
  <2>2. CASE ~Started(e)
    BY <1>2, <1>5, <2>2 DEF CouplingDate
  <2> QED
    BY <2>1, <2>2
<1>8. T = N
  BY <1>2, <1>3, <1>6, <1>7
<1>9. f \notin status[e]
  <2>1. ~Past(e, f, N)
    <3>1. Past(e, f, N) => N < T
      BY PastOrder
    <3> QED
      BY <3>1, <1>8, <1>2
  <2> QED
    BY <2>1, <1>1, <1>4
<1> QED
  BY <1>4, <1>8, <1>9 DEF N

\* A put at a coupling date keeps the progress of its source end: the date is the
\* next one, and the end goes on when the last field of the coupler is put.
LEMMA PutProgressVisit ==
  ASSUME TypeOK, TypeOK', NEW e, NEW f, AtVisit(e, f), Forwards(e), Covered(e),
         PutProgress(e), Coupled(e, Now(Owner(e))), Now(Owner(e)).msec < RunTime,
         Now(Owner(e)).msec # ISPVAL,
         pos' = [pos EXCEPT ![Owner(e)] = pos[Owner(e)] + 1],
         IF status[e] \cup {f} = Fields(e[2])
         THEN ltime'[e] = Now(Owner(e)).msec /\ status'[e] = {}
         ELSE ltime'[e] = ltime[e] /\ status'[e] = status[e] \cup {f}
  PROVE  PutProgress(e)'
<1>1. PICK T, N : T = Now(Owner(e)).msec /\ N = NextDate(e)
  OBVIOUS
<1>2. /\ e \in Ends /\ f \in Fields(e[2]) /\ pos[Owner(e)] \in DOMAIN Script[Owner(e)]
      /\ VisitOf(e, f, Script[Owner(e)][pos[Owner(e)]]) /\ VisitOf(e, f, Now(Owner(e)))
      /\ Owner(e) \in Proc
  BY OwnerFacts DEF AtVisit, Now
<1>3. T \in Int /\ CouplingDate(e, T)
  BY <1>1, <1>2, VisitDate DEF Now, Coupled
<1>4. T = N /\ \A g \in Fields(e[2]) : Past(e, g, N) <=> g \in status[e]
  BY <1>1, PutDate
<1>5. \A g, t : Past(e, g, t)' <=> Past(e, g, t) \/ (g = f /\ t = T)
  <2>1. \A g : VisitOf(e, g, Now(Owner(e))) <=> g = f
    BY <1>2 DEF VisitOf
  <2>2. \A g, t : Past(e, g, t)' <=>
           Past(e, g, t) \/ (VisitOf(e, g, Now(Owner(e))) /\ Now(Owner(e)).msec = t)
    BY <1>2, PastStep
  <2> QED
    BY <2>1, <2>2, <1>1
<1>6. \A j \in 1..(pos'[Owner(e)] - 1) :
        j \in 1..(pos[Owner(e)] - 1) \/ Script[Owner(e)][j].msec = T
  BY <1>1, <1>2, CoupledStep
<1>7. /\ \A s : Coupled(e, s)' <=> Coupled(e, s)
      /\ \A t : CouplingDate(e, t)' <=> CouplingDate(e, t)
      /\ LagOf(e) \in Int /\ Nam[e[2]].dt \in Nat \ {0}
      /\ ltime[e] \in Int
  BY <1>2, OwnerFacts DEF Coupled, VisitOf, IsVisit, TimeNow, Mseclag, End,
                          CouplingDate, LagOf, TypeOK
<1>8. CASE status[e] \cup {f} = Fields(e[2])
  <2>1. /\ Started(e)' /\ ltime'[e] = T /\ status'[e] = {}
        /\ NextDate(e)' = T + Nam[e[2]].dt
    BY <1>1, <1>8 DEF Started, NextDate
  <2>2. \A g \in Fields(e[2]) : Past(e, g, T)'
    BY <1>4, <1>5, <1>8
  <2>3. \A g : ~Past(e, g, T + Nam[e[2]].dt)'
    <3>1. ASSUME NEW g, Past(e, g, T + Nam[e[2]].dt)
          PROVE  FALSE
      <4>1. T + Nam[e[2]].dt <= T
        BY <1>1, <3>1, PastOrder
      <4> QED
        BY <4>1, <1>3, <1>7
    <3>2. T + Nam[e[2]].dt # T
      <4>1. Nam[e[2]].dt \in Nat \ {0}
        BY <1>7
      <4> QED
        BY <4>1, <1>3
    <3> QED
      BY <3>1, <3>2, <1>5
  <2>4. ASSUME NEW j \in 1..(pos'[Owner(e)] - 1), Coupled(e, Script[Owner(e)][j])
        PROVE  Script[Owner(e)][j].msec <= T + Nam[e[2]].dt
    <3>1. CASE j \in 1..(pos[Owner(e)] - 1)
      <4>1. Past(e, Script[Owner(e)][j].fld, Script[Owner(e)][j].msec)
        BY <2>4, <3>1 DEF Past, Coupled
      <4>2. Script[Owner(e)][j].msec \in Int /\ Script[Owner(e)][j].msec <= T
        BY <4>1, <1>1, PastOrder
      <4> QED
        BY <4>2, <1>3, <1>7
    <3>2. CASE Script[Owner(e)][j].msec = T
      BY <3>2, <1>3, <1>7
    <3> QED
      BY <3>1, <3>2, <1>6
  <2>5. {} # Fields(e[2])
    BY <1>2
  <2> QED
    BY <2>1, <2>2, <2>3, <2>4, <2>5, <1>3, <1>7 DEF PutProgress, Fields, Owner
<1>9. CASE status[e] \cup {f} # Fields(e[2])
  <2>1. /\ Started(e)' <=> Started(e)
        /\ ltime'[e] = ltime[e] /\ status'[e] = status[e] \cup {f}
        /\ NextDate(e)' = N
    BY <1>1, <1>7, <1>9 DEF Started, NextDate, LagOf
  <2>2. \A g \in Fields(e[2]) : Past(e, g, N)' <=> g \in status'[e]
    BY <1>4, <1>5, <2>1
  <2>3. \A j \in 1..(pos'[Owner(e)] - 1) :
          Coupled(e, Script[Owner(e)][j]) => Script[Owner(e)][j].msec <= N
    BY <1>1, <1>3, <1>4, <1>6 DEF PutProgress
  <2>4. \A g, t : Past(e, g, t) => Past(e, g, t)'
    BY <1>5
  <2> QED
    BY <2>1, <2>2, <2>3, <2>4, <1>7, <1>9 DEF PutProgress, Fields, Owner
<1> QED
  BY <1>8, <1>9

\* A target end is visited at its last date, by a field that was not, or later
LEMMA GetDate ==
  ASSUME TypeOK, NEW e, NEW f, AtVisit(e, f), Forwards(e), Covered(e),
         GetProgress(e), Coupled(e, Now(Owner(e))), Now(Owner(e)).msec < RunTime
  PROVE  IF status[e] = Fields(e[2])
         THEN Started(e) => ltime[e] < Now(Owner(e)).msec
         ELSE /\ Started(e) /\ ltime[e] = Now(Owner(e)).msec
              /\ f \notin status[e]
<1> DEFINE T == Now(Owner(e)).msec
<1>1. /\ e \in Ends /\ f \in Fields(e[2]) /\ pos[Owner(e)] \in DOMAIN Script[Owner(e)]
      /\ VisitOf(e, f, Script[Owner(e)][pos[Owner(e)]])
  BY DEF AtVisit, Now
<1>2. T \in Int /\ CouplingDate(e, T)
  BY <1>1, VisitDate DEF Now, Coupled
<1>3. ltime[e] \in Int /\ RunTime \in Int /\ status[e] \subseteq Fields(e[2])
  BY <1>1, NamAssumption DEF TypeOK
<1>4. ASSUME Started(e)
      PROVE  /\ CouplingDate(e, ltime[e]) /\ ltime[e] <= T
             /\ \A g \in Fields(e[2]) : g \in status[e] <=> Past(e, g, ltime[e])
  <2>1. PICK g \in Fields(e[2]) : Past(e, g, ltime[e])
    BY <1>4 DEF GetProgress
  <2>2. ltime[e] <= T
    BY <2>1, PastOrder
  <2> QED
    BY <2>2, <1>4 DEF GetProgress
<1>5. CASE status[e] = Fields(e[2])
  <2>1. ASSUME Started(e)
        PROVE  ltime[e] < T
    <3>1. Past(e, f, ltime[e])
      BY <1>1, <1>4, <1>5, <2>1
    <3> QED
      BY <3>1, PastOrder
  <2> QED
    BY <2>1, <1>5
<1>6. CASE status[e] # Fields(e[2])
  <2>1. Started(e)
    BY <1>6 DEF GetProgress
  <2>2. ~(ltime[e] < T)
    <3> SUFFICES ASSUME ltime[e] < T
                 PROVE  FALSE
      OBVIOUS
    <3>1. ltime[e] < RunTime
      BY <1>2, <1>3
    <3>2. \A g \in Fields(e[2]) : Past(e, g, ltime[e])
      BY <1>3, <1>4, <2>1, <3>1, PastCovered
    <3> QED
      BY <3>2, <1>3, <1>4, <1>6, <2>1
  <2>3. ltime[e] = T
    BY <2>2, <1>2, <1>3, <1>4, <2>1
  <2>4. f \notin status[e]
    <3>1. Past(e, f, T) => T < T
      BY PastOrder
    <3> QED
      BY <3>1, <1>1, <1>2, <1>4, <2>1, <2>3
  <2> QED
    BY <2>1, <2>3, <2>4, <1>6
<1> QED
  BY <1>5, <1>6

\* A get at a coupling date keeps the progress of its target end: the first field
\* that is got goes on to the next date, the others join it.
LEMMA GetProgressVisit ==
  ASSUME TypeOK, TypeOK', NEW e, NEW f, AtVisit(e, f), Forwards(e), Covered(e),
         GetProgress(e), Coupled(e, Now(Owner(e))), Now(Owner(e)).msec < RunTime,
         Now(Owner(e)).msec # ISPVAL,
         pos' = [pos EXCEPT ![Owner(e)] = pos[Owner(e)] + 1],
         IF status[e] = Fields(e[2])
         THEN ltime'[e] = Now(Owner(e)).msec /\ status'[e] = {f}
         ELSE ltime'[e] = ltime[e] /\ status'[e] = status[e] \cup {f}
  PROVE  GetProgress(e)'
<1>1. PICK T : T = Now(Owner(e)).msec
  OBVIOUS
<1>2. /\ e \in Ends /\ f \in Fields(e[2]) /\ pos[Owner(e)] \in DOMAIN Script[Owner(e)]
      /\ VisitOf(e, f, Script[Owner(e)][pos[Owner(e)]]) /\ VisitOf(e, f, Now(Owner(e)))
      /\ Owner(e) \in Proc
  BY OwnerFacts DEF AtVisit, Now
<1>3. T \in Int /\ CouplingDate(e, T)
  BY <1>1, <1>2, VisitDate DEF Now, Coupled
<1>4. IF status[e] = Fields(e[2])
      THEN Started(e) => ltime[e] < T
      ELSE Started(e) /\ ltime[e] = T /\ f \notin status[e]
  BY <1>1, GetDate
<1>5. \A g, t : Past(e, g, t)' <=> Past(e, g, t) \/ (g = f /\ t = T)
  <2>1. \A g : VisitOf(e, g, Now(Owner(e))) <=> g = f
    BY <1>2 DEF VisitOf
  <2>2. \A g, t : Past(e, g, t)' <=>
           Past(e, g, t) \/ (VisitOf(e, g, Now(Owner(e))) /\ Now(Owner(e)).msec = t)
    BY <1>2, PastStep
  <2> QED
    BY <2>1, <2>2, <1>1
<1>6. \A j \in 1..(pos'[Owner(e)] - 1) :
        j \in 1..(pos[Owner(e)] - 1) \/ Script[Owner(e)][j].msec = T
  BY <1>1, <1>2, CoupledStep
<1>7. /\ \A s : Coupled(e, s)' <=> Coupled(e, s)
      /\ \A t : CouplingDate(e, t)' <=> CouplingDate(e, t)
  BY DEF Coupled, VisitOf, IsVisit, TimeNow, Mseclag, End, CouplingDate, LagOf
<1>8. ltime[e] \in Int /\ status[e] \subseteq Fields(e[2])
  BY <1>2 DEF TypeOK
<1>9. /\ Started(e)' /\ ltime'[e] = T
      /\ status'[e] = IF status[e] = Fields(e[2]) THEN {f} ELSE status[e] \cup {f}
  BY <1>1, <1>4 DEF Started
<1>10. \A g \in Fields(e[2]) : Past(e, g, T)' <=> g \in status'[e]
  <2>1. CASE status[e] = Fields(e[2])
    <3>1. \A g : ~Past(e, g, T)
      <4>1. ASSUME NEW g, Past(e, g, T)
            PROVE  FALSE
        <5>1. PICK j \in 1..(pos[Owner(e)] - 1) :
                Coupled(e, Script[Owner(e)][j]) /\ Script[Owner(e)][j].msec = T
          BY <1>2, <1>3, <4>1, CoupledPast
        <5>2. Started(e) /\ T <= ltime[e]
          BY <5>1 DEF GetProgress
        <5> QED
          BY <5>2, <1>3, <1>4, <1>8, <2>1
      <4> QED
        BY <4>1
    <3> QED
      BY <3>1, <1>5, <1>9, <2>1
  <2>2. CASE status[e] # Fields(e[2])
    <3>1. \A g \in Fields(e[2]) : g \in status[e] <=> Past(e, g, T)
      BY <1>4, <2>2 DEF GetProgress
    <3> QED
      BY <3>1, <1>5, <1>9, <2>2
  <2> QED
    BY <2>1, <2>2
<1>11. ASSUME NEW j \in 1..(pos'[Owner(e)] - 1), Coupled(e, Script[Owner(e)][j])
       PROVE  Script[Owner(e)][j].msec <= T
  <2>1. CASE j \in 1..(pos[Owner(e)] - 1)
    <3>1. Past(e, Script[Owner(e)][j].fld, Script[Owner(e)][j].msec)
      BY <1>11, <2>1 DEF Past, Coupled
    <3> QED
      BY <3>1, <1>1, PastOrder
  <2>2. CASE Script[Owner(e)][j].msec = T
    BY <2>2, <1>3
  <2> QED
    BY <2>1, <2>2, <1>6
<1>12. \E g \in Fields(e[2]) : Past(e, g, T)'
  BY <1>2, <1>5
<1> QED
  BY <1>3, <1>7, <1>9, <1>10, <1>11, <1>12 DEF GetProgress, Fields, Owner

-----------------------------------------------------------------------------
(* The steps of the couplings *)

\* A visit in a regular program
LEMMA RegularVisit ==
  ASSUME TypeOK, Regular, NEW p, Visiting(p), Now(p).cpl \in Exchanged
  PROVE  LET s == Now(p) e == End(Now(p)) IN
         /\ e \in Ends /\ Owner(e) = p /\ e[1] = s.op /\ e[2] = s.cpl
         /\ s.fld \in Fields(e[2]) /\ s.msec \in Int /\ s.msec < RunTime
         /\ Forwards(e) /\ Covered(e)
         /\ (s.rest => TimeNow(s)) => AtVisit(e, s.fld)
         /\ Coupled(e, s) <=> TimeNow(s)
<1> DEFINE s == Now(p)
           e == End(s)
           c == s.cpl
<1>1. /\ p \in Proc /\ IsVisit(s) /\ c \in Couplers /\ s.msec \in Int
      /\ s.fld \in Fields(c) /\ e \in EndsOf(p) /\ e = <<s.op, c>>
      /\ Mseclag(s) = s.msec + LagOf(e)
      /\ pos[p] \in DOMAIN Script[p] /\ s = Script[p][pos[p]]
  BY VisitingFacts
<1>2. e \in Ends /\ Owner(e) = p /\ e[1] = s.op /\ e[2] = c
  BY <1>1, EndFacts
<1>3. /\ Nam[c].dt \in Nat \ {0} /\ Nam[c].lag \in Int /\ RunTime \in Nat
      /\ s.op \in {"put", "get"}
  BY <1>1, NamAssumption DEF IsVisit
<1>4. s.msec < RunTime
  BY <1>1, <1>3 DEF Visiting, Rejected, BeyondEnd
<1>5. PutsRegular(c) /\ GetsRegular(c)
  BY DEF Regular
<1>6. Forwards(e) /\ Covered(e)
  BY <1>1, <1>3, <1>5 DEF PutsRegular, GetsRegular
<1> HIDE DEF e
<1>7. TimeNow(s) <=> (s.msec + LagOf(e)) % Nam[c].dt = 0
  BY <1>1 DEF TimeNow
<1>8. TimeNow(s) => s.msec >= -LagOf(e)
  <2> SUFFICES ASSUME TimeNow(s)
               PROVE  s.msec >= -LagOf(e)
    OBVIOUS
  <2>1. CASE s.op = "put"
    <3>1. LagOf(e) = Nam[c].lag /\ Nam[c].src = p
      BY <1>2, <2>1 DEF LagOf, Owner
    <3>2. CASE s.rest
      <4>1. s.msec = -Nam[c].lag
        BY <1>1, <1>5, <2>1, <3>1, <3>2 DEF PutsRegular, Restarts
      <4> QED
        BY <4>1, <3>1, <1>3
    <3>3. CASE ~s.rest
      <4>1. s.msec \in 0..(RunTime - 1) /\ Nam[c].lag > -Nam[c].dt
        BY <1>1, <1>5, <2>1, <3>1, <3>3 DEF PutsRegular, Restarts, LagInRange
      <4>2. PICK x \in Int, d \in Nat \ {0} : x = s.msec + LagOf(e) /\ d = Nam[c].dt
        <5>1. s.msec \in Int /\ Nam[c].dt \in Nat \ {0} /\ LagOf(e) \in Int
          BY <1>1, <1>3, <3>1
        <5> QED
          BY <5>1
      <4>3. x % d = 0 /\ x > -d
        BY <1>3, <1>7, <3>1, <4>1, <4>2
      <4>4. ~(x < 0)
        <5> SUFFICES ASSUME x < 0
                     PROVE  FALSE
          OBVIOUS
        <5>1. 0 % d = 0 /\ 0 <= x + d
          BY <4>3
        <5>2. 0 = x + d
          BY <4>3, <5>1, NextMultiple
        <5> QED
          BY <5>2, <4>3
      <4> QED
        <5>1. s.msec \in Int /\ LagOf(e) \in Int
          BY <1>1, <1>3, <3>1
        <5>2. s.msec + LagOf(e) >= 0
          BY <4>2, <4>4
        <5> QED
          BY <5>1, <5>2
    <3> QED
      BY <3>2, <3>3
  <2>2. CASE s.op = "get"
    <3>1. LagOf(e) = 0 /\ Nam[c].dst = p
      BY <1>2, <2>2 DEF LagOf, Owner
    <3>2. s.msec >= 0
      BY <1>1, <1>5, <2>2, <3>1 DEF GetsRegular, e
    <3> QED
      BY <3>1, <3>2, <1>1
  <2> QED
    BY <2>1, <2>2, <1>3
<1>9. VisitOf(e, s.fld, s) <=> (s.rest => TimeNow(s))
  BY <1>1 DEF VisitOf, e
<1>10. Coupled(e, s) <=> TimeNow(s)
  BY <1>2, <1>7, <1>8, <1>9 DEF Coupled, CouplingDate
<1>11. (s.rest => TimeNow(s)) => AtVisit(e, s.fld)
  BY <1>1, <1>2, <1>9 DEF AtVisit
<1> QED
  BY <1>1, <1>2, <1>4, <1>6, <1>10, <1>11 DEF e

\* A step that is no visit of an end is at none of its coupling dates.
LEMMA NotCoupled ==
  ASSUME NEW p, NEW e, ~IsVisit(Now(p)) \/ End(Now(p)) # e
  PROVE  ~Coupled(e, Now(p))
BY DEF Coupled, VisitOf

\* What a put does to its end
LEMMA PutEffect ==
  ASSUME TypeOK, NEW p \in Proc, PutHold(p) \/ PutSend(p) \/ PutFile(p)
  PROVE  LET s == Now(p) e == End(Now(p)) IN
         /\ Visiting(p) /\ s.op = "put"
         /\ pos' = [pos EXCEPT ![p] = pos[p] + 1]
         /\ ltime' = IF CommNow(s) THEN [ltime EXCEPT ![e] = s.msec] ELSE ltime
         /\ status' = [status EXCEPT ![e] = IF CommNow(s) THEN {} ELSE ReadyFields(s)]
<1>1. CASE PutHold(p)
  BY <1>1 DEF PutHold, Visiting, Visited, Advances, Runs
<1>2. CASE PutSend(p)
  BY <1>2 DEF PutSend, Visiting, Visited, Advances, ResetPut, Runs
<1>3. CASE PutFile(p)
  BY <1>3 DEF PutFile, Visiting, Visited, Advances, ResetPut, Runs
<1> QED
  BY <1>1, <1>2, <1>3

\* What a get does to its end
LEMMA GetEffect ==
  ASSUME TypeOK, NEW p \in Proc, GetRecv(p) \/ GetLocal(p)
  PROVE  LET s == Now(p) e == End(Now(p)) IN
         /\ Visiting(p) /\ s.op = "get"
         /\ pos' = [pos EXCEPT ![p] = pos[p] + 1]
         /\ ltime' = IF CommNow(s) THEN [ltime EXCEPT ![e] = s.msec] ELSE ltime
         /\ status' = [status EXCEPT ![e] = IF CommNow(s) THEN {s.fld}
                         ELSE IF TimeNow(s) THEN status[e] \cup {s.fld} ELSE status[e]]
         /\ CommNow(s) <=> TimeNow(s) /\ status[e] = Fields(s.cpl)
<1>1. Runs(p, {"get"}) => (CommNow(Now(p)) <=>
                           TimeNow(Now(p)) /\ status[End(Now(p))] = Fields(Now(p).cpl))
  BY DEF CommNow, ReadyFields, Runs
<1>2. CASE GetRecv(p)
  BY <1>1, <1>2 DEF GetRecv, Visiting, Visited, Advances, Runs
<1>3. CASE GetLocal(p)
  <2>1. CommNow(Now(p)) => TimeNow(Now(p))
    BY DEF CommNow
  <2> QED
    BY <1>1, <1>3, <2>1 DEF GetLocal, Visiting, Visited, Advances, Runs
<1> QED
  BY <1>2, <1>3

\* Every put and get keeps the progress of all the ends.
LEMMA ProgressVisit ==
  ASSUME TypeOK, TypeOK', Regular, PutProgresses, GetProgresses, NEW p \in Proc,
         PutHold(p) \/ PutSend(p) \/ PutFile(p) \/ GetRecv(p) \/ GetLocal(p)
  PROVE  PutProgresses' /\ GetProgresses'
<1>0. PICK s, n : s = Now(p) /\ n = End(s)
  OBVIOUS
<1>1. /\ Visiting(p) /\ pos' = [pos EXCEPT ![p] = pos[p] + 1]
      /\ ltime' = IF CommNow(s) THEN [ltime EXCEPT ![n] = s.msec] ELSE ltime
      /\ status' = [status EXCEPT ![n] = status'[n]]
  <2>1. CASE PutHold(p) \/ PutSend(p) \/ PutFile(p)
    BY <1>0, <2>1, PutEffect DEF TypeOK
  <2>2. CASE GetRecv(p) \/ GetLocal(p)
    BY <1>0, <2>2, GetEffect DEF TypeOK
  <2> QED
    BY <2>1, <2>2
<1>2. s.msec \in Int /\ s.msec # ISPVAL /\ n = <<s.op, s.cpl>> /\ n \in Ends
  BY <1>0, <1>1, VisitingFacts, EndFacts
<1>3. ASSUME NEW c \in Exchanged, NEW e \in {<<"put", c>>, <<"get", c>>},
             e # n \/ ~TimeNow(s)
      PROVE  (PutProgress(e) => PutProgress(e)') /\ (GetProgress(e) => GetProgress(e)')
  <2>1. e \in Ends /\ c \in Couplers /\ e[2] = c
    BY DEF Ends, Exchanged
  <2>2. ~Coupled(e, s)
    <3>1. CASE e # n
      BY <1>0, <3>1, NotCoupled
    <3>2. CASE e = n /\ ~TimeNow(s)
      <4>1. s.cpl = c
        BY <1>2, <3>2
      <4> QED
        BY <1>0, <1>1, <3>2, <4>1, RegularVisit
    <3> QED
      BY <3>1, <3>2, <1>3
  <2>3. ltime'[e] = ltime[e]
    BY <1>0, <1>1, <1>2, <1>3, <2>1 DEF TypeOK, CommNow
  <2>4. status'[e] = status[e]
    <3>1. CASE e # n
      BY <1>1, <2>1, <3>1 DEF TypeOK
    <3>2. CASE e = n /\ ~TimeNow(s)
      <4>1. CASE PutHold(p) \/ PutSend(p) \/ PutFile(p)
        <5>1. status' = [status EXCEPT ![n] = IF CommNow(s) THEN {} ELSE ReadyFields(s)]
          BY <1>0, <4>1, PutEffect
        <5>2. ~CommNow(s) /\ ReadyFields(s) = status[n]
          BY <1>0, <3>2 DEF CommNow, ReadyFields
        <5> QED
          BY <2>1, <3>2, <5>1, <5>2 DEF TypeOK
      <4>2. CASE GetRecv(p) \/ GetLocal(p)
        BY <1>0, <1>2, <2>1, <3>2, <4>2, GetEffect DEF TypeOK
      <4> QED
        BY <4>1, <4>2
    <3> QED
      BY <3>1, <3>2, <1>3
  <2> QED
    BY <1>0, <1>1, <2>1, <2>2, <2>3, <2>4, ProgressKept
<1>4. ASSUME s.cpl \in Exchanged, TimeNow(s), s.op = "put"
      PROVE  PutProgress(n)'
  <2>1. PutHold(p) \/ PutSend(p) \/ PutFile(p)
    BY <1>0, <1>4, GetEffect
  <2>2. /\ Owner(n) = p /\ AtVisit(n, s.fld) /\ Forwards(n) /\ Covered(n)
        /\ Coupled(n, s) /\ s.msec < RunTime /\ n[2] = s.cpl
    BY <1>0, <1>1, <1>4, RegularVisit
  <2>3. PutProgress(n)
    BY <1>2, <1>4 DEF PutProgresses
  <2>4. CommNow(s) <=> status[n] \cup {s.fld} = Fields(n[2])
    BY <1>0, <1>4, <2>2 DEF CommNow, ReadyFields
  <2>5. IF CommNow(s) THEN ltime'[n] = s.msec /\ status'[n] = {}
                      ELSE ltime'[n] = ltime[n] /\ status'[n] = status[n] \cup {s.fld}
    <3>1. /\ ltime' = IF CommNow(s) THEN [ltime EXCEPT ![n] = s.msec] ELSE ltime
          /\ status' = [status EXCEPT ![n] = IF CommNow(s) THEN {} ELSE ReadyFields(s)]
      BY <1>0, <2>1, PutEffect
    <3>2. ReadyFields(s) = status[n] \cup {s.fld}
      BY <1>0, <1>4 DEF ReadyFields
    <3> QED
      BY <1>2, <3>1, <3>2 DEF TypeOK
  <2>6. IF status[n] \cup {s.fld} = Fields(n[2])
        THEN ltime'[n] = s.msec /\ status'[n] = {}
        ELSE ltime'[n] = ltime[n] /\ status'[n] = status[n] \cup {s.fld}
    BY <2>4, <2>5
  <2> QED
    BY <1>0, <1>1, <1>2, <2>2, <2>3, <2>6, PutProgressVisit
<1>5. ASSUME s.cpl \in Exchanged, TimeNow(s), s.op = "get"
      PROVE  GetProgress(n)'
  <2>1. GetRecv(p) \/ GetLocal(p)
    BY <1>0, <1>5, PutEffect
  <2>2. /\ Owner(n) = p /\ AtVisit(n, s.fld) /\ Forwards(n) /\ Covered(n)
        /\ Coupled(n, s) /\ s.msec < RunTime /\ n[2] = s.cpl
    BY <1>0, <1>1, <1>5, RegularVisit
  <2>3. GetProgress(n)
    BY <1>2, <1>5 DEF GetProgresses
  <2>4. CommNow(s) <=> status[n] = Fields(n[2])
    BY <1>0, <1>5, <2>1, <2>2, GetEffect
  <2>5. IF CommNow(s) THEN ltime'[n] = s.msec /\ status'[n] = {s.fld}
                      ELSE ltime'[n] = ltime[n] /\ status'[n] = status[n] \cup {s.fld}
    <3>1. /\ ltime' = IF CommNow(s) THEN [ltime EXCEPT ![n] = s.msec] ELSE ltime
          /\ status' = [status EXCEPT ![n] = IF CommNow(s) THEN {s.fld}
                         ELSE IF TimeNow(s) THEN status[n] \cup {s.fld} ELSE status[n]]
      BY <1>0, <2>1, GetEffect
    <3> QED
      BY <1>2, <1>5, <3>1 DEF TypeOK
  <2>6. IF status[n] = Fields(n[2])
        THEN ltime'[n] = s.msec /\ status'[n] = {s.fld}
        ELSE ltime'[n] = ltime[n] /\ status'[n] = status[n] \cup {s.fld}
    BY <2>4, <2>5
  <2> QED
    BY <1>0, <1>1, <1>2, <2>2, <2>3, <2>6, GetProgressVisit
<1>6. ASSUME NEW c \in Exchanged
      PROVE  PutProgress(<<"put", c>>)' /\ GetProgress(<<"get", c>>)'
  <2>1. PutProgress(<<"put", c>>) /\ GetProgress(<<"get", c>>)
    BY DEF PutProgresses, GetProgresses
  <2>2. PutProgress(<<"put", c>>)'
    <3>1. CASE <<"put", c>> # n \/ ~TimeNow(s)
      BY <1>3, <2>1, <3>1
    <3>2. CASE <<"put", c>> = n /\ TimeNow(s)
      BY <1>2, <1>4, <3>2
    <3> QED
      BY <3>1, <3>2
  <2>3. GetProgress(<<"get", c>>)'
    <3>1. CASE <<"get", c>> # n \/ ~TimeNow(s)
      BY <1>3, <2>1, <3>1
    <3>2. CASE <<"get", c>> = n /\ TimeNow(s)
      BY <1>2, <1>5, <3>2
    <3> QED
      BY <3>1, <3>2
  <2> QED
    BY <2>2, <2>3
<1> QED
  BY <1>6 DEF PutProgresses, GetProgresses, Exchanged

\* So does a step that visits nothing.
LEMMA ProgressSame ==
  ASSUME UNCHANGED <<pos, status, ltime>>, PutProgresses, GetProgresses
  PROVE  PutProgresses' /\ GetProgresses'
<1>1. ASSUME NEW e
      PROVE  (PutProgress(e)' <=> PutProgress(e)) /\ (GetProgress(e)' <=> GetProgress(e))
  <2>1. /\ \A f, t : Past(e, f, t)' <=> Past(e, f, t)
        /\ \A s : Coupled(e, s)' <=> Coupled(e, s)
        /\ \A t : CouplingDate(e, t)' <=> CouplingDate(e, t)
        /\ Started(e)' <=> Started(e)
        /\ NextDate(e)' = NextDate(e)
    BY DEF Past, Coupled, VisitOf, IsVisit, TimeNow, Mseclag, End, CouplingDate,
           LagOf, Started, NextDate, Owner
  <2> QED
    BY <2>1 DEF PutProgress, GetProgress, Fields, Owner
<1> QED
  BY <1>1 DEF PutProgresses, GetProgresses, Exchanged

\* At the start of a run no end has a past.
LEMMA ProgressStart ==
  ASSUME TypeOK, pos = Fresh.pos, status = Fresh.status, ltime = Fresh.ltime
  PROVE  PutProgresses /\ GetProgresses
<1>1. ASSUME NEW c \in Exchanged, NEW e \in {<<"put", c>>, <<"get", c>>}
      PROVE  /\ e \in Ends /\ ~Started(e) /\ e[2] \in Couplers
             /\ status[e] = IF e[1] = "put" THEN {} ELSE Fields(e[2])
             /\ 1..(pos[Owner(e)] - 1) = {}
  <2>1. e \in Ends
    BY DEF Ends, Exchanged
  <2>2. pos[Owner(e)] = 1
    BY <2>1, OwnerFacts DEF Fresh
  <2> QED
    BY <2>1, <2>2, OwnerFacts DEF Fresh, Started
<1>2. ASSUME NEW c \in Exchanged
      PROVE  Fields(c) # {}
  BY NamFacts DEF Fields, Exchanged
<1>3. ASSUME NEW c \in Exchanged
      PROVE  PutProgress(<<"put", c>>)
  BY <1>1, <1>2 DEF PutProgress, Past
<1>4. ASSUME NEW c \in Exchanged
      PROVE  GetProgress(<<"get", c>>)
  BY <1>1, <1>2 DEF GetProgress
<1> QED
  BY <1>3, <1>4 DEF PutProgresses, GetProgresses

\* The progress of the ends is inductive.
LEMMA ProgressNext ==
  ASSUME TypeOK, TypeOK', Regular, PutProgresses, GetProgresses, [Next]_vars
  PROVE  PutProgresses' /\ GetProgresses'
<1>1. ASSUME NEW p \in Proc, Exchange(p) \/ PutHold(p) \/ GetLocal(p)
      PROVE  PutProgresses' /\ GetProgresses'
  BY <1>1, ProgressVisit DEF Exchange
<1>2. ASSUME NEW p \in Proc, Load(p) \/ Check(p)
      PROVE  PutProgresses' /\ GetProgresses'
  <2>1. /\ pos' = [pos EXCEPT ![p] = pos[p] + 1] /\ UNCHANGED <<status, ltime>>
        /\ ~IsVisit(Now(p))
    BY <1>2 DEF Load, Check, Advances, Runs, IsVisit
  <2>2. ASSUME NEW c \in Exchanged, NEW e \in {<<"put", c>>, <<"get", c>>}
        PROVE  (PutProgress(e) => PutProgress(e)') /\ (GetProgress(e) => GetProgress(e)')
    <3>1. e \in Ends
      BY DEF Ends, Exchanged
    <3>2. ~Coupled(e, Now(p))
      BY <2>1, NotCoupled
    <3> QED
      BY <2>1, <3>1, <3>2, ProgressKept
  <2> QED
    BY <2>2 DEF PutProgresses, GetProgresses, Exchanged
<1>3. ASSUME NextRun
      PROVE  PutProgresses' /\ GetProgresses'
  <2>1. pos' = Fresh.pos /\ status' = Fresh.status /\ ltime' = Fresh.ltime
    BY <1>3 DEF NextRun
  <2>2. (/\ TypeOK /\ pos = Fresh.pos /\ status = Fresh.status /\ ltime = Fresh.ltime
         => PutProgresses /\ GetProgresses)'
    BY ProgressStart, PTL
  <2> QED
    BY <2>1, <2>2 DEF Fresh
<1>4. ASSUME UNCHANGED <<pos, status, ltime>>
      PROVE  PutProgresses' /\ GetProgresses'
  BY <1>4, ProgressSame
<1>5. ASSUME NEW p \in Proc, Abort(p)
      PROVE  PutProgresses' /\ GetProgresses'
  BY <1>4, <1>5 DEF Abort
<1>6. ASSUME NEW c \in Couplers, SendDone(c)
      PROVE  PutProgresses' /\ GetProgresses'
  BY <1>4, <1>6 DEF SendDone
<1> QED
  BY <1>1, <1>2, <1>3, <1>4, <1>5, <1>6 DEF Next, Stop, Local, vars, Exchange

-----------------------------------------------------------------------------
(* What was sent is received *)

\* No message is for a time after the end: such a put goes to the restart file.
LEMMA InTimeNext ==
  ASSUME TypeOK, MessagesInTime, [Next]_vars
  PROVE  MessagesInTime'
<1>1. ASSUME UNCHANGED chan
      PROVE  MessagesInTime'
  BY <1>1 DEF MessagesInTime, Exchanged
<1>2. ASSUME NEW p \in Proc, PutSend(p)
      PROVE  MessagesInTime'
  <2>1. PICK c, m : /\ c = Now(p).cpl /\ c \in Exchanged
                    /\ m.time = Mseclag(Now(p)) /\ ~AtEnd(Now(p))
                    /\ chan' = [chan EXCEPT ![c] = Append(chan[c], m)]
    BY <1>2 DEF PutSend
  <2>2. m.time < RunTime
    <3>1. Visiting(p)
      BY <1>2 DEF PutSend, Visiting
    <3>2. Mseclag(Now(p)) \in Int /\ RunTime \in Int
      BY <3>1, VisitingFacts, NamAssumption
    <3> QED
      BY <2>1, <3>2 DEF AtEnd
  <2>3. c \in Couplers /\ chan[c] \in Seq(Messages(c)) /\ DOMAIN chan = Couplers
    BY <2>1 DEF Exchanged, TypeOK, PerCoupler
  <2>4. /\ chan'[c] = Append(chan[c], m)
        /\ \A d \in Couplers : d # c => chan'[d] = chan[d]
    BY <2>1, <2>3
  <2>5. \A i \in DOMAIN Append(chan[c], m) : Append(chan[c], m)[i].time < RunTime
    BY <2>2, <2>3, <2>1 DEF MessagesInTime, Exchanged
  <2> QED
    BY <2>1, <2>4, <2>5 DEF MessagesInTime, Exchanged
<1>3. ASSUME NEW p \in Proc, GetRecv(p)
      PROVE  MessagesInTime'
  <2>1. PICK c : /\ c = Now(p).cpl /\ c \in Exchanged /\ chan[c] # <<>>
                 /\ chan' = [chan EXCEPT ![c] = Tail(chan[c])]
    BY <1>3 DEF GetRecv
  <2>2. c \in Couplers /\ chan[c] \in Seq(Messages(c)) /\ DOMAIN chan = Couplers
    BY <2>1 DEF Exchanged, TypeOK, PerCoupler
  <2>3. /\ chan'[c] = Tail(chan[c])
        /\ \A d \in Couplers : d # c => chan'[d] = chan[d]
    BY <2>1, <2>2
  <2>4. \A i \in DOMAIN Tail(chan[c]) : /\ i + 1 \in DOMAIN chan[c]
                                        /\ Tail(chan[c])[i] = chan[c][i + 1]
    BY <2>1, <2>2
  <2> QED
    BY <2>1, <2>3, <2>4 DEF MessagesInTime, Exchanged
<1>4. ASSUME NextRun
      PROVE  MessagesInTime'
  BY <1>4 DEF NextRun, Fresh, MessagesInTime, Exchanged
<1> QED
  BY <1>1, <1>2, <1>3, <1>4 DEF Next, Stop, Local, vars, Exchange, PutHold, PutFile,
     GetLocal, Load, Check, Abort, SendDone

\* When all have made their visits, a target end stands at its last date
LEMMA GotAll ==
  ASSUME TypeOK, Regular, GetProgresses, NEW c \in Exchanged,
         Done(Nam[c].dst), NEW t \in Int, t >= 0, t < RunTime, t % Nam[c].dt = 0
  PROVE  Started(<<"get", c>>) /\ t <= ltime[<<"get", c>>]
<1>1. PICK e : e = <<"get", c>>
  OBVIOUS
<1>2. /\ e \in Ends /\ c \in Couplers /\ Owner(e) = Nam[c].dst /\ LagOf(e) = 0
      /\ e[2] = c
  BY <1>1 DEF Ends, Exchanged, Owner, LagOf
<1>3. /\ CouplingDate(e, t) /\ t \in (-LagOf(e))..(RunTime - 1)
      /\ 1 \in Fields(c)
  BY <1>2, NamAssumption DEF CouplingDate, Fields
<1>4. PICK j \in DOMAIN Script[Owner(e)] :
        VisitOf(e, 1, Script[Owner(e)][j]) /\ Script[Owner(e)][j].msec = t
  BY <1>1, <1>2, <1>3 DEF Regular, GetsRegular, Covered
<1>5. j \in 1..(pos[Owner(e)] - 1)
  BY <1>2, <1>4, OwnerFacts, SMTT(30) DEF Done, TypeOK
<1>6. Coupled(e, Script[Owner(e)][j])
  BY <1>3, <1>4 DEF Coupled, VisitOf
<1> QED
  BY <1>1, <1>4, <1>5, <1>6 DEF GetProgresses, GetProgress

\* The next message would be for a time that the target has passed at its end.
LEMMA ConsumedAtEnd ==
  ASSUME TypeOK, Regular, GetProgresses, Stream, MessagesInTime
  PROVE  AllConsumed
<1> SUFFICES ASSUME \A p \in Proc : Done(p), NEW c \in Couplers, chan[c] # <<>>
             PROVE  FALSE
  BY DEF AllConsumed
<1>1. chan[c] \in Seq(Messages(c)) /\ 1 \in DOMAIN chan[c] /\ Len(chan[c]) \in Nat
      /\ 1 \in 1..Len(chan[c])
  BY DEF TypeOK
<1>2. c \in Exchanged /\ chan[c][1].time < RunTime
  BY <1>1 DEF MessagesInTime
<1>3. chan[c][1].time = Got[c] + Nam[c].dt
  <2>1. /\ chan[c][1].time = Got[c] + Nam[c].dt * 1 /\ Nam[c].dt \in Nat
    BY <1>1, <1>2, NamAssumption DEF Stream, Consecutive
  <2> QED
    BY <2>1
<1>4. Done(Nam[c].dst) /\ RunTime \in Nat \ {0} /\ Nam[c].dt \in Nat \ {0}
  BY NamAssumption
<1>5. 0 % Nam[c].dt = 0
  BY <1>4
<1>6. Started(<<"get", c>>) /\ 0 <= ltime[<<"get", c>>]
  BY <1>2, <1>4, <1>5, GotAll
<1>7. /\ <<"get", c>> \in Ends /\ ltime[<<"get", c>>] \in Int
      /\ Got[c] = ltime[<<"get", c>>]
  BY <1>2, <1>6, ExchangedFacts DEF Got, TypeOK
<1>8. PICK t \in Int : t = ltime[<<"get", c>>] + Nam[c].dt
  BY <1>4, <1>7
<1>9. t >= 0 /\ t < RunTime /\ ~(t <= ltime[<<"get", c>>])
  BY <1>2, <1>3, <1>4, <1>6, <1>7, <1>8
<1>10. ltime[<<"get", c>>] % Nam[c].dt = 0
  <2>1. CouplingDate(<<"get", c>>, ltime[<<"get", c>>])
    BY <1>2, <1>6 DEF GetProgresses, GetProgress
  <2> QED
    BY <2>1, <1>7 DEF CouplingDate, LagOf
<1>11. t % Nam[c].dt = 0
  BY <1>4, <1>7, <1>8, <1>10, ShiftMod
<1> QED
  BY <1>2, <1>4, <1>9, <1>11, GotAll

-----------------------------------------------------------------------------
(* The puts and their dates *)

\* What Regular says of one source end.
LEMMA SourceFacts ==
  ASSUME Regular, NEW c \in Exchanged
  PROVE  /\ c \in Couplers /\ <<"put", c>> \in Ends
         /\ Owner(<<"put", c>>) = Nam[c].src /\ Nam[c].src \in Proc
         /\ DOMAIN Script[Nam[c].src] = 1..Len(Script[Nam[c].src])
         /\ Len(Script[Nam[c].src]) \in Nat
         /\ LagOf(<<"put", c>>) = Nam[c].lag /\ Nam[c].lag \in Int
         /\ Nam[c].dt \in Nat \ {0} /\ RunTime \in Nat \ {0}
         /\ RunTime % Nam[c].dt = 0
         /\ Nam[c].lag <= Nam[c].dt /\ Nam[c].lag > -Nam[c].dt
         /\ Forwards(<<"put", c>>) /\ Covered(<<"put", c>>)
         /\ Restarts(c) /\ LoadedOnce(c)
         /\ 1 \in Fields(c)
<1>1. c \in Couplers
  BY DEF Exchanged
<1>2. <<"put", c>> \in Ends
  BY <1>1 DEF Ends, Exchanged
<1>3. PutsRegular(c)
  BY DEF Regular
<1>4. Nam[c].src \in Proc /\ Nam[c].lag \in Int /\ Nam[c].dt \in Nat \ {0}
      /\ RunTime \in Nat \ {0} /\ Nam[c].nflds \in Nat \ {0}
  BY <1>1, NamAssumption
<1>5. Owner(<<"put", c>>) = Nam[c].src /\ LagOf(<<"put", c>>) = Nam[c].lag
  BY DEF Owner, LagOf
<1>6. 1 \in Fields(c)
  BY <1>4 DEF Fields
<1>7. DOMAIN Script[Nam[c].src] = 1..Len(Script[Nam[c].src])
      /\ Len(Script[Nam[c].src]) \in Nat
  BY <1>2, <1>5, OwnerFacts
<1> QED
  BY <1>1, <1>2, <1>3, <1>4, <1>5, <1>6, <1>7 DEF PutsRegular, LagInRange

\* A put that counts is one of a restart file or one of the run proper
LEMMA PutKind ==
  ASSUME Regular, NEW c \in Exchanged, NEW f,
         NEW j \in DOMAIN Script[Nam[c].src],
         VisitOf(<<"put", c>>, f, Script[Nam[c].src][j])
  PROVE  LET s == Script[Nam[c].src][j] IN
         IF s.rest THEN Nam[c].lag > 0 /\ s.msec = -Nam[c].lag /\ s.nff = f
                   ELSE s.msec \in 0..(RunTime - 1) /\ s.msec \in PutDates(c, f)
<1>1. Restarts(c)
  BY SourceFacts
<1>2. PICK s : s = Script[Nam[c].src][j]
  OBVIOUS
<1>3. s.op = "put" /\ s.cpl = c /\ s.fld = f /\ (s.rest => TimeNow(s))
  BY <1>2 DEF VisitOf, End
<1>4. CASE s.rest
  BY <1>1, <1>2, <1>3, <1>4 DEF Restarts
<1>5. CASE ~s.rest
  <2>1. s.msec \in 0..(RunTime - 1)
    BY <1>1, <1>2, <1>3, <1>5 DEF Restarts
  <2>2. s.msec \in PutDates(c, f)
    BY <1>2, <1>3, <1>5 DEF PutDates
  <2> QED
    BY <1>2, <1>5, <2>1, <2>2
<1> QED
  BY <1>2, <1>4, <1>5

\* The dates of the puts are those of the run proper.
LEMMA PutOfDate ==
  ASSUME Regular, NEW c \in Exchanged, NEW f, NEW t \in PutDates(c, f)
  PROVE  /\ t \in 0..(RunTime - 1)
         /\ \E j \in DOMAIN Script[Nam[c].src] :
              /\ VisitOf(<<"put", c>>, f, Script[Nam[c].src][j])
              /\ ~Script[Nam[c].src][j].rest /\ Script[Nam[c].src][j].msec = t
<1>1. PICK j \in DOMAIN Script[Nam[c].src] :
        LET s == Script[Nam[c].src][j] IN
        s.op = "put" /\ s.cpl = c /\ s.fld = f /\ ~s.rest /\ s.msec = t
  BY DEF PutDates
<1>2. VisitOf(<<"put", c>>, f, Script[Nam[c].src][j])
  BY <1>1 DEF VisitOf, IsVisit, End
<1> QED
  BY <1>1, <1>2, PutKind

\* What is past is a put of the run, or the restart visit at -lag.
LEMMA PastKind ==
  ASSUME TypeOK, InScript, Regular, NEW c \in Exchanged, NEW f, NEW t,
         Past(<<"put", c>>, f, t)
  PROVE  /\ t \in Int /\ t < RunTime
         /\ IF t >= 0 THEN t \in PutDates(c, f) ELSE Nam[c].lag > 0 /\ t = -Nam[c].lag
<1>1. PICK j \in 1..(pos[Nam[c].src] - 1) :
        /\ VisitOf(<<"put", c>>, f, Script[Nam[c].src][j])
        /\ Script[Nam[c].src][j].msec = t
  BY SourceFacts DEF Past
<1>2. j \in DOMAIN Script[Nam[c].src]
  BY <1>1, SourceFacts, SMTT(30) DEF TypeOK, InScript
<1>3. PICK s : s = Script[Nam[c].src][j]
  OBVIOUS
<1>4. IF s.rest THEN Nam[c].lag > 0 /\ s.msec = -Nam[c].lag
                ELSE s.msec \in 0..(RunTime - 1) /\ s.msec \in PutDates(c, f)
  BY <1>1, <1>2, <1>3, PutKind
<1>5. RunTime \in Nat \ {0} /\ Nam[c].lag \in Int
  BY SourceFacts
<1> QED
  BY <1>1, <1>3, <1>4, <1>5

\* Runs do not overlap.
LEMMA Runs1 ==
  ASSUME NEW a \in Int, NEW b \in Int, NEW r \in Nat, a < b
  PROVE  a * r + r <= b * r
<1>1. PICK k \in Nat : b = a + 1 + k
  <2>1. b - a - 1 \in Nat
    OBVIOUS
  <2> QED
    BY <2>1
<1>2. b * r = a * r + r + k * r
  BY <1>1
<1>3. k * r \in Nat
  OBVIOUS
<1> QED
  BY <1>2, <1>3

\* A put of an earlier run lies before the start of this one.
LEMMA PutSince ==
  ASSUME TypeOK, Regular, NEW c \in Exchanged, NEW f, NEW x \in Puts(c, f)
  PROVE  /\ x.run \in Int /\ x.at \in 0..(RunTime - 1) /\ x.at \in PutDates(c, f)
         /\ x = [run |-> x.run, at |-> x.at]
         /\ x.run \in 1..run /\ run \in Int
         /\ Date(x) \in Int /\ Since(x) \in Int
         /\ x.run < run => Since(x) < 0
         /\ x.run = run => Since(x) = x.at
<1>1. /\ x.run \in 1..run /\ x.at \in PutDates(c, f) /\ run \in Int
      /\ x = [run |-> x.run, at |-> x.at]
  BY DEF Puts, TypeOK
<1>2. x.at \in 0..(RunTime - 1) /\ RunTime \in Nat
  BY <1>1, PutOfDate, NamAssumption
<1>3. PICK a \in Int, b \in Int : a = x.run * RunTime /\ b = run * RunTime
  BY <1>1, <1>2
<1>4. x.run < run => a + RunTime <= b
  BY <1>1, <1>2, <1>3, Runs1
<1>5. x.run = run => a = b
  BY <1>3
<1>6. Date(x) = a + x.at /\ Since(x) = (a + x.at) - b
  BY <1>3 DEF Date, Since
<1> QED
  BY <1>1, <1>2, <1>3, <1>4, <1>5, <1>6

\* The put that is made now comes after those of earlier runs and dates
LEMMA NowLatest ==
  ASSUME TypeOK, Regular, NEW c \in Exchanged, NEW f, NEW x \in Puts(c, f),
         NEW t \in 0..(RunTime - 1), x.run < run \/ x.at < t
  PROVE  /\ Date(x) < Date([run |-> run, at |-> t])
         /\ Date([run |-> run, at |-> t]) \in Int
<1>1. /\ x.at \in 0..(RunTime - 1) /\ Date(x) \in Int /\ Since(x) \in Int
      /\ x.run \in 1..run /\ run \in Int
      /\ x.run < run => Since(x) < 0
      /\ x.run = run => Since(x) = x.at
  BY PutSince
<1>2. RunTime \in Nat
  BY NamAssumption
<1>3. PICK b \in Int : b = run * RunTime
  BY <1>1, <1>2
<1>4. Since(x) = Date(x) - b /\ Date([run |-> run, at |-> t]) = b + t
  BY <1>3 DEF Since, Date
<1>5. Since(x) < t
  BY <1>1
<1> QED
  BY <1>1, <1>3, <1>4, <1>5

-----------------------------------------------------------------------------
(* Sums of puts *)

\* Sequences of puts: none, one, and one more than before.
LEMMA ListsNone == Lists(<<>>, {})
BY DEF Lists, Range

\* One put.
LEMMA ListsOne == ASSUME NEW x PROVE Lists(<<x>>, {x})
<1>1. DOMAIN <<x>> = {1} /\ <<x>>[1] = x
  OBVIOUS
<1>2. Range(<<x>>) = {x}
  BY <1>1 DEF Range
<1>3. \A i, j \in DOMAIN <<x>> : ~(i < j)
  BY <1>1
<1> QED
  BY <1>2, <1>3 DEF Lists

\* What is added is the last one
LEMMA ListsLast ==
  ASSUME NEW T, NEW q \in Seq(T), NEW S, NEW y, Lists(q, S),
         \A x \in S : Date(x) < Date(y)
  PROVE  Lists(Append(q, y), S \cup {y})
<1> DEFINE r == Append(q, y)
<1>1. /\ Len(q) \in Nat /\ DOMAIN q = 1..Len(q)
      /\ DOMAIN r = 1..(Len(q) + 1)
      /\ \A i \in 1..Len(q) : r[i] = q[i]
      /\ r[Len(q) + 1] = y
  OBVIOUS
<1>2. Range(q) = S /\ \A i \in DOMAIN q : q[i] \in S
  BY DEF Lists, Range
<1> HIDE DEF r
<1>3. Range(r) = S \cup {y}
  <2>1. ASSUME NEW z \in Range(r)
        PROVE  z \in S \cup {y}
    <3>1. PICK i \in DOMAIN r : z = r[i]
      BY <2>1 DEF Range
    <3>2. i \in 1..Len(q) \/ i = Len(q) + 1
      BY <1>1, <3>1
    <3> QED
      BY <1>1, <1>2, <3>1, <3>2
  <2>2. ASSUME NEW z \in S
        PROVE  z \in Range(r)
    <3>1. PICK i \in DOMAIN q : z = q[i]
      BY <1>2, <2>2 DEF Range
    <3>2. i \in DOMAIN r /\ r[i] = z
      BY <1>1, <3>1
    <3> QED
      BY <3>2 DEF Range
  <2>3. y \in Range(r)
    <3>1. Len(q) + 1 \in DOMAIN r
      BY <1>1
    <3> QED
      BY <1>1, <3>1 DEF Range
  <2> QED
    BY <2>1, <2>2, <2>3
<1>4. ASSUME NEW i \in DOMAIN r, NEW j \in DOMAIN r, i < j
      PROVE  Date(r[i]) < Date(r[j])
  <2>1. i \in 1..Len(q) /\ (j \in 1..Len(q) \/ j = Len(q) + 1)
    BY <1>1, <1>4
  <2>2. CASE j \in 1..Len(q)
    <3>1. Date(q[i]) < Date(q[j])
      BY <1>1, <1>4, <2>1, <2>2 DEF Lists
    <3> QED
      BY <1>1, <2>1, <2>2, <3>1
  <2>3. CASE j = Len(q) + 1
    <3>1. q[i] \in S
      BY <1>1, <1>2, <2>1
    <3>2. r[i] = q[i] /\ r[j] = y
      BY <1>1, <2>1, <2>3
    <3> QED
      BY <3>1, <3>2
  <2> QED
    BY <2>1, <2>2, <2>3
<1> QED
  BY <1>3, <1>4 DEF Lists, r

\* Sums of puts: none, and one more than before.
LEMMA SumsNone == ASSUME NEW c PROVE Sums(Zero, 0, c, {})
<1>1. Zero.terms = <<>> /\ Zero.div = 1 /\ Len(<<>>) = 0
  BY DEF Zero, Value
<1> QED
  BY <1>1, ListsNone DEF Sums

\* The local transformation adds the put to the sums of its field
LEMMA SumsPut ==
  ASSUME NEW c, NEW v \in Values, NEW n \in Nat, NEW S, Sums(v, n, c, S),
         NEW y \in [run : Int, at : Int], \A x \in S : Date(x) < Date(y)
  PROVE  LET w == Value(<<y>>, 1)
             m == IF Nam[c].trans = "average" THEN n + 1 ELSE 1
         IN /\ Sums(Add(v, w), m, c, S \cup {y})
            /\ n = 0 => Sums(w, m, c, S \cup {y})
<1> DEFINE w == Value(<<y>>, 1)
           m == IF Nam[c].trans = "average" THEN n + 1 ELSE 1
<1>1. v.terms \in Seq([run : Int, at : Int]) /\ v.div = 1 /\ Lists(v.terms, S)
  BY DEF Values, Sums
<1>2. Add(v, w) = Value(Append(v.terms, y), 1)
  <2>1. v.terms \o <<y>> = Append(v.terms, y)
    BY <1>1
  <2> QED
    BY <1>1, <2>1 DEF Add, Value
<1>3. Lists(Append(v.terms, y), S \cup {y})
  BY <1>1, ListsLast
<1>4. Len(Append(v.terms, y)) = Len(v.terms) + 1 /\ Append(v.terms, y) # <<>>
  BY <1>1, AppendProperties
<1>5. n = IF Nam[c].trans = "average" THEN Len(v.terms)
          ELSE IF v.terms = <<>> THEN 0 ELSE 1
  BY DEF Sums
<1>6. Sums(Add(v, w), m, c, S \cup {y})
  <2>1. /\ Add(v, w).terms = Append(v.terms, y) /\ Add(v, w).div = 1
    BY <1>2 DEF Value
  <2>2. m = IF Nam[c].trans = "average" THEN Len(Append(v.terms, y))
            ELSE IF Append(v.terms, y) = <<>> THEN 0 ELSE 1
    BY <1>4, <1>5
  <2> QED
    BY <2>1, <2>2, <1>3 DEF Sums
<1>7. ASSUME n = 0
      PROVE  Sums(w, m, c, S \cup {y})
  <2>1. v.terms = <<>>
    BY <1>1, <1>5, <1>7, EmptySeq
  <2>2. Append(v.terms, y) = <<y>>
    BY <2>1
  <2>3. w = Add(v, w)
    BY <1>2, <2>2
  <2> QED
    BY <2>3, <1>6
<1> QED
  BY <1>6, <1>7

\* What is sent, or written to the lag restart file
LEMMA SumsMean ==
  ASSUME NEW c, NEW v \in Values, NEW n \in Nat, NEW S, Sums(v, n, c, S)
  PROVE  MadeOf(Mean(v, n), c, S)
<1>1. /\ Lists(v.terms, S) /\ v.div = 1
      /\ n = IF Nam[c].trans = "average" THEN Len(v.terms)
             ELSE IF v.terms = <<>> THEN 0 ELSE 1
  BY DEF Sums
<1>2. CASE n > 1
  <2>1. Nam[c].trans = "average" /\ n = Len(v.terms)
    BY <1>1, <1>2
  <2>2. Mean(v, n).terms = v.terms /\ Mean(v, n).div = n
    BY <1>2 DEF Mean, Value
  <2> QED
    BY <1>1, <1>2, <2>1, <2>2 DEF MadeOf
<1>3. CASE ~(n > 1)
  <2>1. Mean(v, n) = v
    BY <1>3 DEF Mean
  <2>2. ~(Nam[c].trans = "average" /\ Len(v.terms) > 1)
    BY <1>1, <1>3
  <2> QED
    BY <1>1, <2>1, <2>2 DEF MadeOf
<1> QED
  BY <1>2, <1>3

\* A message of a field that is not transformed.
LEMMA MadeOfOne ==
  ASSUME NEW c, NEW t
  PROVE  MadeOf(PutAt(t), c, {[run |-> run, at |-> t]})
<1>1. /\ PutAt(t).terms = <<[run |-> run, at |-> t]>> /\ PutAt(t).div = 1
      /\ Len(PutAt(t).terms) = 1
  BY DEF PutAt, Value
<1> QED
  BY <1>1, ListsOne DEF MadeOf

-----------------------------------------------------------------------------
(* The put that is made now *)

\* The process p puts into the coupler c
Putting(p, c) == Visiting(p) /\ Now(p).op = "put" /\ Now(p).cpl = c

\* The put that is made, and when it counts.
LEMMA PuttingFacts ==
  ASSUME TypeOK, Regular, NEW c \in Exchanged, NEW p, Putting(p, c)
  PROVE  LET s == Now(p) IN
         /\ p = Nam[c].src /\ p \in Proc /\ End(s) = <<"put", c>>
         /\ s = Script[p][pos[p]] /\ pos[p] \in DOMAIN Script[p]
         /\ pos[p] \in Nat \ {0} /\ s.fld \in Fields(c) /\ s.msec \in Int
         /\ s.rest \in BOOLEAN /\ s.msec < RunTime
         /\ Mseclag(s) = s.msec + Nam[c].lag
         /\ (s.rest => TimeNow(s)) => AtVisit(<<"put", c>>, s.fld)
         /\ Coupled(<<"put", c>>, s) <=> TimeNow(s)
<1>1. PICK s : s = Now(p)
  OBVIOUS
<1>2. /\ p \in Proc /\ End(s) = <<"put", c>>
      /\ s = Script[p][pos[p]] /\ pos[p] \in DOMAIN Script[p]
      /\ pos[p] \in Nat \ {0} /\ s.fld \in Fields(c) /\ s.msec \in Int
  BY <1>1, VisitingFacts DEF Putting
<1>3. /\ Owner(<<"put", c>>) = p /\ s.msec < RunTime
      /\ (s.rest => TimeNow(s)) => AtVisit(<<"put", c>>, s.fld)
      /\ Coupled(<<"put", c>>, s) <=> TimeNow(s)
  BY <1>1, <1>2, RegularVisit DEF Putting
<1>4. p = Nam[c].src
  BY <1>3 DEF Owner
<1>5. s.rest \in BOOLEAN
  BY <1>1, VisitFacts DEF Putting, Visiting, TypeOK
<1>6. Mseclag(s) = s.msec + Nam[c].lag
  BY <1>1 DEF Mseclag, Putting
<1> QED
  BY <1>1, <1>2, <1>3, <1>4, <1>5, <1>6

\* The partial results are read between the restart visits and the others
LEMMA PuttingLoaded ==
  ASSUME TypeOK, Regular, NEW c \in Exchanged, NEW p, Putting(p, c)
  PROVE  Loaded(c) <=> ~Now(p).rest
<1>1. /\ p = Nam[c].src /\ Now(p) = Script[p][pos[p]] /\ pos[p] \in DOMAIN Script[p]
      /\ pos[p] \in Nat \ {0} /\ Now(p).op = "put" /\ Now(p).cpl = c
      /\ Now(p).rest \in BOOLEAN
  BY PuttingFacts DEF Putting
<1>2. DOMAIN Script[p] = 1..Len(Script[p]) /\ Len(Script[p]) \in Nat
  BY <1>1, SourceFacts
<1>3. PICK l \in DOMAIN Script[p] : \A j \in DOMAIN Script[p] :
        /\ LoadOf(c, Script[p][j]) <=> j = l
        /\ Script[p][j].op = "put" /\ Script[p][j].cpl = c
           => (Script[p][j].rest <=> j < l)
  <2>1. LoadedOnce(c)
    BY SourceFacts, Zenon
  <2>2. p = Nam[c].src
    BY <1>1
  <2> QED
    BY <2>1, <2>2 DEF LoadedOnce
<1>4. Now(p).rest <=> pos[p] < l
  BY <1>1, <1>3
<1>5. pos[p] # l
  BY <1>1, <1>3 DEF LoadOf
<1>7. l \in Nat \ {0} /\ pos[p] \in Nat \ {0}
  BY <1>1, <1>2
<1>6. Loaded(c) <=> l \in 1..(pos[p] - 1)
  <2>1. Loaded(c) <=> \E j \in 1..(pos[p] - 1) : LoadOf(c, Script[p][j])
    BY <1>1 DEF Loaded
  <2>2. \A j \in 1..(pos[p] - 1) : j \in DOMAIN Script[p]
    BY <1>1, <1>2, <1>7
  <2>3. \A j \in DOMAIN Script[p] : LoadOf(c, Script[p][j]) <=> j = l
    BY <1>3
  <2> HIDE <1>3
  <2> QED
    BY <2>1, <2>2, <2>3
<1> QED
  BY <1>4, <1>5, <1>6, <1>7

\* A restart visit that counts comes before all else, at minus the lag
LEMMA RestartPut ==
  ASSUME TypeOK, InScript, Regular, PutProgresses, NEW c \in Exchanged,
         NEW p, Putting(p, c), Now(p).rest, TimeNow(Now(p))
  PROVE  LET s == Now(p) IN
         /\ Restoring(c) /\ ~Loaded(c) /\ ~Saving(c)
         /\ s.nff = s.fld /\ Mseclag(s) = 0 /\ s.msec = NextDate(<<"put", c>>)
         /\ s.msec < 0
         /\ \A g \in Fields(c) : g \in status[<<"put", c>>] <=>
                                   Past(<<"put", c>>, g, s.msec)
<1>1. PICK e, s : e = <<"put", c>> /\ s = Now(p)
  OBVIOUS
<1>2. /\ p = Nam[c].src /\ s = Script[p][pos[p]] /\ pos[p] \in DOMAIN Script[p]
      /\ s.fld \in Fields(c) /\ s.msec \in Int /\ s.msec < RunTime
      /\ Mseclag(s) = s.msec + Nam[c].lag
      /\ AtVisit(e, s.fld) /\ Coupled(e, s)
  BY <1>1, PuttingFacts
<1>3. /\ e \in Ends /\ Owner(e) = p /\ LagOf(e) = Nam[c].lag /\ Nam[c].lag \in Int
      /\ Nam[c].dt \in Nat \ {0} /\ RunTime \in Nat \ {0} /\ e[2] = c
      /\ Forwards(e) /\ Covered(e)
  BY <1>1, <1>2, SourceFacts
<1>4. Nam[c].lag > 0 /\ s.msec = -Nam[c].lag /\ s.nff = s.fld
  <2>1. Restarts(c) /\ s.op = "put" /\ s.cpl = c /\ s.rest /\ TimeNow(s)
    BY <1>1, SourceFacts DEF Putting
  <2> QED
    BY <1>2, <2>1 DEF Restarts
<1>5. PutProgress(e) /\ ltime[e] \in Int
  BY <1>1, <1>3 DEF PutProgresses, TypeOK
<1>6. /\ s.msec = NextDate(e)
      /\ \A g \in Fields(c) : Past(e, g, NextDate(e)) <=> g \in status[e]
  <2>1. Now(Owner(e)) = s
    BY <1>1, <1>3
  <2> QED
    BY <1>2, <1>3, <1>5, <2>1, PutDate, ZenonT(30)
<1>7. ~Started(e)
  <2> SUFFICES ASSUME Started(e)
               PROVE  FALSE
    OBVIOUS
  <2>1. ltime[e] >= -Nam[c].lag /\ NextDate(e) = ltime[e] + Nam[c].dt
    BY <1>3, <1>5 DEF PutProgress, CouplingDate, NextDate
  <2> QED
    BY <2>1, <1>3, <1>4, <1>5, <1>6
<1>8. ~Loaded(c)
  BY <1>1, PuttingLoaded
<1>9. Mseclag(s) = 0 /\ s.msec < 0 /\ s.msec \in Int
  <2>1. PICK l \in Int : l = Nam[c].lag
    BY <1>3
  <2>2. l > 0 /\ s.msec = -l /\ Mseclag(s) = s.msec + l
    BY <2>1, <1>2, <1>4
  <2> QED
    BY <2>2
<1>10. ~Saving(c)
  <2> SUFFICES ASSUME NEW g, NEW t \in 0..(RunTime - 1), Past(e, g, t)
               PROVE  FALSE
    BY <1>1 DEF Saving
  <2>1. t <= s.msec
    BY <1>1, <1>2, <1>3, PastOrder
  <2>2. t \in Int /\ t >= 0
    BY <1>3
  <2> QED
    BY <2>1, <2>2, <1>9
<1> QED
  BY <1>1, <1>4, <1>6, <1>7, <1>8, <1>10, <1>9 DEF Restoring

\* A put of the run proper belongs to the period that ends at the next date
LEMMA RunPut ==
  ASSUME TypeOK, InScript, Regular, PutProgresses, NEW c \in Exchanged,
         NEW p, Putting(p, c), ~Now(p).rest
  PROVE  LET s == Now(p) N == NextDate(<<"put", c>>) IN
         /\ ~Restoring(c) /\ Loaded(c) /\ AtVisit(<<"put", c>>, s.fld)
         /\ s.msec \in 0..(RunTime - 1) /\ s.msec \in PutDates(c, s.fld)
         /\ N \in Int /\ N - Nam[c].dt < s.msec /\ s.msec <= N
         /\ TimeNow(s) <=> s.msec = N
         /\ \A g \in Fields(c) : g \in status[<<"put", c>>] <=>
                                   Past(<<"put", c>>, g, N)
         /\ s.fld \notin status[<<"put", c>>]
<1>1. PICK e, s, N : e = <<"put", c>> /\ s = Now(p) /\ N = NextDate(e)
  OBVIOUS
<1>2. /\ p = Nam[c].src /\ s = Script[p][pos[p]] /\ pos[p] \in DOMAIN Script[p]
      /\ s.fld \in Fields(c) /\ s.msec \in Int /\ s.msec < RunTime
      /\ AtVisit(e, s.fld) /\ (Coupled(e, s) <=> TimeNow(s))
      /\ s.op = "put" /\ s.cpl = c /\ ~s.rest
  BY <1>1, PuttingFacts DEF Putting
<1>3. /\ e \in Ends /\ Owner(e) = p /\ LagOf(e) = Nam[c].lag /\ Nam[c].lag \in Int
      /\ Nam[c].dt \in Nat \ {0} /\ RunTime \in Nat \ {0} /\ e[2] = c
      /\ Forwards(e) /\ Covered(e) /\ Restarts(c) /\ Nam[c].lag > -Nam[c].dt
  BY <1>1, <1>2, SourceFacts
<1>4. Now(Owner(e)) = s
  BY <1>1, <1>3
<1>5. VisitOf(e, s.fld, s)
  BY <1>2, <1>4 DEF AtVisit
<1>6. s.msec \in 0..(RunTime - 1) /\ s.msec \in PutDates(c, s.fld)
  BY <1>1, <1>2, <1>5, PutKind
<1>7. /\ PutProgress(e) /\ ltime[e] \in Int
      /\ N \in Int /\ CouplingDate(e, N)
      /\ status[e] \subseteq Fields(c) /\ status[e] # Fields(c)
      /\ \A g \in Fields(c) : g \in status[e] <=> Past(e, g, N)
  <2>1. PutProgress(e) /\ ltime[e] \in Int /\ status[e] \subseteq Fields(c)
    BY <1>1, <1>3 DEF PutProgresses, TypeOK
  <2>2. N \in Int /\ CouplingDate(e, N)
    BY <1>1, <1>3, <2>1, NextIsCoupling DEF PutProgress
  <2> QED
    BY <1>1, <1>3, <2>1, <2>2 DEF PutProgress
<1>8. ~(s.msec > N)
  <2> SUFFICES ASSUME s.msec > N
               PROVE  FALSE
    OBVIOUS
  <2>1. N < RunTime
    BY <1>3, <1>6, <1>7
  <2>2. \A g \in Fields(c) : Past(e, g, N)
    BY <1>2, <1>3, <1>4, <1>7, <2>1, PastCovered
  <2> QED
    BY <2>2, <1>7
<1>9. ~Restoring(c)
  <2> SUFFICES ASSUME Nam[c].lag > 0, ~Started(e)
               PROVE  FALSE
    BY <1>1 DEF Restoring
  <2>1. N = -Nam[c].lag
    BY <1>1, <1>3 DEF NextDate
  <2> QED
    BY <2>1, <1>3, <1>6, <1>8
<1>10. N - Nam[c].dt < s.msec
  <2>1. CASE Started(e)
    <3>1. N = ltime[e] + Nam[c].dt /\ Past(e, s.fld, ltime[e])
      BY <1>1, <1>2, <1>3, <1>7, <2>1 DEF NextDate, PutProgress
    <3>2. ltime[e] < s.msec
      BY <1>2, <1>3, <1>4, <3>1, PastOrder
    <3> QED
      BY <3>1, <3>2, <1>3, <1>6, <1>7
  <2>2. CASE ~Started(e)
    <3>1. N = -Nam[c].lag
      BY <1>1, <1>3, <2>2 DEF NextDate
    <3> QED
      BY <3>1, <1>3, <1>6
  <2> QED
    BY <2>1, <2>2
<1>11. TimeNow(s) <=> s.msec = N
  <2>1. ASSUME TimeNow(s)
        PROVE  s.msec = N
    BY <1>1, <1>2, <1>3, <1>4, <1>7, <2>1, PutDate
  <2>2. ASSUME s.msec = N
        PROVE  TimeNow(s)
    <3>1. Coupled(e, s)
      BY <1>5, <1>7, <2>2 DEF Coupled
    <3> QED
      BY <3>1, <1>2
  <2> QED
    BY <2>1, <2>2
<1>12. s.fld \notin status[e]
  <2> SUFFICES ASSUME Past(e, s.fld, N)
               PROVE  FALSE
    BY <1>2, <1>7
  <2>1. N < s.msec
    BY <1>2, <1>3, <1>4, PastOrder
  <2> QED
    BY <2>1, <1>6, <1>7, <1>8
<1>13. Loaded(c)
  BY <1>1, <1>2, PuttingLoaded
<1> QED
  BY <1>1, <1>2, <1>6, <1>7, <1>8, <1>9, <1>10, <1>11, <1>12, <1>13

-----------------------------------------------------------------------------
(* What is collected with the put *)

\* The local transformation changes the field that is put, and no other
LEMMA Transformed ==
  ASSUME TypeOK, Regular, NEW c \in Exchanged, NEW p, Putting(p, c)
  PROVE  LET s == Now(p) IN
         /\ avcnt[c] \in Counts(c) /\ avect[c] \in Tables(c)
         /\ \A g \in Fields(c) : /\ avcnt[c][g] \in Nat /\ avect[c][g] \in Values
                                 /\ g # s.fld => /\ Counted(s)[g] = avcnt[c][g]
                                                 /\ Collected(p, s)[g] = avect[c][g]
         /\ Instant(s) =>
              IF TimeNow(s)
              THEN Counted(s)[s.fld] = 1 /\ Collected(p, s)[s.fld] = ArrayIn(p, s)
              ELSE Counted(s) = avcnt[c] /\ Collected(p, s) = avect[c]
         /\ ~Instant(s) =>
              /\ Counted(s)[s.fld] = IF Nam[c].trans = "average"
                                     THEN avcnt[c][s.fld] + 1 ELSE 1
              /\ \/ /\ avcnt[c][s.fld] = 0
                    /\ Collected(p, s)[s.fld] = ArrayIn(p, s)
                 \/ Collected(p, s)[s.fld] = Add(avect[c][s.fld], ArrayIn(p, s))
<1>1. PICK s : s = Now(p)
  OBVIOUS
<1>2. s.cpl = c /\ s.fld \in Fields(c) /\ c \in Couplers
  BY <1>1, PuttingFacts, SourceFacts DEF Putting
<1>3. avcnt[c] \in Counts(c) /\ avect[c] \in Tables(c)
  BY <1>2 DEF TypeOK
<1>4. /\ avcnt[c] \in [Fields(c) -> Nat] /\ avect[c] \in [Fields(c) -> Values]
  BY <1>3 DEF Counts, Tables
<1>5. \A g \in Fields(c) : g # s.fld => /\ Counted(s)[g] = avcnt[c][g]
                                        /\ Collected(p, s)[g] = avect[c][g]
  BY <1>2, <1>4 DEF Counted, Collected
<1>6. CASE Instant(s)
  <2>1. CASE TimeNow(s)
    BY <1>1, <1>2, <1>3, <1>4, <1>5, <1>6, <2>1 DEF Counted, Collected
  <2>2. CASE ~TimeNow(s)
    <3>1. Counted(s) = avcnt[c]
      BY <1>2, <1>4, <1>6, <2>2 DEF Counted
    <3>2. Collected(p, s) = avect[c]
      BY <1>2, <1>4, <1>6, <2>2 DEF Collected
    <3> QED
      BY <1>1, <1>3, <1>4, <1>5, <1>6, <2>2, <3>1, <3>2
  <2> QED
    BY <2>1, <2>2
<1>7. CASE ~Instant(s)
  BY <1>1, <1>2, <1>3, <1>4, <1>5, <1>7 DEF Counted, Collected
<1> QED
  BY <1>6, <1>7

\* What is collected when the put s is
WithPut(c, g, s) ==
  Collecting(c, g) \cup (IF g = s.fld THEN {[run |-> run, at |-> s.msec]} ELSE {})

\* A put of the run proper is added once, after those that were collected
LEMMA PutCollected ==
  ASSUME TypeOK, InScript, Regular, PutProgresses, NEW c \in Exchanged,
         \A g \in Fields(c) : Collects(c, g),
         NEW p, Putting(p, c), ~Now(p).rest, Nam[c].trans # "instant"
  PROVE  \A g \in Fields(c) :
           Sums(Collected(p, Now(p))[g], Counted(Now(p))[g], c, WithPut(c, g, Now(p)))
<1>1. PICK s, y : s = Now(p) /\ y = [run |-> run, at |-> s.msec]
  OBVIOUS
<1>2. s.fld \in Fields(c) /\ s.msec \in Int /\ ~s.rest /\ s.cpl = c
  BY <1>1, PuttingFacts DEF Putting
<1>3. ~Restoring(c) /\ Loaded(c) /\ s.msec \in 0..(RunTime - 1)
      /\ AtVisit(<<"put", c>>, s.fld)
  BY <1>1, RunPut
<1>4. \A g \in Fields(c) :
        /\ Sums(avect[c][g], avcnt[c][g], c, Collecting(c, g))
        /\ avcnt[c][g] \in Nat /\ avect[c][g] \in Values
  BY <1>1, <1>3, Transformed DEF Collects
<1>5. ASSUME NEW g \in Fields(c), g # s.fld
      PROVE  Sums(Collected(p, s)[g], Counted(s)[g], c, WithPut(c, g, s))
  <2>1. Counted(s)[g] = avcnt[c][g] /\ Collected(p, s)[g] = avect[c][g]
    BY <1>1, <1>5, Transformed
  <2>2. WithPut(c, g, s) = Collecting(c, g)
    BY <1>5 DEF WithPut
  <2> QED
    BY <1>4, <1>5, <2>1, <2>2
<1>6. \A x \in Collecting(c, s.fld) : Date(x) < Date(y)
  <2> SUFFICES ASSUME NEW x \in Collecting(c, s.fld)
               PROVE  Date(x) < Date(y)
    OBVIOUS
  <2>1. x \in Puts(c, s.fld) /\ (x.run < run \/ Past(<<"put", c>>, s.fld, x.at))
    BY DEF Collecting
  <2>2. Past(<<"put", c>>, s.fld, x.at) => x.at < s.msec
    BY <1>1, <1>3, PuttingFacts, SourceFacts, PastOrder
  <2> QED
    BY <1>1, <1>3, <2>1, <2>2, NowLatest
<1>7. Sums(Collected(p, s)[s.fld], Counted(s)[s.fld], c, WithPut(c, s.fld, s))
  <2>1. y \in [run : Int, at : Int]
    BY <1>1, <1>2 DEF TypeOK
  <2>2. PICK w, m : /\ w = Value(<<y>>, 1)
                    /\ m = IF Nam[c].trans = "average" THEN avcnt[c][s.fld] + 1 ELSE 1
    OBVIOUS
  <2>3. /\ Sums(Add(avect[c][s.fld], w), m, c, Collecting(c, s.fld) \cup {y})
        /\ avcnt[c][s.fld] = 0 => Sums(w, m, c, Collecting(c, s.fld) \cup {y})
    BY <1>2, <1>4, <1>6, <2>1, <2>2, SumsPut
  <2>4. ArrayIn(p, s) = w
    BY <1>1, <1>2, <2>2 DEF ArrayIn, PutAt
  <2>5. ~Instant(s)
    BY <1>2 DEF Instant
  <2>6. /\ Counted(s)[s.fld] = m
        /\ \/ avcnt[c][s.fld] = 0 /\ Collected(p, s)[s.fld] = w
           \/ Collected(p, s)[s.fld] = Add(avect[c][s.fld], w)
    BY <1>1, <2>2, <2>4, <2>5, Transformed
  <2>7. WithPut(c, s.fld, s) = Collecting(c, s.fld) \cup {y}
    BY <1>1 DEF WithPut
  <2> QED
    BY <2>3, <2>6, <2>7
<1> QED
  BY <1>1, <1>5, <1>7

\* Nothing of the period is missing, and nothing of the next one is in it
LEMMA PeriodOver ==
  ASSUME TypeOK, InScript, Regular, PutProgresses, NEW c \in Exchanged,
         NEW p, Putting(p, c), ~Now(p).rest, Nam[c].trans # "instant",
         TimeNow(Now(p)), status[<<"put", c>>] \cup {Now(p).fld} = Fields(c),
         NEW g \in Fields(c)
  PROVE  WithPut(c, g, Now(p)) = Window(c, g, Mseclag(Now(p)))
<1>1. PICK s, e, y : /\ s = Now(p) /\ e = <<"put", c>>
                     /\ y = [run |-> run, at |-> s.msec]
  OBVIOUS
<1>2. /\ p = Nam[c].src /\ s = Script[p][pos[p]] /\ pos[p] \in DOMAIN Script[p]
      /\ pos[p] \in Nat \ {0} /\ s.fld \in Fields(c)
      /\ Mseclag(s) = s.msec + Nam[c].lag
  BY <1>1, PuttingFacts
<1>3. /\ s.msec \in 0..(RunTime - 1) /\ s.msec \in PutDates(c, s.fld)
      /\ s.msec = NextDate(e) /\ AtVisit(e, s.fld)
      /\ \A h \in Fields(c) : h \in status[e] <=> Past(e, h, s.msec)
  BY <1>1, RunPut
<1>4. /\ e \in Ends /\ Owner(e) = p /\ Nam[c].lag \in Int /\ e[2] = c
      /\ Nam[c].dt \in Nat \ {0} /\ RunTime \in Nat \ {0} /\ Forwards(e)
      /\ DOMAIN Script[p] = 1..Len(Script[p]) /\ Len(Script[p]) \in Nat
  BY <1>1, <1>2, SourceFacts
<1>5. Window(c, g, Mseclag(s)) =
        {x \in Puts(c, g) : Since(x) > s.msec - Nam[c].dt /\ Since(x) <= s.msec}
  <2>1. Mseclag(s) - Nam[c].lag = s.msec
    <3>1. s.msec \in Int /\ Nam[c].lag \in Int
      BY <1>3, <1>4
    <3>2. Mseclag(s) = s.msec + Nam[c].lag
      BY <1>2
    <3> QED
      BY <3>1, <3>2
  <2> QED
    BY <2>1 DEF Window
<1>6. Collecting(c, g) = {x \in Puts(c, g) : /\ Since(x) > s.msec - Nam[c].dt
                                             /\ x.run < run \/ Past(e, g, x.at)}
  BY <1>1, <1>3 DEF Collecting
<1>7. ASSUME NEW x \in WithPut(c, g, s)
      PROVE  x \in Window(c, g, Mseclag(s))
  <2>1. CASE x \in Collecting(c, g)
    <3>1. x \in Puts(c, g) /\ Since(x) > s.msec - Nam[c].dt
          /\ (x.run < run \/ Past(e, g, x.at))
      BY <1>6, <2>1
    <3>2. Past(e, g, x.at) => x.at <= s.msec
      BY <1>1, <1>3, <1>4, PastOrder
    <3>3. /\ x.run \in 1..run /\ run \in Int /\ Since(x) \in Int
          /\ x.run < run => Since(x) < 0
          /\ x.run = run => Since(x) = x.at
      BY <3>1, PutSince
    <3>4. Since(x) <= s.msec
      BY <1>3, <3>1, <3>2, <3>3
    <3> QED
      BY <1>5, <3>1, <3>4
  <2>2. CASE g = s.fld /\ x = y
    <3>1. y \in Puts(c, g)
      BY <1>1, <1>3, <2>2 DEF Puts, TypeOK
    <3>2. Since(y) = s.msec
      BY <1>1, <3>1, PutSince
    <3> QED
      BY <1>3, <1>4, <1>5, <2>2, <3>1, <3>2
  <2> QED
    BY <1>1, <1>7, <2>1, <2>2 DEF WithPut
<1>8. ASSUME NEW x \in Window(c, g, Mseclag(s))
      PROVE  x \in WithPut(c, g, s)
  <2>1. /\ x \in Puts(c, g) /\ Since(x) > s.msec - Nam[c].dt /\ Since(x) <= s.msec
    BY <1>5, <1>8
  <2>2. /\ x = [run |-> x.run, at |-> x.at] /\ x.at \in PutDates(c, g)
        /\ x.run \in 1..run /\ run \in Int /\ x.at \in 0..(RunTime - 1)
        /\ x.run = run => Since(x) = x.at
    BY <2>1, PutSince
  <2>3. CASE x.run < run
    BY <1>6, <2>1, <2>3 DEF WithPut
  <2>4. CASE x.run = run
    <3>1. PICK j \in DOMAIN Script[p] :
            VisitOf(e, g, Script[p][j]) /\ Script[p][j].msec = x.at
      BY <1>1, <1>2, <2>2, PutOfDate
    <3>2. x.at <= s.msec
      BY <2>1, <2>2, <2>4
    <3>3. CASE j < pos[p]
      <4>1. j \in 1..(pos[p] - 1)
        <5>1. j \in Nat \ {0} /\ pos[p] \in Nat
          BY <1>2, <1>4
        <5> QED
          BY <3>3, <5>1
      <4>2. Past(e, g, x.at)
        BY <1>4, <3>1, <4>1 DEF Past
      <4> QED
        BY <1>6, <2>1, <4>2 DEF WithPut
    <3>4. CASE j = pos[p]
      <4>1. g = s.fld /\ x.at = s.msec
        BY <1>2, <3>1, <3>4 DEF VisitOf
      <4>2. x = y
        BY <1>1, <2>2, <2>4, <4>1
      <4> QED
        BY <1>1, <4>1, <4>2 DEF WithPut
    <3>5. CASE j > pos[p]
      <4>1. PICK i \in 1..pos[p] :
              VisitOf(e, g, Script[p][i]) /\ Script[p][i].msec = s.msec
        <5>1. CASE g \in status[e]
          <6>1. PICK i \in 1..(pos[p] - 1) :
                  VisitOf(e, g, Script[p][i]) /\ Script[p][i].msec = s.msec
            BY <1>3, <1>4, <5>1 DEF Past
          <6>2. i \in 1..pos[p]
            BY <1>2
          <6> QED
            BY <6>1, <6>2
        <5>2. CASE g = s.fld
          <6>1. VisitOf(e, g, Script[p][pos[p]])
            BY <1>3, <1>4, <5>2 DEF AtVisit, Now
          <6>2. pos[p] \in 1..pos[p]
            BY <1>2
          <6> QED
            BY <6>1, <6>2, <1>2
        <5> QED
          BY <1>1, <5>1, <5>2
      <4>2. i \in 1..(j - 1)
        <5>1. j \in Int /\ pos[p] \in Int
          BY <1>2, <1>4, <3>1
        <5>2. \A k \in 1..pos[p] : k \in 1..(j - 1)
          BY <5>1, <3>5
        <5> QED
          BY <5>2, <4>1
      <4>3. s.msec < x.at
        BY <1>4, <3>1, <4>1, <4>2 DEF Forwards
      <4> QED
        BY <4>3, <3>2, <1>3, <2>2
    <3> QED
      BY <3>3, <3>4, <3>5, <1>2, <1>4
  <2> QED
    BY <2>2, <2>3, <2>4
<1> QED
  BY <1>1, <1>7, <1>8

\* The put at the coupling date completes the fields of the coupler
LEMMA CommFacts ==
  ASSUME TypeOK, Regular, NEW c \in Exchanged, NEW p, Putting(p, c)
  PROVE  LET s == Now(p) IN
         /\ CommNow(s) <=> /\ TimeNow(s)
                           /\ status[<<"put", c>>] \cup {s.fld} = Fields(c)
         /\ ReadyFields(s) = IF TimeNow(s) THEN status[<<"put", c>>] \cup {s.fld}
                                           ELSE status[<<"put", c>>]
         /\ \A g \in Fields(c) :
              Averaged(p, s)[g] = Mean(Collected(p, s)[g], Counted(s)[g])
<1>1. PICK s : s = Now(p)
  OBVIOUS
<1>2. End(s) = <<"put", c>> /\ s.op = "put" /\ s.cpl = c
  BY <1>1, PuttingFacts DEF Putting
<1> QED
  BY <1>1, <1>2 DEF CommNow, ReadyFields, Averaged

\* What is sent of a restart file is what the file holds
LEMMA RestartSent ==
  ASSUME TypeOK, InScript, Regular, PutProgresses, NEW c \in Exchanged,
         \A g \in Fields(c) : Collects(c, g),
         NEW p, Putting(p, c), Now(p).rest, TimeNow(Now(p))
  PROVE  \A g \in Fields(c) : g \in status[<<"put", c>>] \cup {Now(p).fld} =>
           Counted(Now(p))[g] = 1 /\ Collected(p, Now(p))[g] = rst[c].flds[g]
<1>1. PICK s : s = Now(p)
  OBVIOUS
<1>2. /\ Restoring(c) /\ s.nff = s.fld /\ s.rest /\ TimeNow(s)
  BY <1>1, RestartPut
<1>3. s.cpl = c /\ s.fld \in Fields(c)
  BY <1>1, PuttingFacts DEF Putting
<1>4. ArrayIn(p, s) = rst[c].flds[s.fld]
  BY <1>2, <1>3 DEF ArrayIn, RestartValue, Restoring
<1>5. /\ Counted(s)[s.fld] = 1 /\ Collected(p, s)[s.fld] = rst[c].flds[s.fld]
      /\ \A g \in Fields(c) : g # s.fld => /\ Counted(s)[g] = avcnt[c][g]
                                           /\ Collected(p, s)[g] = avect[c][g]
  BY <1>1, <1>2, <1>4, Transformed DEF Instant
<1>6. \A g \in Fields(c) : g \in status[<<"put", c>>] =>
                             avcnt[c][g] = 1 /\ avect[c][g] = rst[c].flds[g]
  BY <1>2 DEF Collects
<1> QED
  BY <1>1, <1>5, <1>6

\* What is sent of an instant field is the put of the coupling date
LEMMA InstantSent ==
  ASSUME TypeOK, InScript, Regular, PutProgresses, NEW c \in Exchanged,
         \A g \in Fields(c) : Collects(c, g),
         NEW p, Putting(p, c), ~Now(p).rest, TimeNow(Now(p)),
         Nam[c].trans = "instant"
  PROVE  \A g \in Fields(c) : g \in status[<<"put", c>>] \cup {Now(p).fld} =>
           /\ Counted(Now(p))[g] = 1 /\ Collected(p, Now(p))[g] = PutAt(Now(p).msec)
           /\ Now(p).msec \in PutDates(c, g)
<1>1. PICK s : s = Now(p)
  OBVIOUS
<1>2. /\ ~Restoring(c) /\ s.msec = NextDate(<<"put", c>>) /\ ~s.rest /\ TimeNow(s)
      /\ s.msec \in 0..(RunTime - 1) /\ s.msec \in PutDates(c, s.fld)
      /\ \A g \in Fields(c) : g \in status[<<"put", c>>] <=>
                                Past(<<"put", c>>, g, s.msec)
  BY <1>1, RunPut
<1>3. s.cpl = c /\ s.fld \in Fields(c)
  BY <1>1, PuttingFacts DEF Putting
<1>4. ArrayIn(p, s) = PutAt(s.msec) /\ Instant(s)
  BY <1>2, <1>3 DEF ArrayIn, Instant
<1>5. /\ Counted(s)[s.fld] = 1 /\ Collected(p, s)[s.fld] = PutAt(s.msec)
      /\ \A g \in Fields(c) : g # s.fld => /\ Counted(s)[g] = avcnt[c][g]
                                           /\ Collected(p, s)[g] = avect[c][g]
  BY <1>1, <1>2, <1>4, Transformed
<1>6. \A g \in Fields(c) : g \in status[<<"put", c>>] =>
                             avcnt[c][g] = 1 /\ avect[c][g] = PutAt(s.msec)
  BY <1>2 DEF Collects
<1>7. \A g \in Fields(c) : g \in status[<<"put", c>>] => s.msec \in PutDates(c, g)
  BY <1>2, PastKind
<1> QED
  BY <1>1, <1>2, <1>5, <1>6, <1>7

\* Without a transformation a message holds the put of its date.
LEMMA InstantWindow ==
  ASSUME TypeOK, Regular, NEW c \in Exchanged, Nam[c].trans = "instant",
         NEW g, NEW t \in PutDates(c, g)
  PROVE  Window(c, g, t + Nam[c].lag) = {[run |-> run, at |-> t]}
<1>1. t \in 0..(RunTime - 1) /\ Nam[c].lag \in Int /\ RunTime \in Nat
  BY PutOfDate, SourceFacts
<1>2. (t + Nam[c].lag) - Nam[c].lag = t
  BY <1>1
<1>3. Window(c, g, t + Nam[c].lag)
        = {x \in Puts(c, g) : Since(x) > t - 1 /\ Since(x) <= t}
  BY <1>2 DEF Window
<1>4. ASSUME NEW x \in Puts(c, g), Since(x) > t - 1, Since(x) <= t
      PROVE  x = [run |-> run, at |-> t]
  <2>1. /\ x = [run |-> x.run, at |-> x.at] /\ x.run \in 1..run /\ run \in Int
        /\ Since(x) \in Int
        /\ x.run < run => Since(x) < 0
        /\ x.run = run => Since(x) = x.at
    BY PutSince
  <2>2. Since(x) = t
    BY <1>1, <1>4, <2>1
  <2>3. x.run = run
    BY <1>1, <2>1, <2>2
  <2> QED
    BY <2>1, <2>2, <2>3
<1>5. PICK y : y = [run |-> run, at |-> t]
  OBVIOUS
<1>6. y \in Puts(c, g)
  BY <1>5 DEF Puts, TypeOK
<1>7. Since(y) = t
  BY <1>5, <1>6, PutSince
<1> QED
  BY <1>1, <1>3, <1>4, <1>5, <1>6, <1>7

\* The message of a put of the run proper is made of the puts of its period
LEMMA RunSent ==
  ASSUME TypeOK, InScript, Regular, PutProgresses, NEW c \in Exchanged,
         \A g \in Fields(c) : Collects(c, g),
         NEW p, Putting(p, c), ~Now(p).rest, CommNow(Now(p)), NEW g \in Fields(c)
  PROVE  MadeOf(Averaged(p, Now(p))[g], c, Window(c, g, Mseclag(Now(p))))
<1>1. PICK s : s = Now(p)
  OBVIOUS
<1>2. /\ TimeNow(s) /\ status[<<"put", c>>] \cup {s.fld} = Fields(c)
      /\ Averaged(p, s)[g] = Mean(Collected(p, s)[g], Counted(s)[g])
  BY <1>1, CommFacts
<1>3. CASE Nam[c].trans = "instant"
  <2>1. /\ Counted(s)[g] = 1 /\ Collected(p, s)[g] = PutAt(s.msec)
        /\ s.msec \in PutDates(c, g)
    BY <1>1, <1>2, <1>3, InstantSent
  <2>2. Averaged(p, s)[g] = PutAt(s.msec)
    BY <1>2, <2>1 DEF Mean
  <2>3. Window(c, g, Mseclag(s)) = {[run |-> run, at |-> s.msec]}
    <3>1. Mseclag(s) = s.msec + Nam[c].lag
      BY <1>1, PuttingFacts
    <3> QED
      BY <1>3, <2>1, <3>1, InstantWindow
  <2> QED
    BY <1>1, <2>2, <2>3, MadeOfOne
<1>4. CASE Nam[c].trans # "instant"
  <2>1. Sums(Collected(p, s)[g], Counted(s)[g], c, WithPut(c, g, s))
    BY <1>1, <1>4, PutCollected
  <2>2. WithPut(c, g, s) = Window(c, g, Mseclag(s))
    BY <1>1, <1>2, <1>4, PeriodOver
  <2>3. Collected(p, s)[g] \in Values /\ Counted(s)[g] \in Nat
    <3>1. p \in Proc /\ Runs(p, {"put"}) /\ s.cpl = c
      BY <1>1 DEF Putting, Visiting, Runs
    <3>2. Collected(p, s) \in Tables(c) /\ Counted(s) \in Counts(c)
      BY <1>1, <3>1, PutTypes
    <3> QED
      BY <3>2 DEF Tables, Counts
  <2> QED
    BY <1>1, <1>2, <2>1, <2>2, <2>3, SumsMean
<1> QED
  BY <1>3, <1>4

\* What a put sends, or writes at the end of the run, is what the coupling time
\* asks for, whatever the transformation.
LEMMA MessageExact ==
  ASSUME TypeOK, InScript, Regular, PutProgresses, NEW c \in Exchanged,
         \A g \in Fields(c) : Collects(c, g) /\ LagFile(c, g),
         NEW p, Putting(p, c), CommNow(Now(p)), NEW g \in Fields(c)
  PROVE  Expected(Averaged(p, Now(p))[g], c, g, Mseclag(Now(p)))
<1>1. PICK s : s = Now(p)
  OBVIOUS
<1>2. /\ TimeNow(s) /\ status[<<"put", c>>] \cup {s.fld} = Fields(c)
      /\ Averaged(p, s)[g] = Mean(Collected(p, s)[g], Counted(s)[g])
  BY <1>1, CommFacts
<1>3. CASE s.rest
  <2>1. Counted(s)[g] = 1 /\ Collected(p, s)[g] = rst[c].flds[g]
    BY <1>1, <1>2, <1>3, RestartSent
  <2>2. Averaged(p, s)[g] = rst[c].flds[g]
    BY <1>2, <2>1 DEF Mean
  <2>3. Restoring(c) /\ Mseclag(s) = 0
    BY <1>1, <1>2, <1>3, RestartPut
  <2>4. Expected(rst[c].flds[g], c, g, 0)
    BY <2>3 DEF LagFile, Restoring
  <2> QED
    BY <1>1, <2>2, <2>3, <2>4
<1>4. CASE ~s.rest
  <2>1. MadeOf(Averaged(p, s)[g], c, Window(c, g, Mseclag(s)))
    BY <1>1, <1>4, RunSent
  <2>2. ~(Mseclag(s) = 0 /\ Nam[c].lag > 0)
    <3>1. s.msec \in 0..(RunTime - 1)
      BY <1>1, <1>4, RunPut
    <3>2. Mseclag(s) = s.msec + Nam[c].lag
      BY <1>1, PuttingFacts
    <3>3. Nam[c].lag \in Int /\ RunTime \in Nat
      BY SourceFacts
    <3> QED
      BY <3>1, <3>2, <3>3
  <2> QED
    BY <1>1, <2>1, <2>2 DEF Expected
<1> QED
  BY <1>3, <1>4

-----------------------------------------------------------------------------
(* The steps and the data *)

\* What the data of a coupler depend on
LEMMA SameRun ==
  ASSUME NEW c, NEW f, run' = run
  PROVE  /\ Puts(c, f)' = Puts(c, f)
         /\ \A x : Since(x)' = Since(x)
         /\ \A t : Window(c, f, t)' = Window(c, f, t)
         /\ Carried(c, f)' = Carried(c, f)
         /\ \A v, t : Expected(v, c, f, t)' <=> Expected(v, c, f, t)
BY DEF Puts, PutDates, Since, Date, Window, Carried, Expected, MadeOf, Lists

LEMMA SumsKept ==
  ASSUME NEW c, NEW f, rst' = rst, Carried(c, f)' = Carried(c, f),
         Sums(rst[c].av[f], rst[c].cnt[f], c, Carried(c, f))
  PROVE  Sums(rst[c].av[f], rst[c].cnt[f], c, Carried(c, f))'
OBVIOUS

\* A step that leaves the data and the past of a source leaves the invariant.
LEMMA DataKept ==
  ASSUME NEW c \in Exchanged, run' = run,
         status'[<<"put", c>>] = status[<<"put", c>>],
         ltime'[<<"put", c>>] = ltime[<<"put", c>>],
         avcnt'[c] = avcnt[c], avect'[c] = avect[c], rst'[c] = rst[c],
         \A f, t : Past(<<"put", c>>, f, t)' <=> Past(<<"put", c>>, f, t),
         Loaded(c)' <=> Loaded(c)
  PROVE  /\ SumFile(c) => SumFile(c)'
         /\ \A f \in Fields(c) : /\ Collects(c, f) => Collects(c, f)'
                                 /\ LagFile(c, f) => LagFile(c, f)'
<1>1. /\ Started(<<"put", c>>)' <=> Started(<<"put", c>>)
      /\ NextDate(<<"put", c>>)' = NextDate(<<"put", c>>)
      /\ Restoring(c)' <=> Restoring(c)
      /\ Saving(c)' <=> Saving(c)
  BY DEF Started, NextDate, Restoring, Saving, Fields, LagOf
<1>2. \A f : Collecting(c, f)' = Collecting(c, f)
  <2>1. \A f : Puts(c, f)' = Puts(c, f) /\ \A x : Since(x)' = Since(x)
    BY SameRun
  <2> QED
    BY <1>1, <2>1 DEF Collecting
<1>3. SumFile(c) => SumFile(c)'
  <2>1. \A f : Carried(c, f)' = Carried(c, f)
    BY SameRun
  <2> QED
    BY <1>1, <2>1 DEF SumFile, Sums, Lists, Fields, Date
<1>4. ASSUME NEW f \in Fields(c), Collects(c, f)
      PROVE  Collects(c, f)'
  BY <1>1, <1>2, <1>4 DEF Collects, Sums, Lists, PutAt, Date
<1>5. ASSUME NEW f \in Fields(c), LagFile(c, f)
      PROVE  LagFile(c, f)'
  <2>1. /\ \A t : Window(c, f, t)' = Window(c, f, t)
        /\ \A v, t : Expected(v, c, f, t)' <=> Expected(v, c, f, t)
    BY SameRun
  <2> QED
    BY <1>1, <1>5, <2>1 DEF LagFile, Expected, MadeOf, Lists, Date
<1> QED
  BY <1>3, <1>4, <1>5

\* What a put does to the data
LEMMA DataEffect ==
  ASSUME TypeOK, NEW c, NEW p, Putting(p, c),
         PutHold(p) \/ PutSend(p) \/ PutFile(p)
  PROVE  LET s == Now(p) IN
         /\ run' = run
         /\ avcnt' = [avcnt EXCEPT ![c] = IF CommNow(s) THEN NoCount(c) ELSE Counted(s)]
         /\ avect' = [avect EXCEPT ![c] = IF CommNow(s) THEN Zeros(c)
                                                        ELSE Collected(p, s)]
         /\ rst' = [rst EXCEPT ![c] =
              IF CommNow(s)
              THEN SavePartial(s, SaveLag(p, s, rst[c]), NoCount(c), Zeros(c))
              ELSE SavePartial(s, rst[c], Counted(s), Collected(p, s))]
<1>1. Now(p).cpl = c /\ Now(p).op = "put"
  BY DEF Putting
<1>2. CASE PutHold(p)
  BY <1>1, <1>2 DEF PutHold, Visited
<1>3. CASE PutSend(p)
  <2>1. ~AtEnd(Now(p)) /\ p \in Proc /\ Visiting(p)
    BY <1>3 DEF PutSend, Putting, Visiting
  <2>2. Mseclag(Now(p)) \in Int /\ RunTime \in Int
    BY <2>1, VisitingFacts, NamAssumption
  <2>3. ~WritesLagRestart(Now(p))
    BY <2>1, <2>2 DEF AtEnd, WritesLagRestart
  <2>4. SaveLag(p, Now(p), rst[c]) = rst[c]
    BY <2>3 DEF SaveLag
  <2> QED
    BY <1>1, <1>3, <2>4 DEF PutSend, ResetPut, Visited
<1>4. CASE PutFile(p)
  BY <1>1, <1>4 DEF PutFile, ResetPut, Visited
<1> QED
  BY <1>2, <1>3, <1>4

\* The same, for the coupler
LEMMA PutState ==
  ASSUME TypeOK, Regular, NEW c \in Exchanged, NEW p, Putting(p, c),
         PutHold(p) \/ PutSend(p) \/ PutFile(p)
  PROVE  LET s == Now(p) e == <<"put", c>> IN
         /\ run' = run /\ (Loaded(c)' <=> Loaded(c))
         /\ \A f, t : Past(e, f, t)' <=> \/ Past(e, f, t)
                                         \/ VisitOf(e, f, s) /\ s.msec = t
         /\ IF CommNow(s)
            THEN /\ ltime'[e] = s.msec /\ status'[e] = {}
                 /\ avcnt'[c] = NoCount(c) /\ avect'[c] = Zeros(c)
                 /\ rst'[c] = SavePartial(s, SaveLag(p, s, rst[c]), NoCount(c), Zeros(c))
            ELSE /\ ltime'[e] = ltime[e] /\ status'[e] = ReadyFields(s)
                 /\ avcnt'[c] = Counted(s) /\ avect'[c] = Collected(p, s)
                 /\ rst'[c] = SavePartial(s, rst[c], Counted(s), Collected(p, s))
<1>1. PICK s, e : s = Now(p) /\ e = <<"put", c>>
  OBVIOUS
<1>2. /\ p \in Proc /\ p = Nam[c].src /\ End(s) = e /\ s.op = "put"
      /\ c \in Couplers /\ e \in Ends /\ Owner(e) = p
  BY <1>1, PuttingFacts, SourceFacts DEF Putting
<1>3. /\ pos' = [pos EXCEPT ![p] = pos[p] + 1]
      /\ ltime' = IF CommNow(s) THEN [ltime EXCEPT ![e] = s.msec] ELSE ltime
      /\ status' = [status EXCEPT ![e] = IF CommNow(s) THEN {} ELSE ReadyFields(s)]
  BY <1>1, <1>2, PutEffect
<1>4. /\ run' = run
      /\ avcnt' = [avcnt EXCEPT ![c] = IF CommNow(s) THEN NoCount(c) ELSE Counted(s)]
      /\ avect' = [avect EXCEPT ![c] = IF CommNow(s) THEN Zeros(c) ELSE Collected(p, s)]
      /\ rst' = [rst EXCEPT ![c] =
           IF CommNow(s)
           THEN SavePartial(s, SaveLag(p, s, rst[c]), NoCount(c), Zeros(c))
           ELSE SavePartial(s, rst[c], Counted(s), Collected(p, s))]
  BY <1>1, DataEffect
<1>5. /\ e \in DOMAIN ltime /\ e \in DOMAIN status
      /\ c \in DOMAIN avcnt /\ c \in DOMAIN avect /\ c \in DOMAIN rst
  BY <1>2 DEF TypeOK, PerCoupler
<1>6. Loaded(c)' <=> Loaded(c)
  BY <1>1, <1>2, <1>3, LoadedStep DEF LoadOf
<1>7. \A f, t : Past(e, f, t)' <=> Past(e, f, t) \/ (VisitOf(e, f, s) /\ s.msec = t)
  BY <1>1, <1>2, <1>3, PastStep
<1>8. CASE CommNow(s)
  BY <1>1, <1>3, <1>4, <1>5, <1>6, <1>7, <1>8
<1>9. CASE ~CommNow(s)
  BY <1>1, <1>3, <1>4, <1>5, <1>6, <1>7, <1>9
<1> QED
  BY <1>8, <1>9

\* A restart visit is too early to write partial results
LEMMA RestartSaves ==
  ASSUME TypeOK, Regular, NEW c \in Exchanged, NEW p, Putting(p, c), Now(p).rest,
         NEW file, NEW cnt, NEW av
  PROVE  SavePartial(Now(p), file, cnt, av) = file
<1>1. PICK s : s = Now(p)
  OBVIOUS
<1>2. /\ p = Nam[c].src /\ s = Script[p][pos[p]] /\ pos[p] \in DOMAIN Script[p]
      /\ s.op = "put" /\ s.cpl = c /\ s.rest
  BY <1>1, PuttingFacts DEF Putting
<1>3. Nam[c].trans # "instant" => Mseclag(s) + Nam[c].dt < RunTime
  BY <1>2, SourceFacts DEF Restarts
<1>4. Mseclag(s) \in Int /\ Nam[c].dt \in Nat /\ RunTime \in Nat
  <2>1. Mseclag(s) = s.msec + Nam[c].lag /\ s.msec \in Int
    BY <1>1, PuttingFacts
  <2>2. Nam[c].lag \in Int /\ Nam[c].dt \in Nat \ {0} /\ RunTime \in Nat \ {0}
    BY SourceFacts
  <2> QED
    BY <2>1, <2>2
<1>5. Nam[c].trans # "instant" => ~(Mseclag(s) + Nam[c].dt >= RunTime)
  BY <1>3, <1>4
<1> QED
  BY <1>1, <1>2, <1>5 DEF SavePartial

\* A restart visit keeps it: it collects the field of the file, and the last
\* field of the coupler sends them.
LEMMA RestartData ==
  ASSUME TypeOK, InScript, Regular, PutProgresses, NEW c \in Exchanged,
         SumFile(c), \A f \in Fields(c) : Collects(c, f) /\ LagFile(c, f),
         NEW p, Putting(p, c), Now(p).rest,
         PutHold(p) \/ PutSend(p) \/ PutFile(p)
  PROVE  SumFile(c)' /\ \A f \in Fields(c) : Collects(c, f)' /\ LagFile(c, f)'
<1>1. PICK s, e : s = Now(p) /\ e = <<"put", c>>
  OBVIOUS
<1>2. /\ run' = run /\ (Loaded(c)' <=> Loaded(c))
      /\ \A f, t : Past(e, f, t)' <=> Past(e, f, t) \/ (VisitOf(e, f, s) /\ s.msec = t)
      /\ IF CommNow(s)
         THEN /\ ltime'[e] = s.msec /\ status'[e] = {}
              /\ avcnt'[c] = NoCount(c) /\ avect'[c] = Zeros(c)
              /\ rst'[c] = SaveLag(p, s, rst[c])
         ELSE /\ ltime'[e] = ltime[e] /\ status'[e] = ReadyFields(s)
              /\ avcnt'[c] = Counted(s) /\ avect'[c] = Collected(p, s)
              /\ rst'[c] = rst[c]
  BY <1>1, PutState, RestartSaves
<1>3. /\ CommNow(s) <=> TimeNow(s) /\ status[e] \cup {s.fld} = Fields(c)
      /\ ReadyFields(s) = IF TimeNow(s) THEN status[e] \cup {s.fld} ELSE status[e]
  BY <1>1, CommFacts
<1>4. s.fld \in Fields(c) /\ s.rest /\ s.cpl = c /\ Instant(s)
  BY <1>1, PuttingFacts DEF Putting, Instant
<1>5. CASE ~TimeNow(s)
  <2>1. Counted(s) = avcnt[c] /\ Collected(p, s) = avect[c]
    BY <1>1, <1>4, <1>5, Transformed
  <2>2. \A f, t : Past(e, f, t)' <=> Past(e, f, t)
    BY <1>2, <1>4, <1>5 DEF VisitOf
  <2>3. /\ status'[e] = status[e] /\ ltime'[e] = ltime[e]
        /\ avcnt'[c] = avcnt[c] /\ avect'[c] = avect[c] /\ rst'[c] = rst[c]
    BY <1>2, <1>3, <1>5, <2>1
  <2> QED
    BY <1>1, <1>2, <2>2, <2>3, DataKept
<1>6. CASE TimeNow(s)
  <2>1. /\ Restoring(c) /\ ~Loaded(c) /\ ~Saving(c)
        /\ Mseclag(s) = 0 /\ s.msec < 0 /\ s.msec \in Int
        /\ Nam[c].lag \in Int /\ Mseclag(s) = s.msec + Nam[c].lag /\ RunTime \in Nat \ {0}
    BY <1>1, <1>4, <1>6, RestartPut, PuttingFacts, SourceFacts
  <2>2. \A f \in Fields(c) : f \in status[e] \cup {s.fld} =>
          Counted(s)[f] = 1 /\ Collected(p, s)[f] = rst[c].flds[f]
    BY <1>1, <1>4, <1>6, RestartSent
  <2>3. rst'[c] = rst[c]
    <3>1. ~WritesLagRestart(s)
      BY <2>1 DEF WritesLagRestart
    <3> QED
      BY <1>2, <3>1 DEF SaveLag
  <2>4. ~Saving(c)'
    <3> SUFFICES ASSUME NEW f \in Fields(c), NEW t \in 0..(RunTime - 1), Past(e, f, t)',
                        t + Nam[c].lag + Nam[c].dt >= RunTime
                 PROVE  FALSE
      BY <1>1 DEF Saving, Fields
    <3>1. t >= 0
      BY <2>1
    <3>2. s.msec # t
      BY <2>1, <3>1
    <3>3. Past(e, f, t)
      BY <1>2, <3>2
    <3> QED
      BY <1>1, <3>3, <2>1 DEF Saving
  <2>5. SumFile(c)'
    <3>1. \A f : Carried(c, f)' = Carried(c, f)
      BY <1>2, SameRun
    <3> QED
      BY <1>2, <2>1, <2>3, <2>4, <3>1 DEF SumFile, Fields
  <2>6. /\ Nam[c].lag > 0 /\ ~Started(e)
        /\ \A f \in Fields(c) : Expected(rst[c].flds[f], c, f, 0)
    BY <1>1, <2>1 DEF LagFile, Restoring
  <2>7. \A v, f : Expected(v, c, f, 0)' <=> Expected(v, c, f, 0)
    BY <1>2, SameRun
  <2>8. \A f \in Fields(c) : Expected(rst[c].flds[f], c, f, 0)'
    BY <2>3, <2>6, <2>7, <1>2, ZenonT(30) DEF Expected, MadeOf, Lists, Date
  <2>9. CASE ~CommNow(s)
    <3>1. ltime'[e] = ltime[e] /\ status'[e] = status[e] \cup {s.fld}
          /\ avcnt'[c] = Counted(s) /\ avect'[c] = Collected(p, s)
      BY <1>2, <1>3, <1>6, <2>9
    <3>2. ~Started(e)' /\ Restoring(c)'
      BY <1>1, <2>6, <3>1 DEF Started, Restoring
    <3>3. \A f \in Fields(c) : Collects(c, f)'
      BY <1>1, <2>2, <2>3, <3>1, <3>2 DEF Collects
    <3>4. \A f \in Fields(c) : LagFile(c, f)'
      BY <1>1, <2>8, <3>2 DEF LagFile
    <3> QED
      BY <2>5, <3>3, <3>4 DEF Fields
  <2>10. CASE CommNow(s)
    <3>1. ltime'[e] = s.msec /\ status'[e] = {}
          /\ avcnt'[c] = NoCount(c) /\ avect'[c] = Zeros(c)
      BY <1>2, <2>10
    <3>2. s.msec # ISPVAL
      BY <1>1, VisitingFacts DEF Putting
    <3>3. Started(e)' /\ ~Restoring(c)' /\ ~Loaded(c)'
      BY <1>1, <1>2, <2>1, <3>1, <3>2 DEF Started, Restoring
    <3>4. \A f \in Fields(c) : Collects(c, f)'
      BY <1>1, <3>1, <3>3 DEF Collects, NoCount, Zeros
    <3>5. ltime'[e] + Nam[c].lag # RunTime
      BY <2>1, <3>1
    <3>6. \A f \in Fields(c) : LagFile(c, f)'
      BY <1>1, <2>8, <3>5 DEF LagFile
    <3> QED
      BY <2>5, <3>4, <3>6 DEF Fields
  <2> QED
    BY <2>9, <2>10
<1> QED
  BY <1>5, <1>6

\* The last send of a lagged field of a run is written to its restart file
LEMMA RunLagFile ==
  ASSUME TypeOK, InScript, Regular, PutProgresses, NEW c \in Exchanged,
         \A f \in Fields(c) : Collects(c, f) /\ LagFile(c, f),
         NEW p, Putting(p, c), ~Now(p).rest,
         PutHold(p) \/ PutSend(p) \/ PutFile(p), NEW f \in Fields(c)
  PROVE  LagFile(c, f)'
<1> SUFFICES ASSUME Nam[c].lag > 0
             PROVE  LagFile(c, f)'
  BY DEF LagFile
<1>1. PICK s, e : s = Now(p) /\ e = <<"put", c>>
  OBVIOUS
<1>2. /\ run' = run
      /\ IF CommNow(s)
         THEN /\ ltime'[e] = s.msec
              /\ rst'[c] = SavePartial(s, SaveLag(p, s, rst[c]), NoCount(c), Zeros(c))
         ELSE /\ ltime'[e] = ltime[e]
              /\ rst'[c] = SavePartial(s, rst[c], Counted(s), Collected(p, s))
  BY <1>1, PutState
<1>3. \A file, cnt, av : SavePartial(s, file, cnt, av).flds = file.flds
  BY DEF SavePartial
<1>4. /\ \A t : Window(c, f, t)' = Window(c, f, t)
      /\ \A v, t : Expected(v, c, f, t)' <=> Expected(v, c, f, t)
  BY <1>2, SameRun
<1>5. CASE ~CommNow(s)
  <2>1. ltime'[e] = ltime[e] /\ rst'[c].flds = rst[c].flds
    BY <1>2, <1>3, <1>5
  <2>2. Started(e)' <=> Started(e)
    BY <2>1 DEF Started
  <2> QED
    BY <1>1, <1>4, <2>1, <2>2 DEF LagFile, Expected, MadeOf, Lists, Date
<1>6. CASE CommNow(s)
  <2>1. ltime'[e] = s.msec /\ rst'[c].flds = SaveLag(p, s, rst[c]).flds
    BY <1>2, <1>3, <1>6
  <2>2. s.msec # ISPVAL /\ Mseclag(s) = s.msec + Nam[c].lag /\ TimeNow(s)
        /\ s.cpl = c /\ s.fld \in Fields(c)
    BY <1>1, <1>6, VisitingFacts, PuttingFacts DEF Putting, CommNow
  <2>3. Started(e)'
    BY <2>1, <2>2 DEF Started
  <2>4. CASE Mseclag(s) = RunTime
    <3>1. MadeOf(Averaged(p, s)[f], c, Window(c, f, RunTime))
      BY <1>1, <1>6, <2>4, RunSent
    <3>2. WritesLagRestart(s)
      BY <2>2, <2>4 DEF WritesLagRestart
    <3>3. rst'[c].flds = Averaged(p, s)
      <4>1. rst[c] \in Files(c)
        BY SourceFacts DEF TypeOK
      <4> QED
        BY <2>1, <3>2, <4>1 DEF SaveLag, Files
    <3>4. ltime'[e] + Nam[c].lag = RunTime
      BY <2>1, <2>2, <2>4
    <3> QED
      BY <1>1, <1>4, <2>3, <3>1, <3>3, <3>4 DEF LagFile, MadeOf, Lists, Date
  <2>5. CASE Mseclag(s) # RunTime
    <3>1. rst'[c].flds = rst[c].flds
      BY <2>1, <2>2, <2>5 DEF SaveLag, WritesLagRestart
    <3>2. ltime'[e] + Nam[c].lag # RunTime
      BY <2>1, <2>2, <2>5
    <3>3. ~(Started(e) /\ ltime[e] + Nam[c].lag = RunTime)
      <4> SUFFICES ASSUME Started(e), ltime[e] + Nam[c].lag = RunTime
                   PROVE  FALSE
        OBVIOUS
      <4>1. /\ s.msec = NextDate(e) /\ s.msec \in 0..(RunTime - 1)
            /\ AtVisit(e, s.fld)
        BY <1>1, <2>2, RunPut
      <4>2. /\ e \in Ends /\ ltime[e] \in Int /\ Nam[c].lag \in Int
            /\ Nam[c].dt \in Nat \ {0} /\ RunTime \in Nat /\ Nam[c].lag <= Nam[c].dt
        BY <1>1, SourceFacts DEF TypeOK
      <4>3. s.msec = ltime[e] + Nam[c].dt
        BY <1>1, <4>1 DEF NextDate
      <4>4. PICK l, d, m, r : l = Nam[c].lag /\ d = Nam[c].dt /\ m = ltime[e] /\ r = RunTime
        OBVIOUS
      <4>5. m + d < r /\ m + l = r /\ l <= d
        BY <4>1, <4>2, <4>3, <4>4
      <4> QED
        BY <4>2, <4>4, <4>5
    <3>4. Expected(rst[c].flds[f], c, f, 0)
      BY <1>1, <3>3 DEF LagFile
    <3> QED
      BY <1>1, <1>2, <1>4, <3>1, <3>2, <3>4 DEF LagFile, Expected, MadeOf, Lists, Date
  <2> QED
    BY <2>4, <2>5
<1> QED
  BY <1>5, <1>6

\* The sums are in the restart file from the first put of the last period on
LEMMA RunSumFile ==
  ASSUME TypeOK, InScript, Regular, PutProgresses, NEW c \in Exchanged, SumFile(c),
         NEW p, Putting(p, c), ~Now(p).rest,
         PutHold(p) \/ PutSend(p) \/ PutFile(p)
  PROVE  SumFile(c)'
<1> SUFFICES ASSUME Nam[c].trans # "instant"
             PROVE  SumFile(c)'
  BY DEF SumFile
<1>1. PICK s, e : s = Now(p) /\ e = <<"put", c>>
  OBVIOUS
<1>2. /\ run' = run
      /\ \A f, t : Past(e, f, t)' <=> Past(e, f, t) \/ (VisitOf(e, f, s) /\ s.msec = t)
      /\ rst'[c] = SavePartial(s, IF CommNow(s) THEN SaveLag(p, s, rst[c]) ELSE rst[c],
                               avcnt'[c], avect'[c])
  BY <1>1, PutState
<1>3. /\ s.cpl = c /\ s.fld \in Fields(c) /\ Mseclag(s) = s.msec + Nam[c].lag
      /\ s.msec \in 0..(RunTime - 1) /\ AtVisit(e, s.fld)
      /\ VisitOf(e, s.fld, s) /\ Forwards(e) /\ Owner(e) = p
      /\ Nam[c].lag \in Int /\ Nam[c].dt \in Nat \ {0} /\ RunTime \in Nat \ {0}
  <2>1. /\ s.cpl = c /\ s.fld \in Fields(c) /\ Mseclag(s) = s.msec + Nam[c].lag
        /\ p = Nam[c].src
    BY <1>1, PuttingFacts DEF Putting
  <2>2. s.msec \in 0..(RunTime - 1) /\ AtVisit(e, s.fld)
    BY <1>1, RunPut
  <2>3. /\ Forwards(e) /\ Owner(e) = p /\ Nam[c].lag \in Int
        /\ Nam[c].dt \in Nat \ {0} /\ RunTime \in Nat \ {0}
    BY <1>1, <2>1, SourceFacts
  <2>4. VisitOf(e, s.fld, s)
    BY <1>1, <2>2, <2>3 DEF AtVisit
  <2> QED
    BY <2>1, <2>2, <2>3, <2>4
<1>4. CASE Mseclag(s) + Nam[c].dt >= RunTime
  <2>1. Past(e, s.fld, s.msec)'
    BY <1>2, <1>3
  <2>2. s.msec + Nam[c].lag + Nam[c].dt >= RunTime
    BY <1>3, <1>4
  <2>3. Saving(c)'
    BY <1>1, <1>3, <2>1, <2>2 DEF Saving, Fields
  <2>4. rst'[c].saved /\ rst'[c].cnt = avcnt'[c] /\ rst'[c].av = avect'[c]
    BY <1>2, <1>3, <1>4 DEF SavePartial
  <2> QED
    BY <2>3, <2>4 DEF SumFile
<1>5. CASE ~(Mseclag(s) + Nam[c].dt >= RunTime)
  <2>1. ~WritesLagRestart(s)
    <3>1. Mseclag(s) # RunTime
      BY <1>3, <1>5
    <3> QED
      BY <3>1 DEF WritesLagRestart
  <2>2. rst'[c] = rst[c]
    BY <1>2, <1>3, <1>5, <2>1 DEF SavePartial, SaveLag
  <2>3. ASSUME NEW t \in Int, t <= s.msec
        PROVE  ~(t + Nam[c].lag + Nam[c].dt >= RunTime)
    <3>1. s.msec \in Int /\ ~((s.msec + Nam[c].lag) + Nam[c].dt >= RunTime)
      BY <1>3, <1>5
    <3>2. Nam[c].lag \in Int /\ Nam[c].dt \in Int /\ RunTime \in Int
      BY <1>3
    <3> QED
      BY <3>1, <3>2, <2>3
  <2>4. ~Saving(c) /\ ~Saving(c)'
    <3>1. \A g, t : Past(e, g, t) => t \in Int /\ t <= s.msec
      BY <1>1, <1>3, PastOrder
    <3>2. \A g, t : Past(e, g, t)' => t \in Int /\ t <= s.msec
      BY <1>2, <1>3, <3>1
    <3> QED
      BY <1>1, <2>3, <3>1, <3>2 DEF Saving
  <2>5. \A f : Carried(c, f)' = Carried(c, f)
    BY <1>2, SameRun
  <2> QED
    BY <1>2, <2>2, <2>4, <2>5 DEF SumFile, Sums, Lists, Fields, Date
<1> QED
  BY <1>4, <1>5

\* A put of the run joins what is collected for the next message.
LEMMA CollectingPut ==
  ASSUME TypeOK, InScript, Regular, PutProgresses, NEW c \in Exchanged,
         NEW p, Putting(p, c), ~Now(p).rest, NEW g \in Fields(c),
         run' = run, NextDate(<<"put", c>>)' = NextDate(<<"put", c>>),
         \A f, t : Past(<<"put", c>>, f, t)' <=>
                     \/ Past(<<"put", c>>, f, t)
                     \/ VisitOf(<<"put", c>>, f, Now(p)) /\ Now(p).msec = t
  PROVE  Collecting(c, g)' = WithPut(c, g, Now(p))
<1>1. PICK s, e, y, N : /\ s = Now(p) /\ e = <<"put", c>> /\ N = NextDate(e)
                        /\ y = [run |-> run, at |-> s.msec]
  OBVIOUS
<1>2. /\ s.msec \in 0..(RunTime - 1) /\ s.msec \in PutDates(c, s.fld)
      /\ N - Nam[c].dt < s.msec /\ AtVisit(e, s.fld)
  BY <1>1, RunPut
<1>3. \A f : VisitOf(e, f, s) <=> f = s.fld
  <2>1. Owner(e) = p
    BY <1>1, PuttingFacts, SourceFacts
  <2> QED
    BY <1>1, <1>2, <2>1 DEF AtVisit, VisitOf
<1>4. Collecting(c, g)' = {x \in Puts(c, g) : /\ Since(x) > N - Nam[c].dt
                                              /\ x.run < run \/ Past(e, g, x.at)'}
  <2>1. Puts(c, g)' = Puts(c, g) /\ \A x : Since(x)' = Since(x)
    BY SameRun
  <2> QED
    BY <1>1, <2>1 DEF Collecting
<1>5. Collecting(c, g) = {x \in Puts(c, g) : /\ Since(x) > N - Nam[c].dt
                                             /\ x.run < run \/ Past(e, g, x.at)}
  BY <1>1 DEF Collecting
<1>6. \A t : Past(e, g, t)' <=> Past(e, g, t) \/ (g = s.fld /\ t = s.msec)
  BY <1>1, <1>3
<1>7. CASE g # s.fld
  BY <1>1, <1>4, <1>5, <1>6, <1>7 DEF WithPut
<1>8. CASE g = s.fld
  <2>1. y \in Puts(c, g) /\ y.at = s.msec
    BY <1>1, <1>2, <1>8 DEF Puts, TypeOK
  <2>2. Since(y) = s.msec
    BY <1>1, <2>1, PutSince
  <2>3. ASSUME NEW x \in Puts(c, g), ~(x.run < run), x.at = s.msec
        PROVE  x = y
    <3>1. x = [run |-> x.run, at |-> x.at] /\ x.run \in 1..run /\ run \in Int
      BY <2>3, PutSince
    <3> QED
      BY <1>1, <2>3, <3>1
  <2>4. Since(y) > N - Nam[c].dt
    <3>1. N \in Int /\ Nam[c].dt \in Nat /\ RunTime \in Nat
      BY <1>1, RunPut, SourceFacts
    <3> QED
      BY <1>2, <2>2, <3>1
  <2> QED
    BY <1>1, <1>4, <1>5, <1>6, <1>8, <2>1, <2>3, <2>4 DEF WithPut
<1> QED
  BY <1>7, <1>8

\* After the message nothing is collected.
LEMMA CollectingReset ==
  ASSUME TypeOK, TypeOK', InScript, Regular, PutProgresses, NEW c \in Exchanged,
         NEW p, Putting(p, c), ~Now(p).rest, NEW g \in Fields(c),
         run' = run, NextDate(<<"put", c>>)' = Now(p).msec + Nam[c].dt,
         \A f, t : Past(<<"put", c>>, f, t)' <=>
                     \/ Past(<<"put", c>>, f, t)
                     \/ VisitOf(<<"put", c>>, f, Now(p)) /\ Now(p).msec = t
  PROVE  Collecting(c, g)' = {}
<1>1. PICK s, e : s = Now(p) /\ e = <<"put", c>>
  OBVIOUS
<1>2. s.msec \in 0..(RunTime - 1) /\ AtVisit(e, s.fld)
  BY <1>1, RunPut
<1>3. /\ Owner(e) = p /\ Forwards(e) /\ Nam[c].dt \in Nat /\ RunTime \in Nat
  BY <1>1, PuttingFacts, SourceFacts
<1>4. \A t : Past(e, g, t)' => t <= s.msec
  <2>1. \A t : Past(e, g, t) => t <= s.msec
    BY <1>1, <1>2, <1>3, PastOrder
  <2> QED
    BY <1>1, <1>2, <2>1
<1>5. (s.msec + Nam[c].dt) - Nam[c].dt = s.msec
  BY <1>2, <1>3
<1>6. Collecting(c, g)' = {x \in Puts(c, g) : /\ Since(x) > s.msec
                                              /\ x.run < run \/ Past(e, g, x.at)'}
  <2>1. Puts(c, g)' = Puts(c, g) /\ \A x : Since(x)' = Since(x)
    BY SameRun
  <2> QED
    BY <1>1, <1>5, <2>1 DEF Collecting
<1>7. ASSUME NEW x \in Puts(c, g), Since(x) > s.msec, x.run < run \/ Past(e, g, x.at)'
      PROVE  FALSE
  <2>1. /\ Since(x) \in Int /\ x.run \in 1..run /\ run \in Int
        /\ x.at \in 0..(RunTime - 1)
        /\ x.run < run => Since(x) < 0
        /\ x.run = run => Since(x) = x.at
    BY PutSince
  <2>2. CASE x.run < run
    BY <1>2, <1>7, <2>1, <2>2
  <2>3. CASE ~(x.run < run)
    <3>1. x.run = run /\ x.at <= s.msec
      BY <1>4, <1>7, <2>1, <2>3
    <3> QED
      BY <1>2, <1>7, <2>1, <3>1
  <2> QED
    BY <2>2, <2>3
<1> QED
  BY <1>6, <1>7

\* A put of the run keeps what is collected.
LEMMA RunCollects ==
  ASSUME TypeOK, TypeOK', InScript, Regular, PutProgresses, NEW c \in Exchanged,
         \A f \in Fields(c) : Collects(c, f),
         NEW p, Putting(p, c), ~Now(p).rest,
         PutHold(p) \/ PutSend(p) \/ PutFile(p), NEW g \in Fields(c)
  PROVE  Collects(c, g)'
<1>1. PICK s, e : s = Now(p) /\ e = <<"put", c>>
  OBVIOUS
<1>2. /\ run' = run /\ (Loaded(c)' <=> Loaded(c))
      /\ \A f, t : Past(e, f, t)' <=> Past(e, f, t) \/ (VisitOf(e, f, s) /\ s.msec = t)
      /\ IF CommNow(s)
         THEN /\ ltime'[e] = s.msec /\ status'[e] = {}
              /\ avcnt'[c] = NoCount(c) /\ avect'[c] = Zeros(c)
         ELSE /\ ltime'[e] = ltime[e] /\ status'[e] = ReadyFields(s)
              /\ avcnt'[c] = Counted(s) /\ avect'[c] = Collected(p, s)
  BY <1>1, PutState
<1>3. /\ CommNow(s) <=> TimeNow(s) /\ status[e] \cup {s.fld} = Fields(c)
      /\ ReadyFields(s) = IF TimeNow(s) THEN status[e] \cup {s.fld} ELSE status[e]
  BY <1>1, CommFacts
<1>4. /\ ~Restoring(c) /\ Loaded(c) /\ (TimeNow(s) <=> s.msec = NextDate(e))
      /\ s.msec # ISPVAL
  BY <1>1, RunPut, VisitingFacts DEF Putting
<1>5. ~Restoring(c)' /\ Loaded(c)'
      /\ NextDate(e)' = IF CommNow(s) THEN s.msec + Nam[c].dt ELSE NextDate(e)
  BY <1>1, <1>2, <1>4 DEF Restoring, Started, NextDate, LagOf
<1>6. CASE Nam[c].trans = "instant"
  <2>1. \A t : PutAt(t)' = PutAt(t)
    BY <1>2 DEF PutAt
  <2>2. CASE CommNow(s)
    BY <1>1, <1>2, <1>5, <1>6, <2>2 DEF Collects
  <2>3. CASE ~CommNow(s) /\ TimeNow(s)
    <3>1. \A f \in Fields(c) : f \in status[e] \cup {s.fld} =>
            Counted(s)[f] = 1 /\ Collected(p, s)[f] = PutAt(s.msec)
      BY <1>1, <1>6, <2>3, InstantSent
    <3>2. g \in status'[e] => avcnt'[c][g] = 1 /\ avect'[c][g] = PutAt(NextDate(e))
      BY <1>2, <1>3, <1>4, <2>3, <3>1
    <3> QED
      BY <1>1, <1>2, <1>5, <1>6, <2>3, <3>2 DEF Collects, PutAt
  <2>4. CASE ~CommNow(s) /\ ~TimeNow(s)
    <3>1. s.cpl = c
      BY <1>1 DEF Putting
    <3>2. Counted(s) = avcnt[c] /\ Collected(p, s) = avect[c]
      BY <1>1, <1>6, <2>4, <3>1, Transformed DEF Instant
    <3>3. /\ status'[e] = status[e] /\ avcnt'[c] = avcnt[c] /\ avect'[c] = avect[c]
          /\ NextDate(e)' = NextDate(e)
      BY <1>2, <1>3, <1>5, <2>4, <3>2
    <3>4. g \in status[e] => avcnt[c][g] = 1 /\ avect[c][g] = PutAt(NextDate(e))
      BY <1>1, <1>4, <1>6 DEF Collects
    <3> QED
      BY <1>1, <1>2, <1>5, <1>6, <3>3, <3>4 DEF Collects, PutAt
  <2> QED
    BY <2>2, <2>3, <2>4
<1>7. CASE Nam[c].trans # "instant"
  <2>1. CASE CommNow(s)
    <3>1. Collecting(c, g)' = {}
      BY <1>1, <1>2, <1>5, <2>1, CollectingReset
    <3>2. avect'[c][g] = Zero /\ avcnt'[c][g] = 0
      BY <1>2, <2>1 DEF NoCount, Zeros
    <3>3. Sums(Zero, 0, c, {})
      BY SumsNone
    <3> QED
      BY <1>1, <1>5, <1>7, <3>1, <3>2, <3>3 DEF Collects, Sums, Lists, Date
  <2>2. CASE ~CommNow(s)
    <3>1. Collecting(c, g)' = WithPut(c, g, s)
      BY <1>1, <1>2, <1>5, <2>2, CollectingPut
    <3>2. Sums(Collected(p, s)[g], Counted(s)[g], c, WithPut(c, g, s))
      BY <1>1, <1>7, PutCollected
    <3>3. PICK v, n, S : /\ v = Collected(p, s)[g] /\ n = Counted(s)[g]
                         /\ S = WithPut(c, g, s)
      OBVIOUS
    <3>4. avect'[c][g] = v /\ avcnt'[c][g] = n /\ Collecting(c, g)' = S
          /\ Sums(v, n, c, S)
      BY <1>2, <2>2, <3>1, <3>2, <3>3
    <3> QED
      BY <1>1, <1>5, <1>7, <3>4 DEF Collects, Sums, Lists, Date
  <2> QED
    BY <2>1, <2>2
<1> QED
  BY <1>6, <1>7

-----------------------------------------------------------------------------
(* The partial results are read *)

\* The source of c is about to read its partial results
Loading(p, c) ==
  p = Nam[c].src /\ pos[p] \in DOMAIN Script[p] /\ LoadOf(c, Now(p))

\* All that was put by then came from the restart file
LEMMA BeforeLoad ==
  ASSUME TypeOK, InScript, Regular, PutProgresses, NEW c \in Exchanged,
         NEW p, Loading(p, c)
  PROVE  LET e == <<"put", c>> IN
         /\ ~Loaded(c) /\ ~Saving(c) /\ ~Restoring(c)
         /\ \A f, t : Past(e, f, t) => t \in Int /\ t < 0
         /\ NextDate(e) - Nam[c].dt = IF Nam[c].lag > 0 THEN -Nam[c].lag
                                      ELSE -Nam[c].lag - Nam[c].dt
<1>1. PICK e : e = <<"put", c>>
  OBVIOUS
<1>2. /\ e \in Ends /\ Owner(e) = p /\ LagOf(e) = Nam[c].lag /\ e[2] = c
      /\ DOMAIN Script[p] = 1..Len(Script[p]) /\ Len(Script[p]) \in Nat
      /\ p = Nam[c].src /\ p \in Proc /\ Covered(e) /\ LoadedOnce(c)
      /\ 1 \in Fields(c)
  BY <1>1, SourceFacts DEF Loading
<1>3. Nam[c].lag \in Int /\ Nam[c].dt \in Nat \ {0} /\ RunTime \in Nat \ {0}
  BY SourceFacts
<1>4. pos[p] \in Nat \ {0} /\ pos[p] \in DOMAIN Script[p] /\ ltime[e] \in Int
      /\ status[e] \subseteq Fields(c) /\ PutProgress(e)
  BY <1>1, <1>2 DEF TypeOK, Loading, PutProgresses
<1>5. PICK l \in DOMAIN Script[p] : \A j \in DOMAIN Script[p] :
        /\ LoadOf(c, Script[p][j]) <=> j = l
        /\ Script[p][j].op = "put" /\ Script[p][j].cpl = c
           => (Script[p][j].rest <=> j < l)
  <2>1. LoadedOnce(c) /\ p = Nam[c].src
    BY <1>2
  <2> QED
    BY <2>1 DEF LoadedOnce
<1>6. pos[p] = l
  BY <1>4, <1>5 DEF Loading, Now
<1>7. ASSUME NEW j \in DOMAIN Script[p], NEW f, VisitOf(e, f, Script[p][j])
      PROVE  IF j < l THEN /\ Nam[c].lag > 0 /\ Script[p][j].msec = -Nam[c].lag
             ELSE Script[p][j].msec \in 0..(RunTime - 1)
  <2>1. Script[p][j].op = "put" /\ Script[p][j].cpl = c
    BY <1>1, <1>7 DEF VisitOf, End
  <2>2. Script[p][j].rest <=> j < l
    BY <1>5, <2>1
  <2> QED
    BY <1>1, <1>2, <1>7, <2>2, PutKind
<1>8. \A f, t : Past(e, f, t) => Nam[c].lag > 0 /\ t = -Nam[c].lag
  <2> SUFFICES ASSUME NEW f, NEW t, Past(e, f, t)
               PROVE  Nam[c].lag > 0 /\ t = -Nam[c].lag
    OBVIOUS
  <2>1. PICK j \in 1..(pos[p] - 1) : VisitOf(e, f, Script[p][j]) /\ Script[p][j].msec = t
    BY <1>2 DEF Past
  <2>2. j \in DOMAIN Script[p] /\ j < l
    BY <1>2, <1>4, <1>6, <2>1
  <2> QED
    BY <1>7, <2>1, <2>2
<1>9. \A f, t : Past(e, f, t) => t \in Int /\ t < 0
  BY <1>3, <1>8
<1>10. ASSUME Nam[c].lag > 0, NEW f \in Fields(c)
       PROVE  Past(e, f, -Nam[c].lag)
  <2>1. PICK t \in Int : t = -Nam[c].lag
    BY <1>3
  <2>2. CouplingDate(e, t)
    <3>1. t >= -LagOf(e) /\ t + LagOf(e) = 0 /\ 0 % Nam[c].dt = 0
      BY <1>2, <1>3, <2>1
    <3> QED
      BY <1>2, <3>1 DEF CouplingDate
  <2>3. t \in (-LagOf(e))..(RunTime - 1) /\ t < 0
    BY <1>2, <1>3, <1>10, <2>1
  <2>4. PICK j \in DOMAIN Script[p] : VisitOf(e, f, Script[p][j]) /\ Script[p][j].msec = t
    BY <1>2, <2>2, <2>3 DEF Covered
  <2>5. j < l
    <3>1. ~(Script[p][j].msec \in 0..(RunTime - 1))
      BY <2>3, <2>4
    <3> QED
      BY <1>7, <2>4, <3>1
  <2>6. j \in 1..(pos[p] - 1)
    BY <1>2, <1>4, <1>6, <2>5
  <2> QED
    BY <1>2, <2>1, <2>4, <2>6 DEF Past
<1>11. ASSUME Nam[c].lag > 0, ~Started(e)
       PROVE  FALSE
  <2>1. NextDate(e) = -Nam[c].lag
    BY <1>2, <1>11 DEF NextDate
  <2>2. \A f \in Fields(c) : f \in status[e]
    BY <1>2, <1>4, <1>10, <1>11, <2>1 DEF PutProgress
  <2> QED
    BY <1>2, <1>4, <2>2 DEF PutProgress
<1>12. ASSUME Started(e)
       PROVE  Nam[c].lag > 0 /\ ltime[e] = -Nam[c].lag
  <2>1. Past(e, 1, ltime[e])
    BY <1>2, <1>4, <1>12 DEF PutProgress
  <2> QED
    BY <1>8, <2>1
<1>13. NextDate(e) - Nam[c].dt = IF Nam[c].lag > 0 THEN -Nam[c].lag
                                 ELSE -Nam[c].lag - Nam[c].dt
  <2>1. CASE Started(e)
    <3>1. NextDate(e) = ltime[e] + Nam[c].dt
      BY <1>2, <2>1 DEF NextDate
    <3> QED
      BY <3>1, <1>3, <1>4, <1>12, <2>1
  <2>2. CASE ~Started(e)
    <3>1. NextDate(e) = -Nam[c].lag
      BY <1>2, <2>2 DEF NextDate
    <3> QED
      BY <3>1, <1>3, <1>11, <2>2
  <2> QED
    BY <2>1, <2>2
<1>14. ~Loaded(c)
  <2> SUFFICES ASSUME NEW j \in 1..(pos[p] - 1), LoadOf(c, Script[p][j])
               PROVE  FALSE
    BY <1>2 DEF Loaded
  <2>1. j \in DOMAIN Script[p] /\ j # l
    BY <1>2, <1>4, <1>6
  <2> QED
    BY <1>5, <2>1
<1>15. ~Saving(c)
  <2> SUFFICES ASSUME NEW f, NEW t \in 0..(RunTime - 1), Past(e, f, t)
               PROVE  FALSE
    BY <1>1 DEF Saving
  <2>1. t < 0 /\ t \in Int /\ t >= 0
    BY <1>3, <1>9
  <2> QED
    BY <2>1
<1> QED
  BY <1>1, <1>9, <1>11, <1>13, <1>14, <1>15 DEF Restoring

\* What Load changes.
LEMMA LoadState ==
  ASSUME TypeOK, NEW p \in Proc, Load(p)
  PROVE  LET c == Now(p).cpl IN
         /\ pos[p] \in DOMAIN Script[p] /\ LoadOf(c, Now(p)) /\ ~IsVisit(Now(p))
         /\ pos' = [pos EXCEPT ![p] = pos[p] + 1]
         /\ UNCHANGED <<status, ltime, chan, rst, run>>
         /\ IF Nam[c].trans # "instant" /\ rst[c].saved
            THEN /\ avcnt' = [avcnt EXCEPT ![c] = rst[c].cnt]
                 /\ avect' = [avect EXCEPT ![c] = rst[c].av]
            ELSE UNCHANGED <<avcnt, avect>>
<1>1. pos[p] \in DOMAIN Script[p]
  BY ScriptAssumption DEF TypeOK, Load, Runs, Done
<1> QED
  BY <1>1 DEF Load, Advances, Runs, LoadOf, IsVisit

\* What is carried into a run is what the restart file holds
LEMMA LoadData ==
  ASSUME TypeOK, InScript, Regular, PutProgresses, NEW c \in Exchanged,
         SumFile(c), \A f \in Fields(c) : Collects(c, f) /\ LagFile(c, f),
         NEW p \in Proc, Load(p), Now(p).cpl = c
  PROVE  SumFile(c)' /\ \A f \in Fields(c) : Collects(c, f)' /\ LagFile(c, f)'
<1>1. PICK e, N : e = <<"put", c>> /\ N = NextDate(e)
  OBVIOUS
<1>2. /\ LoadOf(c, Now(p)) /\ ~IsVisit(Now(p)) /\ pos[p] \in DOMAIN Script[p]
      /\ pos' = [pos EXCEPT ![p] = pos[p] + 1]
      /\ UNCHANGED <<status, ltime, chan, rst, run>>
      /\ IF Nam[c].trans # "instant" /\ rst[c].saved
         THEN /\ avcnt' = [avcnt EXCEPT ![c] = rst[c].cnt]
              /\ avect' = [avect EXCEPT ![c] = rst[c].av]
         ELSE UNCHANGED <<avcnt, avect>>
  BY LoadState
<1>3. p = Nam[c].src /\ Loading(p, c)
  <2>1. LoadedOnce(c)
    BY SourceFacts
  <2> QED
    BY <1>2, <2>1 DEF LoadedOnce, Now, Loading
<1>4. /\ ~Loaded(c) /\ ~Saving(c) /\ ~Restoring(c)
      /\ \A f, t : Past(e, f, t) => t \in Int /\ t < 0
      /\ N - Nam[c].dt = IF Nam[c].lag > 0 THEN -Nam[c].lag
                         ELSE -Nam[c].lag - Nam[c].dt
  BY <1>1, <1>3, BeforeLoad
<1>5. /\ e \in Ends /\ c \in Couplers
  BY <1>1, SourceFacts
<1>6. \A f, t : Past(e, f, t)' <=> Past(e, f, t)
  BY <1>2, <1>5, PastStep DEF VisitOf
<1>7. Loaded(c)'
  BY <1>2, <1>3, <1>5, LoadedStep
<1>8. /\ run' = run /\ ~Restoring(c)' /\ ~Saving(c)' /\ rst' = rst
      /\ NextDate(e)' = N /\ status' = status
      /\ (Started(e)' <=> Started(e)) /\ ltime' = ltime
  BY <1>1, <1>2, <1>4, <1>6 DEF Restoring, Saving, Started, NextDate, LagOf, Fields
<1>9. SumFile(c)'
  <2>1. ASSUME NEW f \in Fields(c), Sums(rst[c].av[f], rst[c].cnt[f], c, Carried(c, f))
        PROVE  Sums(rst[c].av[f], rst[c].cnt[f], c, Carried(c, f))'
    <3>1. Carried(c, f)' = Carried(c, f) /\ rst' = rst
      BY <1>8, SameRun
    <3> QED
      BY <2>1, <3>1, SumsKept
  <2>2. CASE run = 1
    BY <1>4, <1>8, <2>2 DEF SumFile
  <2>3. CASE run # 1
    <3>1. Nam[c].trans # "instant" =>
            /\ rst[c].saved
            /\ \A f \in Fields(c) : Sums(rst[c].av[f], rst[c].cnt[f], c, Carried(c, f))
      BY <1>4, <2>3 DEF SumFile
    <3> QED
      BY <1>8, <2>1, <2>3, <3>1 DEF SumFile, Fields
  <2> QED
    BY <2>2, <2>3
<1>10. ASSUME NEW f \in Fields(c)
       PROVE  LagFile(c, f)'
  <2>1. /\ \A t : Window(c, f, t)' = Window(c, f, t)
        /\ \A v, t : Expected(v, c, f, t)' <=> Expected(v, c, f, t)
    BY <1>8, SameRun
  <2>2. LET now == Started(<<"put", c>>) /\ ltime[<<"put", c>>] + Nam[c].lag = RunTime
        IN  now' <=> now
    BY <1>1, <1>8
  <2>3. MadeOf(rst[c].flds[f], c, Window(c, f, RunTime))'
          <=> MadeOf(rst[c].flds[f], c, Window(c, f, RunTime))
    BY <1>8, <2>1 DEF MadeOf, Lists, Date
  <2>4. Expected(rst[c].flds[f], c, f, 0)' <=> Expected(rst[c].flds[f], c, f, 0)
    BY <1>8, <2>1
  <2>5. LagFile(c, f)
    OBVIOUS
  <2> QED
    BY <2>2, <2>3, <2>4, <2>5 DEF LagFile
<1>11. ASSUME NEW f \in Fields(c)
       PROVE  Collects(c, f)'
  <2>1. CASE Nam[c].trans = "instant"
    <3>1. avcnt' = avcnt /\ avect' = avect
      BY <1>2, <2>1
    <3> QED
      BY <1>1, <1>4, <1>8, <2>1, <3>1 DEF Collects, PutAt
  <2>2. CASE Nam[c].trans # "instant"
    <3>1. Collecting(c, f)' = {x \in Puts(c, f) : Since(x) > N - Nam[c].dt /\ x.run < run}
      <4>1. Puts(c, f)' = Puts(c, f) /\ \A x : Since(x)' = Since(x)
        BY <1>8, SameRun
      <4>2. ASSUME NEW x \in Puts(c, f)
            PROVE  ~Past(e, f, x.at)
        <5>1. x.at \in 0..(RunTime - 1)
          BY PutSince
        <5> QED
          BY <1>4, <5>1
      <4>3. \A x \in Puts(c, f) : ~Past(e, f, x.at)'
        BY <1>6, <4>2
      <4> QED
        BY <1>1, <1>8, <4>1, <4>3 DEF Collecting
    <3>2. Collecting(c, f)' = Carried(c, f)
      BY <1>4, <3>1 DEF Carried
    <3>3. CASE run = 1
      <4>1. ~rst[c].saved
        BY <1>4, <2>2, <3>3 DEF SumFile
      <4>2. avcnt' = avcnt /\ avect' = avect
        BY <1>2, <4>1
      <4>3. avcnt[c][f] = 0 /\ avect[c][f] = Zero
        BY <1>4, <2>2 DEF Collects
      <4>4. Collecting(c, f)' = {}
        <5>1. \A x \in Puts(c, f) : ~(x.run < run)
          <6>1. \A x \in Puts(c, f) : x.run \in 1..run /\ run \in Int
            BY PutSince
          <6> QED
            BY <6>1, <3>3
        <5> QED
          BY <3>1, <5>1
      <4>5. Sums(Zero, 0, c, {})
        BY SumsNone
      <4> QED
        BY <1>7, <1>8, <2>2, <4>2, <4>3, <4>4, <4>5 DEF Collects, Sums, Lists, Date
    <3>4. CASE run # 1
      <4>1. rst[c].saved /\ Sums(rst[c].av[f], rst[c].cnt[f], c, Carried(c, f))
        BY <1>4, <2>2, <3>4 DEF SumFile
      <4>2. avcnt'[c] = rst[c].cnt /\ avect'[c] = rst[c].av
        <5>1. c \in DOMAIN avcnt /\ c \in DOMAIN avect
          BY <1>5 DEF TypeOK, PerCoupler
        <5> QED
          BY <1>2, <2>2, <4>1, <5>1
      <4>3. PICK v, n, S : v = rst[c].av[f] /\ n = rst[c].cnt[f] /\ S = Carried(c, f)
        OBVIOUS
      <4>4. avect'[c][f] = v /\ avcnt'[c][f] = n /\ Collecting(c, f)' = S
            /\ Sums(v, n, c, S)
        BY <3>2, <4>1, <4>2, <4>3
      <4> QED
        BY <1>7, <1>8, <2>2, <4>4 DEF Collects, Sums, Lists, Date
    <3> QED
      BY <3>3, <3>4
  <2> QED
    BY <2>1, <2>2
<1> QED
  BY <1>9, <1>10, <1>11 DEF Fields

-----------------------------------------------------------------------------
(* The end of a run *)

\* The date of the last exchange of a source in a run
LastDate(c) == IF Nam[c].lag > 0 THEN RunTime - Nam[c].lag
                                 ELSE RunTime - Nam[c].dt - Nam[c].lag

\* The last coupling date of a run comes late enough to write the partial results.
LEMMA LastIsCoupling ==
  ASSUME Regular, NEW c \in Exchanged
  PROVE  /\ LastDate(c) \in 0..(RunTime - 1) /\ LastDate(c) >= -Nam[c].lag
         /\ CouplingDate(<<"put", c>>, LastDate(c))
         /\ LastDate(c) + Nam[c].dt >= RunTime
         /\ LastDate(c) + Nam[c].lag + Nam[c].dt >= RunTime
<1>1. PICK l \in Int, d \in Nat \ {0}, r \in Nat \ {0} :
        /\ l = Nam[c].lag /\ d = Nam[c].dt /\ r = RunTime
        /\ r % d = 0 /\ l <= d /\ l > -d
  BY SourceFacts
<1>2. r >= d
  <2> SUFFICES ASSUME r < d
               PROVE  FALSE
    OBVIOUS
  <2>1. r % d = r
    OBVIOUS
  <2> QED
    BY <2>1, <1>1
<1>3. (r - d) % d = 0
  BY <1>1, ShiftMod
<1>4. PICK m : m = LastDate(c)
  OBVIOUS
<1>5. m = IF l > 0 THEN r - l ELSE r - d - l
  BY <1>1, <1>4 DEF LastDate
<1>6. /\ m \in 0..(r - 1) /\ m >= -l /\ m + d >= r /\ m + l + d >= r
      /\ m + l = IF l > 0 THEN r ELSE r - d
  BY <1>1, <1>2, <1>5
<1>7. (m + l) % d = 0
  BY <1>1, <1>3, <1>6
<1>8. CouplingDate(<<"put", c>>, m)
  BY <1>1, <1>6, <1>7, SourceFacts DEF CouplingDate
<1> QED
  BY <1>1, <1>4, <1>6, <1>8

\* A process that is done has made the last coupling, and all its puts.
LEMMA RunOver ==
  ASSUME TypeOK, InScript, Regular, PutProgresses, NEW c \in Exchanged,
         Done(Nam[c].src)
  PROVE  LET e == <<"put", c>> IN
         /\ Started(e) /\ ltime[e] = LastDate(c) /\ Loaded(c) /\ Saving(c)
         /\ \A f, t : t \in PutDates(c, f) => Past(e, f, t)
<1>1. PICK e, D, N : e = <<"put", c>> /\ D = LastDate(c) /\ N = NextDate(e)
  OBVIOUS
<1>2. /\ e \in Ends /\ Owner(e) = Nam[c].src /\ LagOf(e) = Nam[c].lag /\ e[2] = c
      /\ DOMAIN Script[Nam[c].src] = 1..Len(Script[Nam[c].src])
      /\ Len(Script[Nam[c].src]) \in Nat /\ Nam[c].src \in Proc
      /\ Covered(e) /\ LoadedOnce(c) /\ 1 \in Fields(c)
  BY <1>1, SourceFacts
<1>3. \A j \in DOMAIN Script[Nam[c].src] : j \in 1..(pos[Nam[c].src] - 1)
  BY <1>2 DEF Done, TypeOK
<1>4. /\ Nam[c].lag \in Int /\ Nam[c].dt \in Nat \ {0} /\ RunTime \in Nat \ {0}
  BY SourceFacts
<1>5. /\ D \in 0..(RunTime - 1) /\ D >= -Nam[c].lag /\ CouplingDate(e, D)
      /\ D + Nam[c].dt >= RunTime /\ D + Nam[c].lag + Nam[c].dt >= RunTime
  BY <1>1, LastIsCoupling
<1>6. /\ PutProgress(e) /\ ltime[e] \in Int
      /\ status[e] \subseteq Fields(c) /\ status[e] # Fields(c)
  BY <1>1, <1>2 DEF PutProgresses, PutProgress, TypeOK
<1>7. \A f \in Fields(c) : Past(e, f, D)
  <2> TAKE f \in Fields(c)
  <2>1. D \in (-LagOf(e))..(RunTime - 1)
    BY <1>2, <1>4, <1>5
  <2>2. PICK j \in DOMAIN Script[Nam[c].src] :
          /\ VisitOf(e, f, Script[Nam[c].src][j]) /\ Script[Nam[c].src][j].msec = D
    BY <1>2, <1>5, <2>1 DEF Covered
  <2> QED
    BY <1>2, <1>3, <2>2 DEF Past
<1>8. \A f, t : t \in PutDates(c, f) => Past(e, f, t)
  <2> SUFFICES ASSUME NEW f, NEW t \in PutDates(c, f)
               PROVE  Past(e, f, t)
    OBVIOUS
  <2>1. PICK j \in DOMAIN Script[Nam[c].src] :
          /\ VisitOf(e, f, Script[Nam[c].src][j]) /\ Script[Nam[c].src][j].msec = t
    BY <1>1, PutOfDate
  <2> QED
    BY <1>2, <1>3, <2>1 DEF Past
<1>9. Loaded(c)
  <2>1. PICK l \in DOMAIN Script[Nam[c].src] : LoadOf(c, Script[Nam[c].src][l])
    BY <1>2 DEF LoadedOnce
  <2> QED
    BY <1>3, <2>1 DEF Loaded
<1>10. Saving(c)
  BY <1>1, <1>2, <1>5, <1>7 DEF Saving
<1>11. N \in Int /\ CouplingDate(e, N)
  BY <1>1, <1>2, <1>6, NextIsCoupling DEF PutProgress
<1>12. D < N
  <2>1. PICK j \in 1..(pos[Nam[c].src] - 1) :
          Coupled(e, Script[Nam[c].src][j]) /\ Script[Nam[c].src][j].msec = D
    BY <1>2, <1>5, <1>7, CoupledPast
  <2>2. D <= N
    BY <1>1, <1>2, <1>6, <2>1 DEF PutProgress
  <2>3. D # N
    <3> SUFFICES ASSUME D = N
                 PROVE  FALSE
      OBVIOUS
    <3>1. \A f \in Fields(c) : f \in status[e]
      BY <1>1, <1>2, <1>6, <1>7 DEF PutProgress
    <3> QED
      BY <3>1, <1>6
  <2> QED
    BY <2>2, <2>3, <1>5, <1>11
<1>13. Started(e)
  <2> SUFFICES ASSUME ~Started(e)
               PROVE  FALSE
    OBVIOUS
  <2>1. N = -Nam[c].lag
    BY <1>1, <1>2 DEF NextDate
  <2> QED
    BY <2>1, <1>4, <1>5, <1>12
<1>14. N = ltime[e] + Nam[c].dt /\ CouplingDate(e, ltime[e]) /\ ltime[e] < RunTime
  <2>1. Past(e, 1, ltime[e]) /\ CouplingDate(e, ltime[e])
    BY <1>2, <1>6, <1>13 DEF PutProgress
  <2>2. ltime[e] < RunTime
    BY <1>1, <2>1, PastKind
  <2> QED
    BY <1>1, <1>2, <1>13, <2>1, <2>2 DEF NextDate
<1>15. ltime[e] >= D
  <2>1. N >= D + Nam[c].dt
    BY <1>2, <1>4, <1>5, <1>11, <1>12, CouplingApart
  <2> QED
    BY <2>1, <1>4, <1>5, <1>6, <1>14
<1>16. ~(ltime[e] > D)
  <2> SUFFICES ASSUME ltime[e] > D
               PROVE  FALSE
    OBVIOUS
  <2>1. ltime[e] >= D + Nam[c].dt
    BY <1>2, <1>4, <1>5, <1>6, <1>14, CouplingApart
  <2> QED
    BY <2>1, <1>4, <1>5, <1>6, <1>14
<1>17. ltime[e] = D
  BY <1>5, <1>6, <1>15, <1>16
<1> QED
  BY <1>1, <1>8, <1>9, <1>10, <1>13, <1>17

\* The dates of the puts, as the next run counts them
LEMMA LaterSince ==
  ASSUME TypeOK, NEW x, Date(x) \in Int, run' = run + 1
  PROVE  Since(x)' = Since(x) - RunTime
<1>1. run \in Int /\ RunTime \in Nat
  BY NamAssumption DEF TypeOK
<1>2. (run + 1) * RunTime = run * RunTime + RunTime
  BY <1>1
<1>3. PICK b \in Int : b = run * RunTime
  BY <1>1
<1>4. Since(x) = Date(x) - b /\ Since(x)' = Date(x) - (b + RunTime)
  BY <1>2, <1>3 DEF Since, Date
<1> QED
  BY <1>1, <1>3, <1>4

\* The puts of the next run: those made, and those of the run that starts.
LEMMA LaterPuts ==
  ASSUME TypeOK, TypeOK', Regular, NEW c \in Exchanged, NEW f, run' = run + 1
  PROVE  /\ Puts(c, f) = {x \in Puts(c, f)' : x.run < run'}
         /\ \A x \in Puts(c, f) : Since(x)' = Since(x) - RunTime /\ Since(x) \in Int
         /\ \A x \in Puts(c, f)' : /\ x.run \in 1..(run + 1)
                                   /\ ~(x.run < run') => Since(x)' \in Nat
<1>1. run \in Int /\ run >= 1
  BY NamAssumption DEF TypeOK
<1>2. PutDates(c, f)' = PutDates(c, f)
  BY DEF PutDates
<1>3. Puts(c, f)' = [run : 1..(run + 1), at : PutDates(c, f)]
  BY <1>2 DEF Puts
<1>4. Puts(c, f) = {x \in Puts(c, f)' : x.run < run'}
  <2>1. \A x \in Puts(c, f)' : x.run \in 1..(run + 1) /\ (x.run < run' <=> x.run \in 1..run)
    BY <1>1, <1>3
  <2>2. \A x : x \in Puts(c, f) <=> x \in [run : 1..(run + 1), at : PutDates(c, f)]
                                    /\ x.run \in 1..run
    BY <1>1 DEF Puts
  <2> QED
    BY <1>3, <2>1, <2>2
<1>5. \A x \in Puts(c, f) : Since(x)' = Since(x) - RunTime /\ Since(x) \in Int
  <2> TAKE x \in Puts(c, f)
  <2>1. Date(x) \in Int /\ Since(x) \in Int
    BY PutSince
  <2> QED
    BY <2>1, LaterSince
<1>6. \A x \in Puts(c, f)' : /\ x.run \in 1..(run + 1)
                             /\ ~(x.run < run') => Since(x)' \in Nat
  <2> TAKE x \in Puts(c, f)'
  <2>1. x.run \in 1..(run + 1) /\ x.at \in PutDates(c, f)
    BY <1>3
  <2>2. ASSUME ~(x.run < run')
        PROVE  Since(x)' \in Nat
    <3>1. x.run = run'
      BY <1>1, <2>1, <2>2
    <3>2. x.at \in 0..(RunTime - 1) /\ RunTime \in Nat
      BY <2>1, PutOfDate, NamAssumption
    <3>3. Since(x)' = (run' * RunTime + x.at) - run' * RunTime
      BY <3>1 DEF Since, Date
    <3>4. PICK b \in Int : b = run' * RunTime
      BY <1>1, <3>2
    <3> QED
      BY <3>2, <3>3, <3>4
  <2> QED
    BY <2>1, <2>2
<1> QED
  BY <1>4, <1>5, <1>6

\* The first message of a run was collected in the one before
LEMMA FirstWindow ==
  ASSUME TypeOK, TypeOK', Regular, NEW c \in Exchanged, NEW f, run' = run + 1,
         Nam[c].lag > 0
  PROVE  Window(c, f, 0)' = Window(c, f, RunTime)
<1>1. PICK l \in Int, d \in Nat \ {0}, r \in Nat \ {0} :
        l = Nam[c].lag /\ d = Nam[c].dt /\ r = RunTime /\ l > 0
  BY SourceFacts
<1>2. PICK w \in Int : w = IF Nam[c].trans = "instant" THEN 1 ELSE d
  BY <1>1
<1>3. Window(c, f, RunTime) =
        {x \in Puts(c, f) : Since(x) > (r - l) - w /\ Since(x) <= r - l}
  BY <1>1, <1>2 DEF Window
<1>4. Window(c, f, 0)' =
        {x \in Puts(c, f)' : Since(x)' > -l - w /\ Since(x)' <= -l}
  <2>1. 0 - l = -l
    BY <1>1
  <2> QED
    BY <1>1, <1>2, <2>1 DEF Window
<1>5. /\ Puts(c, f) = {x \in Puts(c, f)' : x.run < run'}
      /\ \A x \in Puts(c, f) : Since(x)' = Since(x) - r /\ Since(x) \in Int
      /\ \A x \in Puts(c, f)' : ~(x.run < run') => Since(x)' \in Nat
  BY <1>1, LaterPuts
<1>6. ASSUME NEW x \in Puts(c, f)', Since(x)' <= -l
      PROVE  x \in Puts(c, f)
  <2>1. x \in Puts(c, f) \/ Since(x)' \in Nat
    BY <1>5
  <2> QED
    BY <1>1, <1>6, <2>1
<1>7. ASSUME NEW x \in Puts(c, f)
      PROVE  /\ Since(x)' > -l - w <=> Since(x) > (r - l) - w
             /\ Since(x)' <= -l <=> Since(x) <= r - l
  <2>1. Since(x)' = Since(x) - r /\ Since(x) \in Int
    BY <1>5
  <2> QED
    BY <1>1, <1>2, <2>1
<1>8. Puts(c, f) \subseteq Puts(c, f)'
  BY <1>5
<1> QED
  BY <1>3, <1>4, <1>6, <1>7, <1>8

\* What is carried into the next run is what is collected at the end of this one
LEMMA CarriedOver ==
  ASSUME TypeOK, TypeOK', InScript, Regular, PutProgresses, NEW c \in Exchanged,
         NEW f, run' = run + 1, Done(Nam[c].src)
  PROVE  Carried(c, f)' = Collecting(c, f)
<1>1. PICK l \in Int, d \in Nat \ {0}, r \in Nat \ {0} :
        l = Nam[c].lag /\ d = Nam[c].dt /\ r = RunTime
  BY SourceFacts
<1>2. PICK m \in Int : m = LastDate(c)
  <2>1. LastDate(c) \in 0..(RunTime - 1)
    BY LastIsCoupling
  <2> QED
    BY <2>1
<1>3. m = IF l > 0 THEN r - l ELSE r - d - l
  BY <1>1, <1>2 DEF LastDate
<1>4. PICK b \in Int : b = IF l > 0 THEN -l ELSE -l - d
  BY <1>1
<1>5. b = m - r
  BY <1>1, <1>2, <1>3, <1>4
<1>6. /\ NextDate(<<"put", c>>) - Nam[c].dt = m
      /\ \A t : t \in PutDates(c, f) => Past(<<"put", c>>, f, t)
  <2>1. /\ Started(<<"put", c>>) /\ ltime[<<"put", c>>] = m
        /\ \A t : t \in PutDates(c, f) => Past(<<"put", c>>, f, t)
    BY <1>2, RunOver
  <2>2. NextDate(<<"put", c>>) = m + d
    BY <1>1, <2>1 DEF NextDate
  <2>3. (m + d) - d = m
    BY <1>1, <1>2
  <2> QED
    BY <1>1, <2>1, <2>2, <2>3
<1>7. Collecting(c, f) = {x \in Puts(c, f) : Since(x) > m}
  <2>1. \A x \in Puts(c, f) : x.at \in PutDates(c, f)
    BY DEF Puts
  <2> QED
    BY <1>6, <2>1 DEF Collecting
<1>8. Carried(c, f)' = {x \in Puts(c, f)' : x.run < run' /\ Since(x)' > b}
  BY <1>1, <1>4 DEF Carried
<1>9. /\ Puts(c, f) = {x \in Puts(c, f)' : x.run < run'}
      /\ \A x \in Puts(c, f) : Since(x)' = Since(x) - r /\ Since(x) \in Int
  BY <1>1, LaterPuts
<1>10. \A x \in Puts(c, f) : Since(x)' > b <=> Since(x) > m
  <2> TAKE x \in Puts(c, f)
  <2>1. Since(x)' = Since(x) - r /\ Since(x) \in Int
    BY <1>9
  <2> QED
    BY <1>1, <1>2, <1>4, <1>5, <2>1
<1> QED
  BY <1>7, <1>8, <1>9, <1>10

\* The state of a coupler when a run begins
Blank(c) ==
  /\ ~Started(<<"put", c>>) /\ status[<<"put", c>>] = {}
  /\ avcnt[c] = NoCount(c) /\ avect[c] = Zeros(c)
  /\ ~Loaded(c) /\ ~Saving(c)

Blanks == \A c \in Exchanged : Blank(c)

\* A run starts with nothing collected.
LEMMA FreshStart ==
  ASSUME pos = Fresh.pos, status = Fresh.status, ltime = Fresh.ltime,
         avcnt = Fresh.avcnt, avect = Fresh.avect
  PROVE  Blanks
<1> SUFFICES ASSUME NEW c \in Exchanged
             PROVE  Blank(c)
  BY DEF Blanks
<1>1. c \in Couplers /\ <<"put", c>> \in Ends /\ Nam[c].src \in Proc
      /\ Owner(<<"put", c>>) = Nam[c].src
  BY NamFacts, NamAssumption DEF Exchanged, Ends, Owner
<1>2. pos[Nam[c].src] = 1 /\ 1..(1 - 1) = {}
  BY <1>1 DEF Fresh
<1>3. ~Loaded(c) /\ \A f, t : ~Past(<<"put", c>>, f, t)
  BY <1>1, <1>2 DEF Loaded, Past
<1> QED
  BY <1>1, <1>3 DEF Blank, Fresh, Started, Saving

\* What is collected at the start of a run is nothing.
LEMMA CollectsAtStart ==
  ASSUME NEW c, Blank(c), NEW f \in Fields(c)
  PROVE  Collects(c, f)
BY DEF Blank, Collects, NoCount, Zeros

\* The next run finds in the files what the last one had collected.
LEMMA NextRunData ==
  ASSUME TypeOK, TypeOK', InScript, Regular, PutProgresses, NEW c \in Exchanged,
         SumFile(c), \A f \in Fields(c) : Collects(c, f) /\ LagFile(c, f), NextRun
  PROVE  SumFile(c)' /\ \A f \in Fields(c) : Collects(c, f)' /\ LagFile(c, f)'
<1>1. /\ run' = run + 1 /\ run \in Int /\ run >= 1 /\ rst' = rst
      /\ Done(Nam[c].src)
  <2>1. Nam[c].src \in Proc
    BY SourceFacts
  <2> QED
    BY <2>1, NamAssumption DEF NextRun, TypeOK
<1>2. Blank(c)'
  <2>1. (/\ pos = Fresh.pos /\ status = Fresh.status /\ ltime = Fresh.ltime
         /\ avcnt = Fresh.avcnt /\ avect = Fresh.avect
         => Blanks)'
    BY FreshStart, PTL
  <2> QED
    BY <2>1 DEF NextRun, Fresh, Blanks, Exchanged
<1>3. run' # 1
  BY <1>1
<1>4. /\ Started(<<"put", c>>) /\ ltime[<<"put", c>>] = LastDate(c)
      /\ Loaded(c) /\ Saving(c)
  BY <1>1, RunOver
<1>5. \A f \in Fields(c) : Collects(c, f)'
  BY <1>2 DEF Blank, Collects, NoCount, Zeros, Fields
<1>6. ASSUME NEW f \in Fields(c), Nam[c].lag > 0
      PROVE  LagFile(c, f)'
  <2>1. LastDate(c) + Nam[c].lag = RunTime
    <3>1. Nam[c].lag \in Int /\ RunTime \in Nat \ {0}
      BY SourceFacts
    <3> QED
      BY <1>6, <3>1 DEF LastDate
  <2>2. MadeOf(rst[c].flds[f], c, Window(c, f, RunTime))
    BY <1>4, <1>6, <2>1 DEF LagFile
  <2>3. Window(c, f, 0)' = Window(c, f, RunTime)
    BY <1>1, <1>6, FirstWindow
  <2>4. Expected(rst[c].flds[f], c, f, 0)'
    BY <1>1, <1>3, <2>2, <2>3 DEF Expected, MadeOf, Lists, Date
  <2> QED
    BY <1>2, <2>4 DEF LagFile, Blank
<1>7. ASSUME Nam[c].trans # "instant"
      PROVE  SumFile(c)'
  <2>1. rst[c].saved /\ rst[c].cnt = avcnt[c] /\ rst[c].av = avect[c]
    BY <1>4, <1>7 DEF SumFile
  <2>2. ASSUME NEW f \in Fields(c)
        PROVE  Sums(rst[c].av[f], rst[c].cnt[f], c, Carried(c, f)')
    <3>1. Sums(avect[c][f], avcnt[c][f], c, Collecting(c, f))
      BY <1>4, <1>7 DEF Collects, Restoring
    <3>2. Carried(c, f)' = Collecting(c, f)
      BY <1>1, CarriedOver
    <3> QED
      BY <2>1, <3>1, <3>2
  <2> QED
    BY <1>1, <1>2, <1>3, <2>1, <2>2, SMTT(30) DEF SumFile, Blank, Sums, Lists, Fields, Date
<1> QED
  BY <1>5, <1>6, <1>7 DEF Fields, LagFile, SumFile

-----------------------------------------------------------------------------
(* The data of all the couplers *)

\* A step of another end leaves the data of a coupler
LEMMA DataElsewhere ==
  ASSUME TypeOK, Regular, NEW c \in Exchanged, NEW p \in Proc,
         pos' = [pos EXCEPT ![p] = pos[p] + 1], run' = run,
         ~IsVisit(Now(p)) \/ End(Now(p)) # <<"put", c>>, ~LoadOf(c, Now(p)),
         status'[<<"put", c>>] = status[<<"put", c>>],
         ltime'[<<"put", c>>] = ltime[<<"put", c>>],
         avcnt'[c] = avcnt[c], avect'[c] = avect[c], rst'[c] = rst[c],
         SumFile(c), \A f \in Fields(c) : Collects(c, f) /\ LagFile(c, f)
  PROVE  SumFile(c)' /\ \A f \in Fields(c) : Collects(c, f)' /\ LagFile(c, f)'
<1>1. c \in Couplers /\ <<"put", c>> \in Ends
  BY SourceFacts
<1>2. \A f, t : Past(<<"put", c>>, f, t)' <=> Past(<<"put", c>>, f, t)
  BY <1>1, PastStep DEF VisitOf
<1>3. Loaded(c)' <=> Loaded(c)
  BY <1>1, LoadedStep
<1> QED
  BY <1>2, <1>3, DataKept

\* A put keeps the invariant on the data.
LEMMA PutData ==
  ASSUME TypeOK, TypeOK', InScript, Regular, PutProgresses, NEW c \in Exchanged,
         SumFile(c), \A f \in Fields(c) : Collects(c, f) /\ LagFile(c, f),
         NEW p \in Proc, PutHold(p) \/ PutSend(p) \/ PutFile(p)
  PROVE  SumFile(c)' /\ \A f \in Fields(c) : Collects(c, f)' /\ LagFile(c, f)'
<1>1. PICK s, d : s = Now(p) /\ d = s.cpl
  OBVIOUS
<1>2. Visiting(p) /\ Putting(p, d)
  BY <1>1, PutEffect DEF Putting
<1>3. CASE c = d
  <2>1. CASE s.rest
    BY <1>1, <1>2, <1>3, <2>1, RestartData
  <2>2. CASE ~s.rest
    <3>1. SumFile(c)'
      BY <1>1, <1>2, <1>3, <2>2, RunSumFile
    <3>2. \A f \in Fields(c) : LagFile(c, f)'
      BY <1>1, <1>2, <1>3, <2>2, RunLagFile
    <3>3. \A f \in Fields(c) : Collects(c, f)'
      BY <1>1, <1>2, <1>3, <2>2, RunCollects
    <3> QED
      BY <3>1, <3>2, <3>3
  <2> QED
    BY <2>1, <2>2
<1>4. CASE c # d
  <2>1. /\ s.op = "put" /\ pos' = [pos EXCEPT ![p] = pos[p] + 1] /\ End(s) = <<"put", d>>
        /\ ltime' = IF CommNow(s) THEN [ltime EXCEPT ![<<"put", d>>] = s.msec] ELSE ltime
        /\ status' = [status EXCEPT ![<<"put", d>>] =
                        IF CommNow(s) THEN {} ELSE ReadyFields(s)]
    BY <1>1, PutEffect DEF End
  <2>2. /\ run' = run
        /\ avcnt' = [avcnt EXCEPT ![d] = avcnt'[d]]
        /\ avect' = [avect EXCEPT ![d] = avect'[d]]
        /\ rst' = [rst EXCEPT ![d] = rst'[d]]
    <3>1. d \in DOMAIN avcnt /\ d \in DOMAIN avect /\ d \in DOMAIN rst
      BY <1>1, <1>2, VisitingFacts DEF TypeOK, PerCoupler
    <3> QED
      BY <1>1, <1>2, <3>1, DataEffect
  <2>3. <<"put", c>> # <<"put", d>> /\ c \in Couplers /\ <<"put", c>> \in Ends
    BY <1>4, SourceFacts
  <2>4. /\ status'[<<"put", c>>] = status[<<"put", c>>]
        /\ ltime'[<<"put", c>>] = ltime[<<"put", c>>]
    BY <2>1, <2>3 DEF TypeOK
  <2>5. avcnt'[c] = avcnt[c] /\ avect'[c] = avect[c] /\ rst'[c] = rst[c]
    BY <1>4, <2>2, <2>3 DEF TypeOK, PerCoupler
  <2>6. End(s) # <<"put", c>> /\ ~LoadOf(c, s)
    BY <2>1, <2>3 DEF LoadOf
  <2> QED
    BY <1>1, <2>1, <2>2, <2>4, <2>5, <2>6, DataElsewhere
<1> QED
  BY <1>3, <1>4

\* The invariant on the data is inductive.
LEMMA DataNext ==
  ASSUME TypeOK, TypeOK', InScript, Regular, PutProgresses, Datas, [Next]_vars
  PROVE  Datas'
<1> SUFFICES ASSUME NEW c \in Exchanged
             PROVE  SumFile(c)' /\ \A f \in Fields(c) : Collects(c, f)' /\ LagFile(c, f)'
  BY DEF Datas, Exchanged, Fields
<1>1. SumFile(c) /\ \A f \in Fields(c) : Collects(c, f) /\ LagFile(c, f)
  BY DEF Datas
<1> DEFINE Goal == SumFile(c)' /\ \A f \in Fields(c) : Collects(c, f)' /\ LagFile(c, f)'
<1>2. ASSUME NEW p \in Proc, PutHold(p) \/ PutSend(p) \/ PutFile(p)
      PROVE  Goal
  BY <1>1, <1>2, PutData
<1>3. ASSUME NEW p \in Proc, GetRecv(p) \/ GetLocal(p)
      PROVE  Goal
  <2>1. PICK s, n : s = Now(p) /\ n = End(s)
    OBVIOUS
  <2>2. /\ s.op = "get" /\ pos' = [pos EXCEPT ![p] = pos[p] + 1] /\ n[1] = "get"
        /\ ltime' = IF CommNow(s) THEN [ltime EXCEPT ![n] = s.msec] ELSE ltime
        /\ status' = [status EXCEPT ![n] = IF CommNow(s) THEN {s.fld}
                        ELSE IF TimeNow(s) THEN status[n] \cup {s.fld} ELSE status[n]]
    BY <1>3, <2>1, GetEffect DEF End
  <2>3. UNCHANGED <<avcnt, avect, rst, run>>
    BY <1>3 DEF GetRecv, GetLocal, Visited
  <2>4. <<"put", c>> # n /\ <<"put", c>> \in Ends
    BY <2>2, SourceFacts
  <2>5. /\ status'[<<"put", c>>] = status[<<"put", c>>]
        /\ ltime'[<<"put", c>>] = ltime[<<"put", c>>]
    BY <2>2, <2>4 DEF TypeOK
  <2>6. ~LoadOf(c, s)
    BY <2>2 DEF LoadOf
  <2> QED
    BY <1>1, <2>1, <2>2, <2>3, <2>4, <2>5, <2>6, DataElsewhere
<1>4. ASSUME NEW p \in Proc, Load(p)
      PROVE  Goal
  <2>1. CASE Now(p).cpl = c
    BY <1>1, <1>4, <2>1, LoadData
  <2>2. CASE Now(p).cpl # c
    <3>1. PICK d : d = Now(p).cpl
      OBVIOUS
    <3>2. /\ pos' = [pos EXCEPT ![p] = pos[p] + 1] /\ ~IsVisit(Now(p))
          /\ UNCHANGED <<status, ltime, rst, run>>
          /\ avcnt' = avcnt \/ avcnt' = [avcnt EXCEPT ![d] = rst[d].cnt]
          /\ avect' = avect \/ avect' = [avect EXCEPT ![d] = rst[d].av]
      BY <1>4, <3>1, LoadState
    <3>3. avcnt'[c] = avcnt[c] /\ avect'[c] = avect[c]
      BY <2>2, <3>1, <3>2, SourceFacts DEF TypeOK, PerCoupler
    <3>4. ~LoadOf(c, Now(p))
      BY <2>2 DEF LoadOf
    <3> QED
      BY <1>1, <3>2, <3>3, <3>4, DataElsewhere
  <2> QED
    BY <2>1, <2>2
<1>5. ASSUME NEW p \in Proc, Check(p)
      PROVE  Goal
  <2>1. /\ pos' = [pos EXCEPT ![p] = pos[p] + 1] /\ ~IsVisit(Now(p))
        /\ UNCHANGED <<status, ltime, avcnt, avect, rst, run>> /\ ~LoadOf(c, Now(p))
    BY <1>5 DEF Check, Advances, Runs, IsVisit, LoadOf
  <2> QED
    BY <1>1, <2>1, DataElsewhere
<1>6. ASSUME NextRun
      PROVE  Goal
  BY <1>1, <1>6, NextRunData
<1>7. ASSUME UNCHANGED <<pos, status, ltime, avcnt, avect, rst, run>>
      PROVE  Goal
  <2>1. /\ \A f, t : Past(<<"put", c>>, f, t)' <=> Past(<<"put", c>>, f, t)
        /\ Loaded(c)' <=> Loaded(c)
    BY <1>7 DEF Past, VisitOf, IsVisit, TimeNow, Mseclag, End, Owner, Loaded, LoadOf
  <2> QED
    BY <1>1, <1>7, <2>1, DataKept
<1>8. ASSUME NEW p \in Proc, Abort(p)
      PROVE  Goal
  BY <1>7, <1>8 DEF Abort
<1>9. ASSUME NEW d \in Couplers, SendDone(d)
      PROVE  Goal
  BY <1>7, <1>9 DEF SendDone
<1>10. ASSUME UNCHANGED vars
       PROVE  Goal
  BY <1>7, <1>10 DEF vars
<1> HIDE DEF Goal
<1>11. ASSUME NEW p \in Proc, Exchange(p) \/ Local(p)
       PROVE  Goal
  BY <1>2, <1>3, <1>4, <1>5, <1>8, <1>11 DEF Local, Exchange
<1>12. Goal
  BY <1>6, <1>9, <1>10, <1>11 DEF Next, Stop
<1> QED
  BY <1>12 DEF Goal

\* It holds at the start of the first run, whose files are the user's.
LEMMA DataStart ==
  ASSUME Init
  PROVE  Datas
<1> SUFFICES ASSUME NEW c \in Exchanged, NEW f \in Fields(c)
             PROVE  SumFile(c) /\ Collects(c, f) /\ LagFile(c, f)
  <2>1. ASSUME NEW c \in Exchanged
        PROVE  1 \in Fields(c)
    BY NamFacts, NamAssumption DEF Exchanged, Fields
  <2> QED
    BY <2>1 DEF Datas
<1>1. Blank(c)
  BY FreshStart DEF Init, Blanks
<1>2. /\ run = 1 /\ ~rst[c].saved /\ rst[c].flds[f] = User
  BY DEF Init, UserFile, Exchanged
<1>3. SumFile(c)
  BY <1>1, <1>2 DEF Blank, SumFile
<1>4. Collects(c, f)
  BY <1>1, CollectsAtStart
<1>5. LagFile(c, f)
  BY <1>1, <1>2 DEF Blank, LagFile, Expected
<1> QED
  BY <1>3, <1>4, <1>5

-----------------------------------------------------------------------------
(* What is in the messages *)

\* A run after the first starts with its process at the first step
LEMMA InScriptNext ==
  ASSUME TypeOK, InScript, [Next]_vars
  PROVE  InScript'
<1>1. ASSUME NEW p \in Proc, pos' = [pos EXCEPT ![p] = pos[p] + 1], ~Done(p)
      PROVE  InScript'
  <2>1. pos'[p] = pos[p] + 1 /\ \A q \in Proc : q # p => pos'[q] = pos[q]
    BY <1>1 DEF TypeOK
  <2>2. pos[p] \in Nat /\ Len(Script[p]) \in Nat /\ pos[p] <= Len(Script[p])
    BY <1>1, ScriptAssumption DEF TypeOK, Done
  <2> QED
    BY <2>1, <2>2 DEF InScript
<1>2. ASSUME NEW p \in Proc, Exchange(p) \/ PutHold(p) \/ GetLocal(p) \/ Load(p) \/ Check(p)
      PROVE  InScript'
  <2>1. pos' = [pos EXCEPT ![p] = pos[p] + 1] /\ ~Done(p)
    BY <1>2 DEF Exchange, PutHold, GetLocal, Load, Check, PutSend, PutFile, GetRecv,
                Visited, Advances, Runs
  <2> QED
    BY <1>1, <2>1
<1>3. ASSUME NextRun
      PROVE  InScript'
  <2>1. \A p \in Proc : pos'[p] = 1 /\ Len(Script[p]) \in Nat
    BY <1>3, ScriptAssumption DEF NextRun, Fresh
  <2> QED
    BY <2>1 DEF InScript
<1>4. ASSUME UNCHANGED pos
      PROVE  InScript'
  BY <1>4 DEF InScript
<1> QED
  BY <1>2, <1>3, <1>4 DEF Next, Stop, Local, Abort, SendDone, vars

\* Of one message: what WindowExact says
MessageOf(c, m) == \A f \in Fields(c) : Expected(m.data[f], c, f, m.time)

\* What is under way stays what its coupling time asks for.
LEMMA WindowNext ==
  ASSUME TypeOK, InScript, Regular, PutProgresses, Datas, WindowExact, [Next]_vars
  PROVE  WindowExact'
<1>1. \A c \in Exchanged : \A i \in DOMAIN chan[c] : MessageOf(c, chan[c][i])
  BY DEF WindowExact, MessageOf
<1>2. ASSUME run' = run,
             \A c \in Exchanged : \A i \in DOMAIN chan'[c] : MessageOf(c, chan'[c][i])
      PROVE  WindowExact'
  <2> SUFFICES ASSUME NEW c \in Exchanged, NEW i \in DOMAIN chan'[c], NEW f \in Fields(c)
               PROVE  Expected(chan[c][i].data[f], c, f, chan[c][i].time)'
    BY DEF WindowExact, Exchanged, Fields
  <2>1. PICK v, t : v = chan'[c][i].data[f] /\ t = chan'[c][i].time
    OBVIOUS
  <2>2. Expected(v, c, f, t)
    BY <1>2, <2>1 DEF MessageOf
  <2>3. Expected(v, c, f, t)'
    BY <1>2, <2>2, SameRun
  <2> QED
    BY <2>1, <2>3 DEF Expected, MadeOf, Lists, Date
<1>3. ASSUME UNCHANGED <<chan, run>>
      PROVE  WindowExact'
  BY <1>1, <1>2, <1>3
<1>4. ASSUME NEW p \in Proc, PutSend(p)
      PROVE  WindowExact'
  <2> Putting(p, Now(p).cpl)
    <3>1. Now(p).op = "put"
      BY <1>4 DEF PutSend, Runs
    <3> QED
      BY <1>4, <3>1 DEF PutSend, Putting, Visiting
  <2>1. PICK c, m : /\ c = Now(p).cpl /\ c \in Exchanged /\ Putting(p, c)
                    /\ CommNow(Now(p)) /\ run' = run
                    /\ m = [time |-> Mseclag(Now(p)), data |-> Averaged(p, Now(p))]
                    /\ chan' = [chan EXCEPT ![c] = Append(chan[c], m)]
    BY <1>4 DEF PutSend, Visited
  <2>2. MessageOf(c, m)
    BY <2>1, MessageExact DEF Datas, MessageOf
  <2>3. c \in Couplers /\ chan[c] \in Seq(Messages(c)) /\ DOMAIN chan = Couplers
    BY <2>1 DEF Exchanged, TypeOK, PerCoupler
  <2>4. /\ chan'[c] = Append(chan[c], m)
        /\ \A d \in Couplers : d # c => chan'[d] = chan[d]
    BY <2>1, <2>3
  <2>5. \A i \in DOMAIN Append(chan[c], m) : MessageOf(c, Append(chan[c], m)[i])
    <3>1. \A i \in DOMAIN chan[c] : MessageOf(c, chan[c][i])
      BY <1>1, <2>1
    <3> QED
      BY <3>1, <2>2, <2>3
  <2>6. \A d \in Exchanged : \A i \in DOMAIN chan'[d] : MessageOf(d, chan'[d][i])
    BY <1>1, <2>4, <2>5 DEF Exchanged
  <2> QED
    BY <1>2, <2>1, <2>6
<1>5. ASSUME NEW p \in Proc, GetRecv(p)
      PROVE  WindowExact'
  <2>1. PICK c : /\ c = Now(p).cpl /\ c \in Exchanged /\ chan[c] # <<>> /\ run' = run
                 /\ chan' = [chan EXCEPT ![c] = Tail(chan[c])]
    BY <1>5 DEF GetRecv, Visited
  <2>2. c \in Couplers /\ chan[c] \in Seq(Messages(c)) /\ DOMAIN chan = Couplers
    BY <2>1 DEF Exchanged, TypeOK, PerCoupler
  <2>3. /\ chan'[c] = Tail(chan[c])
        /\ \A d \in Couplers : d # c => chan'[d] = chan[d]
    BY <2>1, <2>2
  <2>4. \A i \in DOMAIN Tail(chan[c]) : /\ i + 1 \in DOMAIN chan[c]
                                        /\ Tail(chan[c])[i] = chan[c][i + 1]
    BY <2>1, <2>2
  <2>5. \A d \in Exchanged : \A i \in DOMAIN chan'[d] : MessageOf(d, chan'[d][i])
    BY <1>1, <2>1, <2>3, <2>4 DEF Exchanged
  <2> QED
    BY <1>2, <2>1, <2>5
<1>6. ASSUME NextRun
      PROVE  WindowExact'
  <2>1. \A c \in Couplers : chan'[c] = <<>>
    BY <1>6 DEF NextRun, Fresh
  <2> QED
    BY <2>1 DEF WindowExact, Exchanged
<1> QED
  BY <1>3, <1>4, <1>5, <1>6 DEF Next, Stop, Local, vars, Exchange, PutHold, PutFile,
     GetLocal, Load, Check, Abort, SendDone, Visited

-----------------------------------------------------------------------------
(* The theorems *)

\* For every regular program, however the processes interleave and over any
\* number of runs: a message holds each put of its coupling period once, and no
\* other, also when a part of the period went through the restart file.
THEOREM WindowsAreExact == Regular => (Spec => []WindowExact)
<1> SUFFICES ASSUME Regular
             PROVE  Spec => []WindowExact
  OBVIOUS
<1> DEFINE IInv == /\ TypeOK /\ InScript /\ PutProgresses /\ GetProgresses /\ Datas
                   /\ WindowExact
<1>1. Init => IInv
  <2> SUFFICES ASSUME Init PROVE IInv
    OBVIOUS
  <2>1. TypeOK
    BY InitTypes
  <2>2. PutProgresses /\ GetProgresses
    BY <2>1, ProgressStart DEF Init
  <2>3. InScript
    <3>1. \A p \in Proc : pos[p] = 1 /\ Len(Script[p]) \in Nat
      BY ScriptAssumption DEF Init, Fresh
    <3> QED
      BY <3>1 DEF InScript
  <2>4. WindowExact
    BY DEF Init, Fresh, WindowExact, Exchanged
  <2> QED
    BY <2>1, <2>2, <2>3, <2>4, DataStart
<1>2. IInv /\ [Next]_vars => IInv'
  <2> SUFFICES ASSUME IInv, [Next]_vars PROVE IInv'
    OBVIOUS
  <2>1. TypeOK'
    BY NextTypes
  <2> QED
    BY <2>1, ProgressNext, InScriptNext, DataNext, WindowNext
<1>3. IInv => WindowExact
  OBVIOUS
<1> QED
  BY <1>1, <1>2, <1>3, PTL DEF Spec

\* For every regular program whose couplings start at time 0: when all the
\* processes are done nothing that was sent is left to receive, so the files are
\* all that goes from a run to the next.
THEOREM AllReceived ==
  AlignedStart /\ InitFirst /\ Regular => (Spec => []AllConsumed)
<1> SUFFICES ASSUME AlignedStart, InitFirst, Regular
             PROVE  Spec => []AllConsumed
  OBVIOUS
<1> DEFINE IInv == PutProgresses /\ GetProgresses /\ MessagesInTime
<1>1. Init => IInv
  <2> SUFFICES ASSUME Init PROVE IInv
    OBVIOUS
  <2>1. PutProgresses /\ GetProgresses
    BY InitTypes, ProgressStart DEF Init
  <2>2. MessagesInTime
    BY DEF Init, Fresh, MessagesInTime
  <2> QED
    BY <2>1, <2>2
<1>2. IInv /\ TypeOK /\ TypeOK' /\ [Next]_vars => IInv'
  BY ProgressNext, InTimeNext
<1>3. TimesInv /\ IInv => AllConsumed
  BY ConsumedAtEnd DEF TimesInv
<1> QED
  BY <1>1, <1>2, <1>3, TimesInvariant, TypeCorrect, PTL DEF Spec

=============================================================================
