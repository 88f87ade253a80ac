----------------------------- MODULE CoupledRun -----------------------------
(***************************************************************************)
(* Models that step through time under OasisAdvance: the couplers of each  *)
(* process in the order of prism_coupler, the loops of oasis_advance_init, *)
(* and the calls of oasis_put and oasis_get at each time step.             *)
(***************************************************************************)
EXTENDS OasisData, SequencesExt

CONSTANT Program  \* [p -> [step |-> time step,
                  \*        calls |-> the calls of a step, <<op, variable>>]]

INSTANCE CouplerEnds  \* Nam has here the names of the variables too

\* oasis_advance_run: the visits it makes for one call
AdvanceRun(p, op, v, msec, rest, nff) ==
  LET ends == VarEnds(p, op, v)
      Visit(i) == [op |-> op, cpl |-> ends[i][2], fld |-> FieldOf(ends[i], v),
                   msec |-> msec, rest |-> rest, first |-> i = 1,
                   fresh |-> rest /\ nff = 1 /\ i = 1, nff |-> nff]
  IN [i \in DOMAIN ends |-> Visit(i)]

\* oasis_advance_init, first loop: the lagged fields are read and sent.  The
\* index goes on by the number of couplers of the variable just advanced.
Lagged(e) == e[1] = "put" /\ Nam[e[2]].lag > 0
RestartLoop(p) ==
  LET ends == LocalEnds(p)
      Var(e, nf) == Names(e)[nf]
      icount(e) == Len(VarEnds(p, "put", Var(e, Nam[e[2]].nflds)))
      Next1(i) == IF Lagged(ends[i]) THEN i + icount(ends[i]) ELSE i + 1
      Body(e) == <<[op |-> "check", cpl |-> e[2]]>> \o
                 IF ~Lagged(e) THEN <<>>
                 ELSE FlattenSeq([nf \in Fields(e[2]) |->
                   AdvanceRun(p, "put", Var(e, nf), -Nam[e[2]].lag, TRUE, nf)])
      From[i \in 1..(2 * Len(ends) + 1)] ==
        IF i > Len(ends) THEN <<>> ELSE Body(ends[i]) \o From[Next1(i)]
  IN From[1]

\* oasis_advance_init, second loop: the partial results are read
LoadLoop(p) ==
  LET puts == SelectSeq(LocalEnds(p), LAMBDA e : e[1] = "put")
  IN [i \in DOMAIN puts |-> [op |-> "load", cpl |-> puts[i][2]]]

\* The time loop of a component
StepVisits ==
  [p \in Proc |-> FlattenSeq([i \in DOMAIN Program[p].calls |->
     AdvanceRun(p, Program[p].calls[i][1], Program[p].calls[i][2], 0, FALSE, 1)])]
TimeLoop(p) ==
  FlattenSeq([n \in 1..(RunTime \div Program[p].step) |->
    [i \in DOMAIN StepVisits[p] |->
       [StepVisits[p][i] EXCEPT !.msec = (n - 1) * Program[p].step]]])

TimeSteppedScript ==
  [p \in Proc |-> RestartLoop(p) \o LoadLoop(p) \o TimeLoop(p)]

-----------------------------------------------------------------------------
(* Properties *)

\* When a get tells the caller that it received, the field it returns is that
\* of the time of the call.
Received == {"Recvd", "RecvOut"}
NoStaleDelivery ==
  [][\A p \in Proc :
       pos'[p] = pos[p] + 1 /\ Now(p).op = "get" /\ kinfo'[p] \in Received
         => avrecv'[Now(p).cpl].time = Now(p).msec]_vars

\* No check of the coupler stops a program that keeps to the rules.
NoAbort == aborted = "no"

\* The processes never wait for each other for ever: when none of them is done,
\* one is at a step that does not wait for a message, or its message is there.
Waits(p) ==
  LET s == Now(p) c == s.cpl IN
  /\ Runs(p, {"put", "get"})
  /\ ~Rejected(p, s) /\ CommNow(s) /\ c \in Exchanged
  /\ IF s.op = "get" THEN chan[c] = <<>>
                     ELSE ~AtEnd(s) /\ pend[c] /\ chan[c] # <<>>
NoHang ==
  aborted = "no" /\ (\E p \in Proc : ~Done(p)) => \E p \in Proc : ~Done(p) /\ ~Waits(p)

\* All the runs come to their end, though MPI buffers nothing.
Completes == <>Finished

=============================================================================
