---------------------------- MODULE MCCoupledRun ----------------------------
(* The coupled models that the runs check, after those of the user guide   *)
(* (doc/UG2_Model_interfacing.tex, "The lag concept", "The sequence         *)
(* concept").  The time unit is two seconds of the guide where all its      *)
(* times are even.                                                          *)
EXTENDS CoupledRun

Entry(src, dst, outs, ins, dt, lag, trans, seq, kind) ==
  [src |-> src, dst |-> dst, outs |-> outs, ins |-> ins, nflds |-> Len(outs),
   dt |-> dt, lag |-> lag, trans |-> trans, seq |-> seq, kind |-> kind]
Model(step, calls) == [step |-> step, calls |-> calls]
Put(v) == <<"put", v>>
Get(v) == <<"get", v>>

TwoModels == {"A", "B"}

\* TimeSteppedScript, as a table that TLC computes once
ScriptTable == LET script == TimeSteppedScript IN script

\* LAG concept, second example, with a third of its time step; F1 is the mean of
\* a period that ends two steps before the coupling time, F3 the sum of one that
\* ends one step after it
LagsNam ==
  <<Entry("A", "B", <<"F1">>, <<"F1_B">>, 3, 2, "average", 1, "exported"),
    Entry("B", "A", <<"F2">>, <<"F2_A">>, 3, 1, "instant", 1, "exported"),
    Entry("A", "B", <<"F3">>, <<"F3_B">>, 3, -1, "accumul", 1, "exported")>>
LagsProgram ==
  [p \in TwoModels |->
     IF p = "A" THEN Model(1, <<Get("F2_A"), Put("F3"), Put("F1")>>)
                ELSE Model(1, <<Get("F1_B"), Get("F3_B"), Put("F2")>>)]

\* Two fields in one coupler, one field with two targets, files, three models
ThreeModels == {"A", "B", "C"}
ManyNam ==
  <<Entry("A", "B", <<"U", "V">>, <<"U_B", "V_B">>, 2, 1, "average", 1, "exported"),
    Entry("A", "C", <<"U">>, <<"U_C">>, 4, 0, "max", 1, "exported"),
    Entry("A", "A", <<"W">>, <<"W">>, 2, 0, "min", 1, "output"),
    Entry("B", "B", <<"I">>, <<"I">>, 2, 0, "instant", 1, "input"),
    Entry("C", "A", <<"X">>, <<"X_A">>, 2, 0, "instant", 2, "expout")>>
ManyProgram ==
  [p \in ThreeModels |->
     CASE p = "A" -> Model(1, <<Put("U"), Put("V"), Put("W"), Get("X_A")>>)
       [] p = "B" -> Model(2, <<Get("U_B"), Get("V_B"), Get("I")>>)
       [] p = "C" -> Model(2, <<Get("U_C"), Put("X")>>)]

\* Models that do not do as the namcouple says, each in its own way: A gets F2
\* before it puts F1, which has a smaller SEQ; C has a time step that is not a
\* divisor of the coupling period of F3; D gets one of the two fields F5 and F6
\* of an entry
FourModels == {"A", "B", "C", "D"}
MisuseNam ==
  <<Entry("A", "B", <<"F1">>, <<"F1_B">>, 3, 3, "instant", 1, "exported"),
    Entry("B", "A", <<"F2">>, <<"F2_A">>, 3, 3, "instant", 2, "exported"),
    Entry("C", "B", <<"F3">>, <<"F3_B">>, 3, 0, "instant", 3, "exported"),
    Entry("D", "B", <<"F4">>, <<"F4_B">>, 2, 0, "instant", 3, "exported"),
    Entry("C", "D", <<"F5", "F6">>, <<"F5_D", "F6_D">>, 2, 0, "instant", 3, "exported")>>
MisuseProgram ==
  [p \in FourModels |->
     CASE p = "A" -> Model(3, <<Get("F2_A"), Put("F1")>>)
       [] p = "B" -> Model(3, <<Get("F1_B"), Put("F2"), Get("F3_B")>>)
       [] p = "C" -> Model(2, <<Put("F3"), Put("F5"), Put("F6")>>)
       [] p = "D" -> Model(2, <<Get("F5_D"), Put("F4")>>)]

\* The sequence concept: F2 depends on F1, and SEQ says so
SeqNam ==
  <<Entry("A", "B", <<"F1">>, <<"F1_B">>, 2, 0, "instant", 1, "exported"),
    Entry("B", "A", <<"F2">>, <<"F2_A">>, 2, 0, "instant", 2, "exported")>>
\* A waits for the F2 that B makes of A's F1
GetGetProgram ==
  [p \in TwoModels |-> IF p = "A" THEN Model(2, <<Get("F2_A"), Put("F1")>>)
                                  ELSE Model(2, <<Get("F1_B"), Put("F2")>>)]

\* U goes to two models, and the entry of V is between its two entries
SplitNam ==
  <<Entry("A", "B", <<"U">>, <<"U_B">>, 2, 1, "instant", 1, "exported"),
    Entry("A", "B", <<"V">>, <<"V_B">>, 2, 1, "instant", 1, "exported"),
    Entry("A", "C", <<"U">>, <<"U_C">>, 2, 1, "instant", 1, "exported")>>
SplitProgram ==
  [p \in ThreeModels |->
     CASE p = "A" -> Model(1, <<Put("U"), Put("V")>>)
       [] p = "B" -> Model(2, <<Get("U_B"), Get("V_B")>>)
       [] p = "C" -> Model(2, <<Get("U_C")>>)]

\* Runs of one coupling period, whose last put comes after the coupling
ShortNam ==
  <<Entry("A", "B", <<"F">>, <<"F_B">>, 3, 2, "average", 1, "exported")>>
ShortProgram ==
  [p \in TwoModels |-> IF p = "A" THEN Model(1, <<Put("F")>>)
                                  ELSE Model(3, <<Get("F_B")>>)]

\* U goes to two models, to B with a lag of a period and to C without a lag
TwoLagsNam ==
  <<Entry("A", "B", <<"U">>, <<"U_B">>, 2, 2, "instant", 1, "exported"),
    Entry("A", "C", <<"U">>, <<"U_C">>, 2, 0, "instant", 1, "exported")>>
TwoLagsProgram ==
  [p \in ThreeModels |-> CASE p = "A" -> Model(2, <<Put("U")>>)
                           [] p = "B" -> Model(2, <<Get("U_B")>>)
                           [] p = "C" -> Model(2, <<Get("U_C")>>)]

=============================================================================
