--------------------------- MODULE MCCouplerSetup ---------------------------
(* The namcouples and the programs of the runs of CouplerSetup *)
EXTENDS CouplerSetup, SequencesExt

\* The sort, for every SEQ of up to four entries
ASSUME Sorts == \A n \in 0..4 : \A seq \in [1..n -> 1..3] : SeqSorted(seq) \in StableSorts(seq)

Entry(src, dst, seq, kind) == [src |-> src, dst |-> dst, seq |-> seq, kind |-> kind]
Out(name) == [name |-> name, ops |-> "Out"]
In(name) == [name |-> name, ops |-> "In"]

\* Couplers around three models, two fields in one of them, files
SetupNam ==
  <<Entry(<<"X">>, <<"X_1">>, 2, "expout"),
    Entry(<<"U", "V">>, <<"U_2", "V_2">>, 1, "exported"),
    Entry(<<"U">>, <<"U_3">>, 1, "exported"),
    Entry(<<"Y">>, <<"Y_3">>, 1, "exported"),
    Entry(<<"W">>, <<"W">>, 1, "output"),
    Entry(<<"I">>, <<"I">>, 1, "input")>>

\* The programs that it is for, with the definitions in different orders, but the
\* two fields of a coupler in the same one
GoodPrograms ==
  {<<ab[1], ab[2], c>> :
     ab \in {<<<<Out("U"), Out("V"), In("X_1")>>, <<In("I"), Out("Y"), In("U_2"), In("V_2")>>>>,
             <<<<In("X_1"), Out("V"), Out("U")>>, <<In("V_2"), In("U_2"), Out("Y"), In("I")>>>>},
     c \in {<<In("U_3"), Out("X"), In("Y_3"), Out("W")>>,
            <<Out("W"), In("Y_3"), Out("X"), In("U_3")>>}}

\* They keep to what the two ends need in order to find each other.
ASSUME GoodProgramsPair ==
  NamesPaired /\ \A f \in GoodPrograms : OneHome(f) /\ SameOrder(f)

\* Programs with variables missing, with the wrong direction, with a source of
\* their own, with a name twice, or more of them than the namcouple has
Either(name) == {<<>>, <<Out(name)>>, <<In(name)>>}
FaultPrograms ==
  {<<a \o b, c \o d, e>> :
     a \in Either("U"), b \in Either("V"), c \in Either("U_2"), d \in Either("V_2"),
     e \in {<<>>, <<Out("U"), Out("V")>>, <<Out("W")>>}}
  \cup {<<a, <<In("U_2")>>, <<>>>> :
     a \in {<<Out("Z"), Out("U")>>, <<Out("U"), Out("U")>>,
            <<Out("W"), Out("U"), In("U_2")>>,
            <<Out("U"), Out("V"), Out("X"), Out("Y"), Out("W"), In("I"), In("X_1"), In("Y_3")>>}}
SetupPrograms == GoodPrograms \cup FaultPrograms

\* What a run of the couplers starts from (CoupledRun): the entries as sorted
RunEntry(n, src, dst) == [src |-> src, dst |-> dst, outs |-> SetupNam[n].src,
                          ins |-> SetupNam[n].dst, kind |-> SetupNam[n].kind]
RunNam == <<RunEntry(2, 1, 2), RunEntry(3, 1, 3), RunEntry(4, 2, 3), RunEntry(5, 3, 3),
            RunEntry(6, 2, 2), RunEntry(1, 3, 1)>>
Run == INSTANCE CouplerEnds WITH Nam <- RunNam

\* prism_var%cpl
VarCouplers(p, i) == {c \in DOMAIN prism_coupler[p] : i \in Listed(prism_coupler[p][c].varid)}

\* The models have defined the variables of the couplers of the run
Wanted(e) == {[name |-> v, ops |-> IF e[1] = "put" THEN "Out" ELSE "In"] : v \in Listed(Run!Names(e))}
AllDefined ==
  \A p \in Model : Listed(prism_var[p]) = UNION {Wanted(e) : e \in Listed(Run!LocalEnds(p))}

\* When they have, the couplers of each model, and those of each of its variables,
\* are the ends that the models of the run start from, in the same order.
SetupGivesEnds ==
  SetUp /\ AllDefined => \A p \in Model :
    LET ends == Run!LocalEnds(p)
        Built(c) == <<prism_coupler[p][c].getput, prism_coupler[p][c].namID>>
        Sorted(e) == <<e[1], namfldsort[e[2]]>>
    IN /\ [c \in DOMAIN prism_coupler[p] |-> Built(c)] = [c \in DOMAIN ends |-> Sorted(ends[c])]
       /\ \A i \in DOMAIN prism_var[p] :
            LET v == prism_var[p][i]
                wanted == Run!VarEnds(p, IF v.ops = "Out" THEN "put" ELSE "get", v.name)
                built == SetToSortSeq(VarCouplers(p, i), <)
            IN [c \in DOMAIN built |-> Built(built[c])] = [c \in DOMAIN wanted |-> Sorted(wanted[c])]

\* Two models have the target of a field
TargetsNam == <<Entry(<<"U">>, <<"T">>, 1, "exported")>>
TargetsPrograms == {<<<<Out("U")>>, <<In("T")>>, <<In("T")>>>>}

=============================================================================
