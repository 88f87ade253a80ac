---------------------------- MODULE CouplerEnds ----------------------------
(***************************************************************************)
(* The ends of the couplers in each process, in the order of its           *)
(* prism_coupler, as the time loop finds them: what CouplerSetup arrives   *)
(* at.  The names of a namcouple entry are known by their positions.       *)
(***************************************************************************)
LOCAL INSTANCE SequencesExt
LOCAL INSTANCE Functions

CONSTANT Nam  \* the entries in the order of namfldsort: [src, dst |-> models,
              \* outs, ins |-> the variables of each end, kind |-> ...]

\* An end is <<"put" or "get", index in Nam>>
Names(e) == IF e[1] = "put" THEN Nam[e[2]].outs ELSE Nam[e[2]].ins

\* The ends of a process in the order of its prism_coupler, that of the
\* namcouple
LocalEnds(p) ==
  FlattenSeq([c \in DOMAIN Nam |->
    (IF Nam[c].src = p /\ Nam[c].kind # "input" THEN <<<<"put", c>>>> ELSE <<>>) \o
    (IF Nam[c].dst = p /\ Nam[c].kind # "output" THEN <<<<"get", c>>>> ELSE <<>>)])

\* prism_var(varid)%cpl: the ends a variable is part of
VarEnds(p, op, v) ==
  SelectSeq(LocalEnds(p), LAMBDA e : e[1] = op /\ v \in Range(Names(e)))
FieldOf(e, v) == CHOOSE f \in DOMAIN Names(e) : Names(e)[f] = v

=============================================================================
