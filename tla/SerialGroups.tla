---------------------------- MODULE SerialGroups -----------------------------
(***************************************************************************)
(* The groups of mpi-serial (lib/mct/mpi-serial/group.c): with one process *)
(* there are two of them, the empty one and the one of rank 0, and every   *)
(* operation is a case distinction on constants.                           *)
(***************************************************************************)
EXTENDS Integers, Sequences, Functions

MPI_GROUP_NULL  == 0
MPI_GROUP_EMPTY == -1
MPI_GROUP_ONE   == 1
MPI_UNDEFINED   == -1

Aborts == -2              \* stands for a call that ends in abort()

AnyNull(g, h) == MPI_GROUP_NULL \in {g, h}

MPI_Group_incl(g, ranks) ==
  IF g = MPI_GROUP_NULL THEN Aborts
  ELSE IF g = MPI_GROUP_EMPTY \/ ranks = <<>> THEN MPI_GROUP_EMPTY
  ELSE IF ranks = <<0>> THEN MPI_GROUP_ONE
  ELSE Aborts

\* A range is the triple of a first rank, a last rank and a stride.
MPI_Group_range_incl(g, ranges) ==
  IF g = MPI_GROUP_NULL THEN Aborts
  ELSE IF g = MPI_GROUP_EMPTY \/ ranges = <<>> THEN MPI_GROUP_EMPTY
  ELSE IF Len(ranges) = 1 /\ ranges[1][1] = 0 /\ ranges[1][2] = 0 THEN MPI_GROUP_ONE
  ELSE Aborts

MPI_Group_union(g, h) ==
  IF AnyNull(g, h) THEN Aborts
  ELSE IF MPI_GROUP_ONE \in {g, h} THEN MPI_GROUP_ONE ELSE MPI_GROUP_EMPTY

MPI_Group_intersection(g, h) ==
  IF AnyNull(g, h) THEN Aborts
  ELSE IF {g, h} = {MPI_GROUP_ONE} THEN MPI_GROUP_ONE ELSE MPI_GROUP_EMPTY

MPI_Group_difference(g, h) ==
  IF AnyNull(g, h) THEN Aborts
  ELSE IF g = MPI_GROUP_EMPTY \/ h = MPI_GROUP_ONE THEN MPI_GROUP_EMPTY ELSE MPI_GROUP_ONE

TranslateAborts(g, ranks, h) ==
  \/ AnyNull(g, h)
  \/ ranks # <<>> /\ (g = MPI_GROUP_EMPTY \/ Range(ranks) # {0})

MPI_Group_translate_ranks(g, ranks, h) ==
  IF TranslateAborts(g, ranks, h) THEN <<Aborts>>
  ELSE [i \in DOMAIN ranks |-> IF h = MPI_GROUP_EMPTY THEN MPI_UNDEFINED ELSE ranks[i]]

-----------------------------------------------------------------------------
(* The reference: a group is the sequence of its ranks, here a set.        *)

Groups == {MPI_GROUP_EMPTY, MPI_GROUP_ONE}

Ranks(g) == IF g = MPI_GROUP_ONE THEN {0} ELSE {}

\* The case distinctions of group.c compute the set operations, for all
\* groups and every list of ranks that MPI allows to name, and a rank that is
\* not in the other group translates to MPI_UNDEFINED.
GroupsAreSets ==
  \A g, h \in Groups :
    /\ Ranks(MPI_Group_union(g, h)) = Ranks(g) \cup Ranks(h)
    /\ Ranks(MPI_Group_intersection(g, h)) = Ranks(g) \cap Ranks(h)
    /\ Ranks(MPI_Group_difference(g, h)) = Ranks(g) \ Ranks(h)
    /\ \A ranks \in {<<>>} \cup [{1} -> Ranks(g)] :
         /\ Ranks(MPI_Group_incl(g, ranks)) = Range(ranks)
         /\ LET ranges == [i \in DOMAIN ranks |-> <<ranks[i], ranks[i], 1>>]
            IN  Ranks(MPI_Group_range_incl(g, ranges)) = Range(ranks)
         /\ LET there == MPI_Group_translate_ranks(g, ranks, h)
            IN  /\ DOMAIN there = DOMAIN ranks
                /\ \A i \in DOMAIN ranks :
                     there[i] = IF ranks[i] \in Ranks(h) THEN ranks[i] ELSE MPI_UNDEFINED

ASSUME GroupsAssumption == GroupsAreSets

=============================================================================
