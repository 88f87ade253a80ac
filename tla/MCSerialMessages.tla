-------------------------- MODULE MCSerialMessages --------------------------
(* Four programs that are linked with mpi-serial, of which a behaviour     *)
(* runs one.                                                               *)
(*                                                                         *)
(* Messages: four sends and receives in all, with two tags and wildcards,  *)
(* on two communicators or on one and its successor after a second         *)
(* initialisation, with four handles: a list of three, of which the middle *)
(* one is taken, items used again as another kind, a pool that is          *)
(* exhausted.  Lists: two lists, one a copy of up to two items of the      *)
(* other, and freed items used again.  Collective calls: two in a row on   *)
(* four words, which two reals of eight bytes fill.  Packing: a buffer of  *)
(* five bytes, which data of one and two bytes fill or overrun.           *)
EXTENDS SerialMessages, ListUse, SerialCollectives, SerialPack

TagSymmetry == Permutations(Tags)

VARIABLE program

MCInit == /\ program \in {"messages", "lists", "collectives", "packing"}
          /\ Init /\ ListInit /\ CollInit /\ PackInit

Messages == /\ program = "messages" /\ Next
            /\ UNCHANGED <<program, listVars, collVars, packVars>>

ListCalls == /\ program = "lists" /\ ListNext
             /\ UNCHANGED <<program, vars, collVars, packVars>>

CollectiveCalls == /\ program = "collectives" /\ CollNext
                   /\ UNCHANGED <<program, vars, listVars, packVars>>

Packing == /\ program = "packing" /\ PackNext
           /\ UNCHANGED <<program, vars, listVars, collVars>>

MCNext == Messages \/ ListCalls \/ CollectiveCalls \/ Packing

MCSpec == MCInit /\ [][MCNext]_<<program, vars, listVars, collVars, packVars>>

=============================================================================
