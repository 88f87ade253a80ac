------------------------------ MODULE DataLists ------------------------------
(***************************************************************************)
(* What the lists of mpi-serial promise to the program that uses them:     *)
(* each list is a sequence of data of its own, a traversal is a position   *)
(* in one of them, and every call answers from the sequences.              *)
(***************************************************************************)
EXTENDS Naturals, SequencesExt

CONSTANTS Values, Lists

VARIABLES seqs,    \* the lists that exist, each a sequence of data
          at,      \* the traversal: of which list (0 for none), and how many
                   \* data of that list are at or before its place
          answer   \* what the last call returned

vars == <<seqs, at, answer>>

Init == seqs = <<>> /\ at = [list |-> 0, pos |-> 0] /\ answer = <<>>

Set(p, s) == seqs' = [q \in DOMAIN seqs \cup {p} |-> IF q = p THEN s ELSE seqs[q]]

New(p) == p \notin DOMAIN seqs /\ Set(p, <<>>) /\ answer' = <<>> /\ UNCHANGED at

\* The traversal keeps its place when the data before it change.
PutFirst(p, d) ==
  /\ Set(p, <<d>> \o seqs[p])
  /\ at' = IF at.list = p /\ at.pos > 0 THEN [at EXCEPT !.pos = @ + 1] ELSE at
  /\ answer' = <<>>

PutLast(p, d) == Set(p, Append(seqs[p], d)) /\ answer' = <<>> /\ UNCHANGED at

Delete(p, d) ==
  LET k == SelectInSeq(seqs[p], LAMBDA x : x = d)
  IN  IF k = 0 THEN answer' = <<0>> /\ UNCHANGED <<seqs, at>>
      ELSE /\ Set(p, RemoveAt(seqs[p], k))
           /\ at' = IF at.list = p /\ k < at.pos THEN [at EXCEPT !.pos = @ - 1] ELSE at
           /\ answer' = <<1>>

Duplicate(p, q) == /\ q \notin DOMAIN seqs /\ Set(q, seqs[p])
                   /\ answer' = <<>> /\ UNCHANGED at

Free(p) == /\ seqs' = [q \in DOMAIN seqs \ {p} |-> seqs[q]]
           /\ answer' = <<>> /\ UNCHANGED at

Begin(p) == /\ at.list = 0 /\ at' = [list |-> p, pos |-> 0]
            /\ answer' = <<>> /\ UNCHANGED seqs

\* The traversal stands at position k of s, or is over when there is none.
Stands(p, s, k) ==
  IF k <= Len(s) THEN at' = [list |-> p, pos |-> k] /\ answer' = <<1, s[k]>>
                 ELSE at' = [list |-> 0, pos |-> 0] /\ answer' = <<0>>

NextDatum == /\ at.list # 0 /\ Stands(at.list, seqs[at.list], at.pos + 1)
             /\ UNCHANGED seqs

DeleteHere == /\ at.list # 0 /\ at.pos # 0
              /\ Set(at.list, RemoveAt(seqs[at.list], at.pos))
              /\ Stands(at.list, RemoveAt(seqs[at.list], at.pos), at.pos)

Step == \/ \E p \in Lists : New(p)
        \/ \E p \in DOMAIN seqs :
             \/ \E d \in Values : PutFirst(p, d) \/ PutLast(p, d) \/ Delete(p, d)
             \/ \E q \in Lists : Duplicate(p, q)
             \/ Free(p) \/ Begin(p)
        \/ NextDatum \/ DeleteHere

Next == vars' # vars /\ Step

Spec == Init /\ [][Next]_vars

=============================================================================
