----------------------------- MODULE TagMatching -----------------------------
(***************************************************************************)
(* What MPI promises to a program of one process: each communicator        *)
(* matches sends and receives by tag.  A send goes to the oldest open      *)
(* receive that takes its tag, a receive takes the oldest open send that   *)
(* has its tag, and nothing stays open that could be matched.              *)
(***************************************************************************)
EXTENDS Naturals, Sequences, FiniteSetsExt

CONSTANTS Comms,          \* the numbers of communicators
          Tags,           \* the tags of messages
          ANY_TAG         \* the tag of a receive that takes every message

VARIABLE ch               \* what was sent and received, in order, and which
                          \* send went to which receive

Fits(s, r) == s.comm = r.comm /\ r.tag \in {s.tag, ANY_TAG}

OpenSends(c) == {i \in DOMAIN c.sends : \A p \in c.pairs : p[1] # i}

OpenRecvs(c) == {j \in DOMAIN c.recvs : \A p \in c.pairs : p[2] # j}

WithSend(c, s) ==
  LET fit == {j \in OpenRecvs(c) : Fits(s, c.recvs[j])}
  IN  [c EXCEPT !.sends = Append(@, s),
                !.pairs = IF fit = {} THEN @
                          ELSE @ \cup {<<Len(c.sends) + 1, Min(fit)>>}]

WithRecv(c, r) ==
  LET fit == {i \in OpenSends(c) : Fits(c.sends[i], r)}
  IN  [c EXCEPT !.recvs = Append(@, r),
                !.pairs = IF fit = {} THEN @
                          ELSE @ \cup {<<Min(fit), Len(c.recvs) + 1>>}]

Init == ch = [sends |-> <<>>, recvs |-> <<>>, pairs |-> {}]

Sends == [comm : Comms, tag : Tags]

Recvs == [comm : Comms, tag : Tags \cup {ANY_TAG}]

\* The last alternative is MPI_Sendrecv, on one communicator.
Next ==
  /\ ch' # ch
  /\ \/ \E s \in Sends : ch' = WithSend(ch, s)
     \/ \E r \in Recvs : ch' = WithRecv(ch, r)
     \/ \E s \in Sends, r \in Recvs :
          s.comm = r.comm /\ ch' = WithSend(WithRecv(ch, r), s)

Spec == Init /\ [][Next]_ch

=============================================================================
