----------------------------- MODULE Collectives -----------------------------
(***************************************************************************)
(* What MPI promises of its collective calls, for P ranks: which elements  *)
(* of whose send buffer end where in whose receive buffer.  A buffer is a  *)
(* function from positions to values, positions and lengths are counted in *)
(* words, and a call is a record of its arguments, the counts and the      *)
(* displacements by rank and the extents of both types in words.           *)
(***************************************************************************)
EXTENDS Integers

CONSTANTS P, Op(_, _)     \* the number of ranks, the operation of reductions

VARIABLES send, recv,     \* the buffers, by rank
          call            \* the last call

vars == <<send, recv, call>>

Ranks == 0 .. P - 1

Varying(name) == name \in {"Gatherv", "Allgatherv", "Scatterv", "Alltoallv"}

\* The block of rank r: its length and place in the receive buffer of the rank
\* that collects it, and in the send buffer of the rank that distributes it.
RecvLen(c, r) == c.rcount[r] * c.rsize
Into(c, r)    == IF Varying(c.name) THEN c.rdispl[r] * c.rsize ELSE r * RecvLen(c, r)
SendLen(c, r) == c.scount[r] * c.ssize
From(c, r)    == IF Varying(c.name) THEN c.sdispl[r] * c.ssize ELSE r * SendLen(c, r)

Move(from, at, to, into, len) == [from |-> from, at |-> at, to |-> to, into |-> into, len |-> len]

\* What a call copies; from or to a root that is not a rank of this group
\* (MPI_ROOT: the root is in the other group) nothing is copied here.
Moves(c) ==
  CASE c.name \in {"Gather", "Gatherv"} ->
         {Move(r, 0, c.root, Into(c, r), RecvLen(c, r)) : r \in Ranks}
    [] c.name \in {"Scatter", "Scatterv"} ->
         {Move(s, From(c, r), r, 0, SendLen(c, r)) : s \in Ranks \cap {c.root}, r \in Ranks}
    [] c.name \in {"Allgather", "Allgatherv"} ->
         {Move(r, 0, t, Into(c, r), RecvLen(c, r)) : r, t \in Ranks}
    [] c.name \in {"Alltoall", "Alltoallv"} ->
         {Move(r, From(c, t), t, Into(c, r), SendLen(c, t)) : r, t \in Ranks}
    [] OTHER -> {}

\* The ranks whose elements rank r gets combined, in this order.
Combined(c, r) ==
  CASE c.name = "Reduce"    -> IF r = c.root THEN Ranks ELSE {}
    [] c.name = "Allreduce" -> Ranks
    [] c.name = "Scan"      -> 0 .. r
    [] OTHER -> {}

Combination(c, r, b) ==
  LET upto[s \in Combined(c, r)] ==
        IF s = 0 THEN send[0][b] ELSE Op(upto[s - 1], send[s][b])
  IN  upto[CHOOSE s \in Combined(c, r) : \A t \in Combined(c, r) : t <= s]

\* Position b of the receive buffer of rank r after the call.
Received(c, r, b) ==
  LET here == {m \in Moves(c) : m.to = r /\ b - m.into \in 0 .. m.len - 1}
      m == CHOOSE m \in here : TRUE
  IN  IF here # {} THEN send[m.from][m.at + b - m.into]
      ELSE IF Combined(c, r) # {} /\ b < SendLen(c, r) THEN Combination(c, r, b)
      ELSE recv[r][b]

\* A broadcast is from the one send buffer to the others.
Broadcast(c, r, b) ==
  IF c.name = "Bcast" /\ c.root \in Ranks /\ b < SendLen(c, r) THEN send[c.root][b]
                                                               ELSE send[r][b]

Init == call.name = "none"

\* The same call again would change nothing.
Next == /\ call' # call
        /\ recv' = [r \in Ranks |-> [b \in DOMAIN recv[r] |-> Received(call', r, b)]]
        /\ send' = [r \in Ranks |-> [b \in DOMAIN send[r] |-> Broadcast(call', r, b)]]

Spec == Init /\ [][Next]_vars

=============================================================================
