--------------------------- MODULE CouplingClock ----------------------------
(***************************************************************************)
(* What the coupler promises of the times of a coupling: one exchange per  *)
(* coupling period, in the order of time, each of them first sent and then *)
(* received, the first one at time 0 and the last before the end.          *)
(***************************************************************************)
EXTENDS Integers

CONSTANTS Couplings,   \* the couplings
          Period,      \* the coupling period of each
          EndTime      \* the length of a run

VARIABLES sent,        \* the coupling time of the last message sent
          got          \* the coupling time of the last message received

Before == [c \in Couplings |-> -Period[c]]

Init == sent = Before /\ got = Before

Send(c) == /\ sent[c] + Period[c] < EndTime
           /\ sent' = [sent EXCEPT ![c] = @ + Period[c]]
           /\ UNCHANGED got

Receive(c) == /\ got[c] < sent[c]
              /\ got' = [got EXCEPT ![c] = @ + Period[c]]
              /\ UNCHANGED sent

\* A run ends, and the next one starts at time 0
NewRun == sent' = Before /\ got' = Before

Next == (\E c \in Couplings : Send(c) \/ Receive(c)) \/ NewRun

Spec == Init /\ [][Next]_<<sent, got>>

=============================================================================
