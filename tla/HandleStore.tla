---------------------------- MODULE HandleStore -----------------------------
(***************************************************************************)
(* What a caller of handles.c may rely on: a handle that is given out is   *)
(* one that nobody holds, and the store gives up only when every handle it *)
(* could ever give out is held.                                            *)
(***************************************************************************)
CONSTANT Handles          \* every handle the store can ever give out

VARIABLES held,           \* handles that are in use
          aborted         \* the program was ended by abort()

vars == <<held, aborted>>

Init == held = {} /\ aborted = FALSE

Alloc(h) == /\ ~aborted
            /\ h \in Handles \ held
            /\ held' = held \cup {h}
            /\ UNCHANGED aborted

Exhausted == /\ held = Handles
             /\ aborted' = TRUE
             /\ UNCHANGED held

Free(h) == /\ ~aborted
           /\ h \in held
           /\ held' = held \ {h}
           /\ UNCHANGED aborted

Clear == /\ ~aborted
         /\ held' = {}
         /\ UNCHANGED aborted

Next == (\E h \in Handles : Alloc(h) \/ Free(h)) \/ Exhausted \/ Clear

Spec == Init /\ [][Next]_vars

=============================================================================
