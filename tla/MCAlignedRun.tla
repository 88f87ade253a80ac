---------------------------- MODULE MCAlignedRun ----------------------------
(* The scenarios of MCCoupledRun whose programs start their couplings at    *)
(* the coupling time 0, as the user guide asks for and the theorems assume. *)
EXTENDS MCCoupledRun

ASSUME WellTimed == AlignedStart /\ InitFirst

=============================================================================
