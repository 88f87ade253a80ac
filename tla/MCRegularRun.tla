---------------------------- MODULE MCRegularRun ----------------------------
(* The scenarios of MCCoupledRun whose programs put and get each field at   *)
(* every coupling date of the namcouple, as the theorems on what is in the  *)
(* messages assume.                                                         *)
EXTENDS MCAlignedRun

ASSUME RegularPrograms == Regular

=============================================================================
