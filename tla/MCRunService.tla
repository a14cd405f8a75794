---------------------------- MODULE MCRunService ----------------------------
(***************************************************************************)
(* The instance of RunService that TLC checks for safety.  The jobs of the *)
(* task runner are alike, so states that differ by their names are one.    *)
(* Runs and records are not: both are taken in the order of their numbers. *)
(***************************************************************************)
EXTENDS RunService, TLC

JobSymmetry == Permutations(Jobs)
=============================================================================
