-------------------------- MODULE MCStartAdmission --------------------------
(* StartAdmission for TLC. *)
EXTENDS StartAdmission, TLC

CONSTANTS p1, p2, p3

=============================================================================
