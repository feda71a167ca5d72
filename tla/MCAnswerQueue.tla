--------------------------- MODULE MCAnswerQueue ---------------------------
(* AnswerQueue for TLC. *)
EXTENDS AnswerQueue

CONSTANTS w1, s1, q1

=============================================================================
