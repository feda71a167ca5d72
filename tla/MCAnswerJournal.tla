--------------------------- MODULE MCAnswerJournal ---------------------------
(* AnswerJournal for TLC. *)
EXTENDS AnswerJournal, TLC

CONSTANTS q1, q2, r1, r2

=============================================================================
