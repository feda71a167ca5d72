--------------------------- MODULE MCAnswerBuffer ---------------------------
(* AnswerBuffer for TLC. *)
EXTENDS AnswerBuffer, TLC

CONSTANTS w1, w2, w3, d1, d2, s1, q1, q2

Workers == Permutations({w1, w2, w3}) \cup Permutations({d1, d2})

=============================================================================
