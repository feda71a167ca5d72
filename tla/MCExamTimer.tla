---------------------------- MODULE MCExamTimer ----------------------------
(* ExamTimer for TLC: the pause controls of each run. *)
EXTENDS ExamTimer, TLC

CONSTANTS s1, s2

AllControls == {"exam", "goExam", "admin"}

AdminOnly == {"admin"}

=============================================================================
