---------------------------- MODULE AnswerSheet ----------------------------
(***************************************************************************)
(* What one exam session promises its student, with no transactions, locks *)
(* or caches: answers may be replaced while the session is open, and       *)
(* handing it in happens once and grades exactly the answers it holds.     *)
(* SessionWrites is shown to implement it.                                 *)
(***************************************************************************)
EXTENDS Naturals

CONSTANTS
    Question,   \* the questions of the exam
    Value,      \* the answers a student may give to a question
    Grade,      \* Grade[q][v]: the points answer v earns on question q
    None        \* no answer, no score

VARIABLES
    status,     \* exam_sessions.status
    answers,    \* the stored answer to each question, or None
    score       \* the points of each question once handed in, or None

sheetVars == <<status, answers, score>>

Payload == [Question -> Value \cup {None}]

SheetInit ==
    /\ status = "in_progress"
    /\ answers = [q \in Question |-> None]
    /\ score = None

(* Some of the answers are replaced, in one step and only while open. *)
Save ==
    /\ status = "in_progress"
    /\ answers' \in Payload
    /\ \A q \in Question : answers[q] # None => answers'[q] # None
    /\ UNCHANGED <<status, score>>

(* The session is handed in: its score is what its answers are worth. *)
HandIn ==
    /\ status = "in_progress"
    /\ status' = "submitted"
    /\ score' = [q \in Question |->
                    IF answers[q] = None THEN 0 ELSE Grade[q][answers[q]]]
    /\ UNCHANGED answers

SheetNext == Save \/ HandIn

SheetSpec == SheetInit /\ [][SheetNext]_sheetVars

=============================================================================
