SPECIFICATION Spec
CONSTANTS
    None = None
    r1 = r1
    r2 = r2
    r3 = r3
    q1 = q1
    q2 = q2
    Request = {r1, r2, r3}
    Question = {q1, q2}
    Value <- MCValue
    Grade <- MCGrade
    Kinds <- StaleKinds
SYMMETRY Requests
INVARIANTS GradesBelongToAnswers FinalizedOnce
