SPECIFICATION Spec
CONSTANTS
    None = None
    q1 = q1
    q2 = q2
    r1 = r1
    r2 = r2
    Question = {q1}
    Request = {r1, r2}
    Batch = 2
    MaxEvents = 2
    MaxFaults = 1
CHECK_DEADLOCK FALSE
PROPERTIES NeverBack
