SPECIFICATION Spec
CONSTANTS
    None = None
    s1 = s1
    s2 = s2
    Session = {s1}
    Controls <- AdminOnly
    Duration = 1
    ExamEnd = 2
    Tolerance = 1
    StaleGrace = 1
    MaxTime = 4

INVARIANTS ResumeReachesTheClock
