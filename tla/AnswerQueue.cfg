SPECIFICATION FairSpec
CONSTANTS
    None = None
    w1 = w1
    s1 = s1
    q1 = q1
    Worker = {w1}
    Submitter = {s1}
    Question = {q1}
    WorkerBatch = 1
    DrainBatch = 2
    MaxRounds = 2
    MaxAnswers = 2
    MaxFaults = 1
INVARIANTS TypeOK NewestIsKept DrainedIsGraded
PROPERTIES ImplementsDelivery EveryAnswerStored
