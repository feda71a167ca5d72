SPECIFICATION FairSpec
CONSTANTS
    None = None
    q1 = q1
    q2 = q2
    r1 = r1
    r2 = r2
    Question = {q1, q2}
    Request = {r1, r2}
    Batch = 2
    MaxEvents = 3
    MaxFaults = 2
CHECK_DEADLOCK FALSE
INVARIANTS TypeOK AckedIsTaken EmptyIsStored
PROPERTIES ImplementsDelivery AwaitedMovesForward 
