SPECIFICATION FairSpec
CONSTANTS
    None = None
    w1 = w1
    w2 = w2
    w3 = w3
    d1 = d1
    d2 = d2
    s1 = s1
    q1 = q1
    q2 = q2
    Writer = {w1, w2}
    Drainer = {d1}
    Submitter = {s1}
    Question = {q1}
    Value = {1}
    MaxFaults = 1
INVARIANTS TypeOK SubmitSeesTheBuffer
PROPERTIES ImplementsDelivery EverySubmitEnds
