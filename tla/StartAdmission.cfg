SPECIFICATION FairSpec
CONSTANTS
    None = None
    p1 = p1
    p2 = p2
    p3 = p3
    Request = {p1, p2, p3}
    Limit = 1
INVARIANTS TypeOK PermitsConserved NoHoldAndWait OneLoader NobodyWaitsInVain
PROPERTIES EveryStartEnds
