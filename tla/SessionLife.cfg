SPECIFICATION Spec
CONSTANTS
    None = None
    r1 = r1
    r2 = r2
    Request = {r1, r2}
    Kinds <- AllKinds
    MaxAttempts = 1
    MaxSessions = 3
    MayForce = {1}
SYMMETRY Requests
INVARIANTS TypeOK OneActive
PROPERTIES AttemptsRespected KickHolds HandedInStays KickTakesEffect
