SPECIFICATION Spec
CONSTANTS
    a1 = a1
    a2 = a2
    p1 = p1
    p2 = p2
    p3 = p3
    Attempts = {a1, a2}
    Plans = {p1, p2, p3}
    AttemptOf <- AttemptOfPlans
    Listened = {p1, p3}
    MaxBatches = 2
    Failures = {"create", "createLate", "execute", "release"}
INVARIANTS
    NoCallAfterRelease
    PoolCountExact
    OnePoolPerAttempt
    EarlierBatchesClosed
    ReturnedBatchOpen
    ReleasedAtEnd
