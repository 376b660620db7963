SPECIFICATION MCSpec
CONSTANTS
    a1 = a1
    a2 = a2
    a3 = a3
    b0 = b0
    b1 = b1
    k1 = k1
    k2 = k2
    k3 = k3
    k4 = k4
    k5 = k5
    t1 = t1
    t2 = t2
    t3 = t3
    w2 = w2
    Atoms = {a1}
    Bodies = {b0, b1}
    None = None
    NoRow = NoRow
    MaxRev = 3
    MaxCommits = 2
    Workers = {w1}
    Keys = {k1}
    Tokens = {t1}
    Intents <- AllRequests
    Request <- CorrectionRequest
    SeedBody = b0
    Seeded = {a1}
    Serial = {}
CHECK_DEADLOCK FALSE
INVARIANTS RefusedContentIsNotShown
