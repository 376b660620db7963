SPECIFICATION MCSpec
CONSTANTS
    a1 = a1
    a2 = a2
    a3 = a3
    b0 = b0
    b1 = b1
    k1 = k1
    k2 = k2
    k3 = k3
    k4 = k4
    k5 = k5
    t1 = t1
    t2 = t2
    t3 = t3
    w2 = w2
    Atoms = {a1, a2, a3}
    Bodies = {b0, b1}
    None = None
    NoRow = NoRow
    MaxRev = 5
    MaxCommits = 2
    Workers = {w1, w2}
    Keys = {k1, k2, k3, k4, k5}
    Tokens = {t1, t2, t3}
    Intents <- AllRequests
    Request <- EitherRequests
    SeedBody = b0
    Seeded = {a1, a2}
    Serial = {k1, k2, k3}
CHECK_DEADLOCK FALSE
INVARIANTS CompensationRestores ReceiptsAreRecorded
PROPERTIES FencesRequests
