SPECIFICATION MCSpec
CONSTANTS
    a1 = a1
    b1 = b1
    c1 = c1
    p1 = p1
    Atoms = {a1, a2}
    Bodies = {b1, b2}
    None = None
    MaxRev = 3
    Clients = {c1, c2}
    Projectors = {p1, p2}
    Workload = {"put", "update", "lock", "delete", "enrich", "rollback", "restore", "supersede"}
CHECK_DEADLOCK FALSE
INVARIANTS TypeOK ReceiptsAreBacked ShownHasReceipt NothingStagedBehind LedgerAgreesWithRow ImportedBodyIsEvidenced
PROPERTIES HistoryIsKept RevisionsAdvance OverlapIsProjected
