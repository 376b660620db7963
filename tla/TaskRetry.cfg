SPECIFICATION Spec
CONSTANTS
    p1 = p1
    p2 = p2
    Procs = {p1, p2}
    Runs = {e1}
    Exclusive = {e1}
    Retries = TRUE
    Requests <- OneWindow
    MaxRuns = 1
    MaxFaults = 0
    Nobody = Nobody
    NoRun = NoRun
CHECK_DEADLOCK FALSE
INVARIANTS ExecutedOnce
