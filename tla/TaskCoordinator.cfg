SPECIFICATION FairSpec
CONSTANTS
    p1 = p1
    p2 = p2
    Procs = {p1, p2}
    Runs = {e1, e2, k1}
    Exclusive = {e1, e2}
    Retries = FALSE
    Requests <- TwoWindows
    MaxRuns = 2
    MaxFaults = 2
    Nobody = Nobody
    NoRun = NoRun
CHECK_DEADLOCK FALSE
INVARIANTS TypeOK LiveWorkIsRunning OneWorkerPerProcess ShutdownStopsWork ExecutedOnce
PROPERTIES OutcomesAreFinal RunsEnd
