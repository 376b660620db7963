SPECIFICATION Spec
CONSTANTS
    d1 = d1
    d2 = d2
    Drivers = {d1, d2}
    Batches = {"b1"}
    Contents = {"x"}
    Requests <- Reruns
    MaxGeneration = 4
    MaxWrites = 0
    MaxFaults = 0
    Nobody = Nobody
    Orphan = Orphan
    NoBatch = NoBatch
    Nothing = Nothing
CHECK_DEADLOCK FALSE
PROPERTIES FailuresKeepTheState
