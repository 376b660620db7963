SPECIFICATION Spec
CONSTANTS
    d1 = d1
    d2 = d2
    Drivers = {d1, d2}
    Batches = {"b1", "b2"}
    Contents = {"x", "y"}
    Requests <- Operators
    MaxGeneration = 5
    MaxWrites = 2
    MaxFaults = 1
    Nobody = Nobody
    Orphan = Orphan
    NoBatch = NoBatch
    Nothing = Nothing
CHECK_DEADLOCK FALSE
INVARIANTS TypeOK BatchesAreWhole
PROPERTIES CutoverOnMatch
