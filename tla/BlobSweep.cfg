SPECIFICATION Spec
CONSTANTS
    Sweepers = {s1, s2}
    Keys = {k1, k2}
    Blobs = {b1, b2}
    MaxPins = 1
    MaxWrites = 1
    MaxFaults = 2
    NoKey = NoKey
    s1 = s1  s2 = s2  k1 = k1  k2 = k2  b1 = b1  b2 = b2
CONSTRAINT Within
SYMMETRY Symmetry
INVARIANTS TypeOK SweptWereDeleted
PROPERTIES DeletionsAreAnnounced FailedKeepContent
CHECK_DEADLOCK FALSE
