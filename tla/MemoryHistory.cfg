SPECIFICATION Spec
CONSTANTS
    Atoms = {a1, a2}
    Bodies = {b1}
    None = None
    MaxRev = 2
    Clients = {c1}
    Projectors = {p1}
    Workload = {"put", "supersede"}
CHECK_DEADLOCK FALSE
PROPERTIES HistoryIsAppendOnly
