SPECIFICATION Spec
CONSTANTS
    Atoms = {a1}
    Bodies = {b1, b2}
    None = None
    MaxRev = 4
    Clients = {c1, c2}
    Projectors = {p1}
    Workload = {"put", "lock", "delete", "update"}
SYMMETRY Symmetric
CHECK_DEADLOCK FALSE
INVARIANTS ShownBodyIsEvidenced
