SPECIFICATION Spec
CONSTANTS
    p1 = p1  s1 = s1  e1 = e1  e2 = e2  m1 = m1
    Professionals = {p1}
    Services = {s1}
    professional = p1
    service = s1
    Calls = {e1, e2}
    Reads = {e1, e2}
    MessageOf <- OneMessage
    Starts = {1, 2}
    None = None
    MaxUpdates = 1
    MaxFailures = 1
INVARIANTS ReadsInv ChangesInv LastInv
SYMMETRY SameCalls
CHECK_DEADLOCK FALSE
