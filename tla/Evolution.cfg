SPECIFICATION Spec
CONSTANTS
    i1 = i1  i2 = i2  q1 = q1  q2 = q2
    Integrations = {i1, i2}
    Keys = {1, 2}
    Requests = {q1, q2}
    None = None
INVARIANTS NoOrphan WorksForOwner OpenHasWebhook
