SPECIFICATION Spec
CONSTANTS
    a1 = a1  a2 = a2  q1 = q1  q2 = q2  w1 = w1  w2 = w2
    Appointments = {a1}
    ReminderIds = {1, 2}
    Requests = {q1}
    Workers = {w1}
    Ops <- AllOps
    Outcomes = {"ok", "failed"}
    Starts = {1, 2}
    Leads = {1}
    Horizon = 2
    Lease = 1  MaxAttempts = 2  ClaimLimit = 1
    SendTries = 1
    NoRow = NoRow  NoId = NoId
INVARIANTS WaitingInv HoldInv
PROPERTIES DeliveriesCounted
