SPECIFICATION Spec
CONSTANTS
    a1 = a1  a2 = a2  q1 = q1  q2 = q2  w1 = w1  w2 = w2
    Appointments = {a1}
    ReminderIds = {1, 2, 3}
    Requests = {q1, q2}
    Workers = {w1, w2}
    Ops <- CountedOps
    Outcomes = {"ok", "failed"}
    Starts = {2, 3}
    Leads = {1, 2, 3}
    Horizon = 3
    Lease = 1  MaxAttempts = 2  ClaimLimit = 2
    SendTries = 2
    NoRow = NoRow  NoId = NoId
ACTION_CONSTRAINT Scenarios
SYMMETRY ActorSymmetry
INVARIANTS StartsHaveReminders ScheduleNeverClashes SentWasDelivered WaitingStaysCurrent
PROPERTIES SentUndoneOnlyByStaleRead DeliveriesCounted
