SPECIFICATION FairSpec
CONSTANTS
    e1 = e1  e2 = e2
    Executions = {e1}
    WeekDays = 2  DayMinutes = 3
    None = None
    Schedules <- NewHours
    Ttl = 3
    CleanupAt = 0
    MaxUpdates = 1
    MaxFailures = 1
INVARIANTS HoursAgree PromiseIsFirst UpdateReaches
PROPERTIES EventuallyFresh
