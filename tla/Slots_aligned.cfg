SPECIFICATION Spec
CONSTANTS
    a1 = a1  a2 = a2  b1 = b1
    Hour = 4  Day = 12  Week = 2  Days = 3
    Times = {0, 5, 13}
    Appointments = {a1}
    Blocks = {b1}
    Durations = {1, 3}
    Windows <- MCWindows
    Periods <- MCPeriods
    Asked <- MCAsked
    Settings <- OddSettings
    NoWindow = NoWindow  NoRow = NoRow

INVARIANTS SuggestedIsAligned
