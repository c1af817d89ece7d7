SPECIFICATION FairSpec
CONSTANTS
    m1 = m1  m2 = m2  m3 = m3
    Messages = {m1, m2, m3}
    FromHuman = {m3}
    Kind <- Kinds
    MaxFailures = 1
INVARIANTS NothingLost AnsweredOnce SilenceExplained
PROPERTIES EventuallyAnswered
CHECK_DEADLOCK FALSE
