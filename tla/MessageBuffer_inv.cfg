SPECIFICATION Spec
CONSTANTS
    m1 = m1  m2 = m2  m3 = m3
    Messages = {m1, m2, m3}
    FromHuman = {m3}
    Kind <- Kinds
    MaxFailures = 2
INVARIANTS SilenceInv SilenceExplained FailuresCounted AnsweredAtRest NobodyWaits
PROPERTIES ExecutionsLeadOn
CHECK_DEADLOCK FALSE
