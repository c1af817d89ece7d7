SPECIFICATION Spec
CONSTANTS
    c1 = c1  c2 = c2  m1 = m1  m2 = m2  m3 = m3
    Messages = {m1, m2}
    Chats = {c1, c2}
    ChatOf <- TwoChats
    GivesName = {}
    NoHours = {}
    None = None
    MaxOpenings = 1
    MaxFailures = 0
PROPERTIES ResumesAllDue
CHECK_DEADLOCK FALSE
