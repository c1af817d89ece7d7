SPECIFICATION Spec
CONSTANTS
    c1 = c1  c2 = c2  m1 = m1  m2 = m2  m3 = m3
    Messages = {m1, m3}
    Chats = {c1}
    ChatOf <- OneChat
    GivesName = {m3}
    NoHours = {}
    None = None
    MaxOpenings = 2
    MaxFailures = 1
INVARIANTS QuestionClosed DroppedChatsWait WaitingKnows
PROPERTIES NoticedOnce
CHECK_DEADLOCK FALSE
