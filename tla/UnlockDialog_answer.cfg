\* gf-auth.c:638
SPECIFICATION DialogSpec
CONSTANTS
    None = None
    Other = Other
    Requests = {r1, r2}
    Users = {u1, u2}
    Windows = {w1, w2, root}
    Retries = 4
    Gammas = {g1, g2}
    Full = 3
    MaxTasks = 2
    Conversations <- Prompt
    MaxConversations = 1
    MaxMessages = 2
    MaxFailures = 2
    UserSwitch = FALSE
    SeatKnown = FALSE
    MaxCalls = 2
INVARIANT
    AnswerTakenFirst
CHECK_DEADLOCK FALSE
