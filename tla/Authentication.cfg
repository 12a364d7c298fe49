\* The unlock dialog, the login manager, polkit, the grab and the fade.
SPECIFICATION AllSpec
CONSTANTS
    None = None
    Other = Other
    Requests = {r1, r2}
    Users = {u1, u2}
    Windows = {w1, w2, root}
    Retries = 4
    Gammas = {g1, g2}
    Full = 3
    MaxTasks = 2
    Conversations <- Texts
    MaxConversations = 2
    MaxMessages = 2
    MaxFailures = 2
    UserSwitch = TRUE
    SeatKnown = TRUE
    MaxCalls = 2
INVARIANTS
    SeatIsKnown
    GammaComesBack
PROPERTIES
    DialogIsSound
    LockIsNotLost
    ServedAsChosen
CHECK_DEADLOCK FALSE
