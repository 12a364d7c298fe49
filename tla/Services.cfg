\* Notifications, labels and OSD, pictures and the end of the session.
SPECIFICATION AllSpec
CONSTANTS
    m1 = m1
    m2 = m2
    Monitors = {m1, m2}
    NoMonitor = NoMonitor
    Hints <- MCHints
    MaxNotes = 2
    None = None
    a1 = a1
    a2 = a2
    logout = logout
    shutdown = shutdown
    i1 = i1
PROPERTIES
    NotificationsAgree
    NothingStays
    CallsCleanUp
    CountsWhenFree
CHECK_DEADLOCK FALSE
