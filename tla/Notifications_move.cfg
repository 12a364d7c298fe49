\* nd-queue.c:117
SPECIFICATION NotificationsSpec
CONSTANTS
    m1 = m1
    m2 = m2
    Monitors = {m1, m2}
    NoMonitor = NoMonitor
    Hints <- MCHints
    MaxNotes = 1
    None = None
    a1 = a1
    a2 = a2
    logout = logout
    shutdown = shutdown
    i1 = i1
PROPERTY
    BubblesMove
CHECK_DEADLOCK FALSE
