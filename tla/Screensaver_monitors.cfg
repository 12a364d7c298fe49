\* Two monitors that come and go: safety and liveness of the screen lock.
SPECIFICATION FairSpec
CONSTANTS
    NoGrab = NoGrab
    RootGrab = RootGrab
    OffscreenGrab = OffscreenGrab
    Monitors = {m1, m2}
    Delays = {short}
    PrefChoices <- LockingOn
    PamStates = {TRUE}
    MaxPasses = 1
INVARIANTS
    TypeOK
    EveryMonitorShielded
    OneDialog
    GrabHeld
    OnlyPasswordsQueued
PROPERTIES
    NothingHangs
    LockEndsOnPassword
