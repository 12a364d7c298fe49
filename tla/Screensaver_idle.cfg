SPECIFICATION FairSpec
CONSTANTS
    NoGrab = NoGrab
    RootGrab = RootGrab
    OffscreenGrab = OffscreenGrab
    Monitors = {m1, m2}
    Delays = {short}
    PrefChoices <- LockingOn
    PamStates = {TRUE}
    MaxPasses = 1
PROPERTY
    IdleOnlyWithSession
