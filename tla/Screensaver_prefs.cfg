\* One monitor; every preference and the PAM configuration change.
SPECIFICATION Spec
CONSTANTS
    NoGrab = NoGrab
    RootGrab = RootGrab
    OffscreenGrab = OffscreenGrab
    Monitors = {m1}
    Delays = {short, long}
    PrefChoices <- Prefs
    PamStates = {TRUE, FALSE}
    MaxPasses = 2
INVARIANT
    InSync
PROPERTY
    ImplementsScreenLock
