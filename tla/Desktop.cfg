\* The desktop and the daemons, one after the other.
SPECIFICATION Spec
CONSTANTS
    None = None
    Manager = Manager
    NoView = NoView
    s1 = s1
    s2 = s2
    i1 = i1
    i2 = i2
    i3 = i3
    t1 = t1
    t2 = t2
    a1 = a1
    a2 = a2
    Icons = {i1, i2, i3}
    Unplaced = {i3}
    IconViews <- SomeViews
    IconX <- SomeColumns
    IconY <- SomeRows
    Width = 2
    Height = 1
    Kinds = {"document", "launcher", "bare"}
    MaxVersions = 3
    Volumes = {v1}
    MaxAdds = 1
    MaxLocks = 2
    MaxStarts = 1
    Clients = {a1, a2}
    Accels <- SomeAccels
    Keymaps <- SomeKeymaps
    IsoGroups = {{}, {{}}, {{"shift"}, {"mod1"}}}
    Foreign <- SuperKey
    MaxActions = 2
    MaxKeymaps = 2
    Names = {n1, n2}
    Paths = {p1, p2}
    MaxInbox = 3
    MaxCalls = 4
    MaxWindows = 4
    MaxEvents = 4
    Delays = {0, 2}
    Cap = 1
    MaxSettings = 2
    MaxPresses = 2
    Parts = {lock, sources, shell}
    Lock = lock
    Sources = sources
    MaxMade = 3
    MaxSent = 2
    Devices = {i1, i2, i3, t1}
    Source <- SomeSources
    Trackballs = {i2}
    Drivers <- SomeDrivers
    Used = {"mouse left-handed", "touchpad left-handed", "touchpad edge", "touchpad two-finger", "touchpad click-method", "mouse accel-profile", "trackball accel-profile", "keyboard repeat", "remember-numlock-state", t1}
    Monitors = {s1}
    Places = {0, 1}
    MaxInputs = 2
INVARIANTS
    EveryFileHasItsPlace
    IconsAreUpToDate
    RootShowsTheFile
    QueueWaitsForLock
    ClientsAgree
    FirstIsTold
    SettingsMatchKeyboard
    DevicesAgree
    GrabsAreWanted
    PartsAreWired
PROPERTIES
    SelectionFollows
    SavedIsHeld
CHECK_DEADLOCK FALSE
