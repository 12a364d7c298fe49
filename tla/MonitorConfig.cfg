\* A laptop with one more monitor, in two environments; the constants are
\* those of the one where monitors come and go.
SPECIFICATION BothSpec
CONSTANTS
    panel = panel
    external = external
    NoMonitor = NoMonitor
    Monitors <- MCMonitors
    Panel = panel
    PanelTransform = 0
    Area <- MCArea
    Virtual = {}
    Crtcs = 2
    Tilts = {0, 1}
    HistoryMax = 3
    Methods = {"temporary"}
    Mirrors = {TRUE, FALSE}
    Inputs = {"hotplug", "lid", "sensor", "request", "other client"}
    MaxInputs = 3
    MaxEvents = 2
INVARIANT
    ConfigurationFits
PROPERTY
    TrialIsAnswered
CHECK_DEADLOCK FALSE
