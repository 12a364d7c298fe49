\* A file whose elements the parser does not know
SPECIFICATION ParserSpec
CONSTANTS
    k1 = k1
    k2 = k2
    laptop = laptop
    c1 = c1
    c2 = c2
    o1 = o1
    o2 = o2
    Crtcs = {c1, c2}
    Outputs = {o1, o2}
    Layouts <- SomeLayouts
    Scales = {1, 2}
    NoCrtc = NoCrtc
    MaxTime = 3
    Tile = 2
    Sizes = {1, 3}
    Rates = {1, 2}
    Flags = {0}
    MaxModes = 2
    Files <- OneFile
    Specs = {laptop}
    MaxEntries = 2
    MaxConfigs = 2
    PolicyFiles <- ThreeFiles
INVARIANT
    NeverAborts
CHECK_DEADLOCK FALSE
