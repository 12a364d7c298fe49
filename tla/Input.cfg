\* Two idle watches with every event and inhibitor; a list of sources that names an engine of IBus twice, and one layout.
SPECIFICATION AllSpec
CONSTANTS
    client = client
    Clients = {client}
    Intervals = {0, 2}
    Usec = 1
    Width = 5
    MayInhibit = TRUE
    MaxWatches = 2
    MaxTime = 3
    None = None
    us = us
    de = de
    jp = jp
    w1 = w1
PROPERTIES
    WatchesFire
    TypesCurrentSource
CHECK_DEADLOCK FALSE
