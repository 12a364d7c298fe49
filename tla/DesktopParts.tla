--------------------------- MODULE DesktopParts ----------------------------
(* The variables that the parts of MCDesktop take in turn, and the three      *)
(* parts whose proofs are long: the automount manager, the selected icons and *)
(* the input settings. They are here so that their many lemmas need not carry *)
(* the other parts.                                                           *)
EXTENDS Integers, Sequences

CONSTANTS
    Volumes,
    MaxAdds, MaxLocks, MaxStarts      \* bounds: volumes added, changes of the lock or of the session, starts of the screensaver

CONSTANTS
    None,
    Icons, Unplaced, IconViews, IconX, IconY, Width, Height
ASSUME SelectionAssumption == Width \in Int /\ Height \in Int

CONSTANTS Devices, Source, Trackballs, Drivers, Used, Monitors, Places, MaxInputs \* of the input settings

VARIABLES x1, x2, x3, x4, x5, x6, x7, x8, x9, x10, x11, x12, x13, x14

Mount == INSTANCE Automount WITH
    Volumes <- Volumes, MaxAdds <- MaxAdds, MaxChanges <- MaxLocks, MaxRestarts <- MaxStarts,
    saver <- x1, active <- x2, proxy <- x3, proxies <- x4, calls <- x5, sessionActive <- x6, queue <- x7, idle <- x8,
    vol <- x9, guess <- x10, dialogs <- x11, prefs <- x12, last <- x13, count <- x14

Selection == INSTANCE IconSelection WITH
    ViewOf <- IconViews, X <- IconX, Y <- IconY,
    live <- x1, flags <- x2, selected <- x3, band <- x4, last <- x5, from <- x6, press <- x7, drag <- x8, hist <- x9

Inputs == INSTANCE InputSettings WITH
    MaxChanges <- MaxInputs,
    settings <- x1, output <- x2, notified <- x3, plugged <- x4, device <- x5, mappable <- x6, matrix <- x7,
    places <- x8, repeat <- x9, lock <- x10, changes <- x11
ASSUME InputsAssumption ==
    /\ Trackballs \subseteq Devices /\ Drivers \in [Devices -> SUBSET Inputs!Device]
    /\ Used \subseteq Inputs!Keys \cup Inputs!Touchscreens /\ Inputs!Keys \cap Devices = {}
    /\ None \notin Monitors \cup Places /\ MaxInputs \in Nat
=============================================================================
