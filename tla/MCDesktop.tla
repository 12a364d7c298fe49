----------------------------- MODULE MCDesktop -----------------------------
(* The desktop and the daemons whose work is done in callbacks: the icons and *)
(* the background, the clipboard, automount, the keys that programs grab, the *)
(* watcher of status notifiers, the program itself, the window manager, and   *)
(* the settings of the keyboard and of the other input devices. They share no *)
(* state; "part" names the one that runs, x1 to x14 are its variables. They   *)
(* and three of the parts come from DesktopParts.                             *)
EXTENDS DesktopParts, TLC

CONSTANTS
    Manager, NoView, s1, s2, i1, i2, i3, t1, t2, a1, a2,
    Kinds, MaxVersions,                                                \* of the icon of a file
    Clients, Accels, Keymaps, IsoGroups, Foreign, MaxActions, MaxKeymaps, \* of the keys that programs grab
    Names, Paths, MaxInbox, MaxCalls,                                  \* of the watcher
    MaxWindows, MaxEvents,                                             \* of the window manager
    Delays, Cap, MaxSettings, MaxPresses,                              \* of the accessible keyboard
    Parts, Lock, Sources, MaxMade, MaxSent                             \* of the program
ASSUME IconAssumption == MaxVersions \in Nat \ {0}
ASSUME WindowsAssumption == MaxWindows \in Nat \ {0}
ASSUME KeyboardAssumption == Delays \subseteq Int /\ Cap \in Nat \ {0} /\ MaxPresses \in Nat
ASSUME ProgramAssumption == Lock \in Parts /\ Sources \in Parts /\ MaxMade \in Nat

VARIABLE part
all == <<part, x1, x2, x3, x4, x5, x6, x7, x8, x9, x10, x11, x12, x13, x14>>

(* A file and a hidden one, two monitors with room for one or two icons.      *)
View == INSTANCE IconView WITH
    Files <- {1, 2}, Hidden <- {2}, Dirs <- {}, Home <- 9, Monitors <- {s1, s2}, NoView <- NoView, Areas <- {1, 2},
    MaxChanges <- 2,
    fs <- x1, changes <- x2, events <- x3, queries <- x4, listing <- x5, icons <- x6, views <- x7, primary <- x8,
    sort_by <- x9, show_home <- x10, last <- x11, raced <- x12, lost <- x13

(* In the run two icons, each on its monitor, and one without a place.        *)
SomeViews == i1 :> 1 @@ i2 :> 2
SomeColumns == i1 :> 0 @@ i2 :> 1
SomeRows == i1 :> 0 @@ i2 :> 0

Icon == INSTANCE FileIcon WITH
    MaxChanges <- MaxVersions,
    file <- x1, info <- x2, app <- x3, thumbnail <- x4, loads <- x5, query <- x6, event <- x7, trash <- x8

Picture == INSTANCE Background WITH
    Light <- 1, Dark <- 2, Placements <- {1}, Sizes <- {<<4, 2>>, <<4, 3>>}, Original <- <<8, 5>>, Monitors <- 2,
    MaxTime <- 2, MaxChanges <- 2,
    clock <- x1, files <- x2, settings <- x3, size <- x4, bg <- x5, disk <- x6, background <- x7, root <- x8,
    window <- x9, notices <- x10, raced <- x11, early <- x12, changes <- x13

Clipboard == INSTANCE Clipboard WITH
    Targets <- {t1, t2}, Big <- {t1}, Apps <- {a1, a2}, MaxInbox <- 2, MaxEvents <- 5,
    owner <- x1, alive <- x2, asked <- x3, inbox <- x4, data <- x5, contents <- x6, conversions <- x7,
    requestor <- x8, answers <- x9, events <- x10, since <- x11, manages <- x12, time <- x13

Watcher == INSTANCE StatusNotifier WITH
    owned <- x1, inbox <- x2, hosts <- x3, items <- x4, props <- x5, seen <- x6, calls <- x7

Windows == INSTANCE WindowManager WITH
    windows <- x1, made <- x2, root <- x3, wmCheck <- x4, selected <- x5, told <- x6, inbox <- x7

Keyboard == INSTANCE A11yKeyboard WITH
    MaxChanges <- MaxSettings,
    settings <- x1, server <- x2, start <- x3, phase <- x4, controls <- x5, changed <- x6, bubbles <- x7,
    shortcut <- x8, id <- x9, changes <- x10, presses <- x11

(* A mouse, a trackball that is one, a touchpad that scrolls with two fingers *)
(* or at the edge, a touchscreen.                                             *)
Driver(has, modes) ==
    [has |-> has, modes |-> modes, profile |-> "adaptive", click |-> "none",
     at |-> "left" :> "off" @@ "speed" :> "low" @@ "natural" :> "off" @@ "profile" :> "adaptive" @@ "tap" :> "off"
            @@ "typing" :> "off" @@ "send" :> "enabled" @@ "click" :> "none" @@ "button" :> "low" @@ "two" :> "off"
            @@ "edge" :> "off"]
SomeSources == i1 :> "mouse" @@ i2 :> "mouse" @@ i3 :> "touchpad" @@ t1 :> "touchscreen"
Mouse == {"left", "speed", "natural", "profile"}
SomeDrivers ==
    i1 :> {Driver(Mouse, {})} @@ i2 :> {Driver(Mouse \cup {"button"}, {})} @@ t1 :> {Driver({}, {})}
    @@ i3 :> {Driver({"left", "speed", "natural", "tap", "typing", "send", "click"} \cup methods, {"disabled", "fingers"}) :
                methods \in {{"two", "edge"}, {"edge"}}}

(* A key that asks for Super or not; keymaps that move the key, that have no  *)
(* Super, and that have a key to switch groups.                               *)
Keymap(code, super, ignored, iso) == [code |-> [a |-> code], super |-> super, ignored |-> ignored, iso |-> iso]
SomeAccels == [sym : {"a"}, super : BOOLEAN]
SomeKeymaps == {Keymap(1, {"mod4"}, {"lock"}, {}), Keymap(2, {"mod4"}, {"lock", "mod2"}, {3}), Keymap(1, {}, {"lock"}, {3})}
SuperKey == {<<1, {"mod4"}>>}
Keybindings == INSTANCE Keybindings WITH
    MaxChanges <- MaxKeymaps,
    alive <- x1, keymap <- x2, known <- x3, bindings <- x4, isoGroup <- x5, iso <- x6, grabs <- x7, owner <- x8,
    watched <- x9, action <- x10, stale <- x11, forgotten <- x12, changes <- x13

Program == INSTANCE Session WITH
    MaxChanges <- MaxMade,
    name <- x1, was <- x2, manager <- x3, client <- x4, loop <- x5, failed <- x6, sent <- x7, answered <- x8,
    missed <- x9, environment <- x10, settings <- x11, parts <- x12, wired <- x13, made <- x14

-----------------------------------------------------------------------------
From14 == x14 = 0
From13 == x13 = 0 /\ From14
From12 == x12 = 0 /\ From13
From11 == x11 = 0 /\ From12
From10 == x10 = 0 /\ From11
From9 == x9 = 0 /\ From10
From8 == x8 = 0 /\ From9

InView(A) == part = "icons" /\ A /\ UNCHANGED <<part, x14>>
InSelection(A) == part = "selection" /\ A /\ UNCHANGED <<part, x10, x11, x12, x13, x14>>
InIcon(A) == part = "file icon" /\ A /\ UNCHANGED <<part, x9, x10, x11, x12, x13, x14>>
InPicture(A) == part = "background" /\ A /\ UNCHANGED <<part, x14>>
InClipboard(A) == part = "clipboard" /\ A /\ UNCHANGED <<part, x14>>
InAutomount(A) == part = "automount" /\ A /\ UNCHANGED part
InKeybindings(A) == part = "keybindings" /\ A /\ UNCHANGED <<part, x14>>
InWatcher(A) == part = "watcher" /\ A /\ UNCHANGED <<part, x8, x9, x10, x11, x12, x13, x14>>
InProgram(A) == part = "program" /\ A /\ UNCHANGED part
InWindows(A) == part = "windows" /\ A /\ UNCHANGED <<part, x8, x9, x10, x11, x12, x13, x14>>
InKeyboard(A) == part = "keyboard" /\ A /\ UNCHANGED <<part, x12, x13, x14>>
InInputs(A) == part = "inputs" /\ A /\ UNCHANGED <<part, x12, x13, x14>>

Init ==
    \/ part = "icons" /\ View!Init /\ From14
    \/ part = "selection" /\ Selection!Init /\ From10
    \/ part = "file icon" /\ Icon!Init /\ From9
    \/ part = "background" /\ Picture!Init /\ From14
    \/ part = "clipboard" /\ Clipboard!Init /\ From14
    \/ part = "automount" /\ Mount!Init
    \/ part = "keybindings" /\ Keybindings!Init /\ From14
    \/ part = "watcher" /\ Watcher!Init /\ From8
    \/ part = "program" /\ Program!Init
    \/ part = "windows" /\ Windows!Init /\ From8
    \/ part = "keyboard" /\ Keyboard!Init /\ From12
    \/ part = "inputs" /\ Inputs!Init /\ From12
Next ==
    \/ InView(View!Next) \/ InSelection(Selection!Next) \/ InIcon(Icon!Next) \/ InPicture(Picture!Next)
    \/ InClipboard(Clipboard!Next) \/ InAutomount(Mount!Next) \/ InKeybindings(Keybindings!Next)
    \/ InWatcher(Watcher!Next) \/ InProgram(Program!Next) \/ InWindows(Windows!Next)
    \/ InKeyboard(Keyboard!Next) \/ InInputs(Inputs!Next)

Spec == Init /\ [][Next]_all

-----------------------------------------------------------------------------
(* The properties of the parts, each stated and explained in its module       *)

(* gf-icon-view.c: the list of icons, the grids and the monitors agree, no    *)
(* cell is left free while an icon waits, and every file gets its icon.       *)
EveryFileHasItsPlace ==
    part = "icons" => View!TypeOK /\ View!GridAgrees /\ View!RoomIsUsed /\ View!EveryFileHasIcon

(* gf-icon-view.c, gf-monitor-view.c, gf-icon.c: the rubberband selects what  *)
(* is under it, a click what was clicked, and nothing names a freed icon.     *)
SelectionFollows ==
    /\ [](part = "selection" => Selection!TypeOK /\ Selection!BandFollows /\ Selection!NothingDangles)
    /\ [][part = "selection" => Selection!ClickSettles]_all

(* gf-icon.c, gf-trash-icon.c: an icon shows the file and the trash there are.*)
IconsAreUpToDate ==
    part = "file icon" => Icon!TypeOK /\ Icon!ThumbnailFits /\ Icon!TrashIsKnown

(* gf-bg.c, gf-background.c, gf-desktop-window.c: the root shows the file.    *)
RootShowsTheFile == part = "background" => Picture!TypeOK /\ Picture!RootShowsTheFile

(* gsd-clipboard-manager.c: what is kept or sent is not freed, what is saved  *)
(* is complete when the owner is told.                                        *)
SavedIsHeld ==
    /\ [](part = "clipboard" => Clipboard!TypeOK /\ Clipboard!References)
    /\ [][part = "clipboard" => Clipboard!ToldIsHeld]_all

(* gsd-automount-manager.c, gsd-autorun.c: volumes wait for the end of a lock *)
(* the manager knows of, and start programs only right after they are mounted.*)
QueueWaitsForLock ==
    part = "automount" =>
        Mount!TypeOK /\ Mount!QueueWaitsForLock /\ Mount!KnowsTheLock /\ Mount!MarkIsTemporary

(* gf-sn-watcher-v0.c: properties and signals agree with the watches.         *)
ClientsAgree == part = "watcher" => Watcher!TypeOK /\ Watcher!ClientsAgree

(* gf-wm.c: a window manager that is there is told, when none was known.      *)
FirstIsTold == part = "windows" => Windows!TypeOK /\ Windows!FirstIsTold

(* gf-a11y-keyboard.c: settings and keyboard agree in the end.                *)
SettingsMatchKeyboard == part = "keyboard" => Keyboard!TypeOK /\ Keyboard!SettingsMatchKeyboard

(* gf-input-settings.c: the devices are as the settings say.                  *)
DevicesAgree == part = "inputs" => Inputs!TypeOK /\ Inputs!DevicesAgree

(* gf-keybindings.c, flashback-shell.c: keys are taken from other programs    *)
(* only for a program that is there, and given back when it leaves.           *)
GrabsAreWanted == part = "keybindings" => Keybindings!TypeOK /\ Keybindings!GrabsAreWanted

(* gf-application.c, gf-session.c: the parts are there as the settings say,   *)
(* and wired to each other.                                                   *)
PartsAreWired == part = "program" => Program!TypeOK /\ Program!PartsAreWired
=============================================================================
