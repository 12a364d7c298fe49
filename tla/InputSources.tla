---------------------------- MODULE InputSources ----------------------------
(* The input sources: GfInputSourceManager, which keeps the sources of the    *)
(* settings in the order of their last use, switches between them, remembers *)
(* one for each window and leaves IBus out while a password is typed; the     *)
(* GfKeyboardManager that loads layouts into the X server in groups, and the  *)
(* GfIBusManager that is ready once IBus listed its engines and gave the name *)
(* of the panel.  A layout and the engine that needs it are known by the id   *)
(* of their source; short names, labels and properties of engines are left    *)
(* out.                                                                       *)
EXTENDS Integers, Sequences, SequencesExt, FiniteSetsExt

CONSTANTS
    SourceLists,  \* what the "sources" setting may be: sequences of ids
    IBusIds,      \* the ids whose type is "ibus"; the others are "xkb"
    Default,      \* DEFAULT_LAYOUT
    Windows, None,
    GroupSize,    \* MAX_LAYOUTS_PER_GROUP - 1
    MaxCalls      \* set-global-engine calls in progress

VARIABLES
    settings,  \* sources, mru (mru-sources), perWindow
    manager,   \* of GfInputSourceManager; sources stands for input_sources
    windows,   \* source_windows: of each window its source and whether its table is ours
    popup,     \* "none", "open", or "stale": its sources were freed
    ibus,      \* of GfIBusManager, with the calls in progress
    keyboard,  \* of GfKeyboardManager
    x          \* X server: keymap, locked group, an XkbStateNotify on its way, our grab

vars == <<settings, manager, windows, popup, ibus, keyboard, x>>
world == [settings |-> settings, manager |-> manager, windows |-> windows,
          popup |-> popup, ibus |-> ibus, keyboard |-> keyboard, x |-> x]

(* A handler is a function of the world; an action runs it.                   *)
Become(w) ==
    /\ settings' = w.settings /\ manager' = w.manager /\ windows' = w.windows
    /\ popup' = w.popup /\ ibus' = w.ibus /\ keyboard' = w.keyboard /\ x' = w.x

(* ------------------------------------------------------------- keyboard ---- *)
(* The position of an id among the layouts, 0 when it has none; the layouts   *)
(* fill one group after the other.                                            *)
PositionOf(id, layouts) == IF Contains(layouts, id) THEN SelectInSeq(layouts, LAMBDA l : l = id)
                                                    ELSE 0
GroupOf(p) == (p - 1) \div GroupSize
IndexIn(p) == (p - 1) % GroupSize

Group(layouts, g) ==
    SubSeq(layouts, g * GroupSize + 1, Min({(g + 1) * GroupSize, Len(layouts)}))

Lock(w, index) == [w EXCEPT !.keyboard.locked_group = index, !.x.locked = index]

Upload(w, p) ==
    [w EXCEPT !.keyboard.group = Group(w.keyboard.layouts, GroupOf(p)),
              !.x.keymap = Group(w.keyboard.layouts, GroupOf(p))]

Apply(w, id) ==
    LET p == PositionOf(id, w.keyboard.layouts)
        c == w.keyboard.current
        v == IF c # 0 /\ GroupOf(c) = GroupOf(p)
             THEN IF IndexIn(c) # IndexIn(p) THEN Lock(w, IndexIn(p)) ELSE w
             ELSE Lock(Upload(w, p), IndexIn(p))
    IN  IF p = 0 THEN w ELSE [v EXCEPT !.keyboard.current = p]

SetUserLayouts(w, ids) ==
    [w EXCEPT !.keyboard.current = 0,
              !.keyboard.layouts = FoldLeft(LAMBDA s, id : IF Contains(s, id) THEN s
                                                           ELSE Append(s, id), <<>>, ids)]

(* --------------------------------------------------- the current source ---- *)
Remembered(w, i) == [ours |-> TRUE, at |-> i, id |-> w.manager.sources[i]]

ChangePerWindow(w) ==
    IF ~w.manager.perWindow \/ w.x.active = None THEN w
    ELSE [w EXCEPT !.windows[w.x.active] = Remembered(w, w.manager.current)]

(* Two sources of the same id compare equal: the first of them moves.         *)
ToFront(w, i) ==
    LET m  == w.manager
        ks == {k \in DOMAIN m.mru : m.sources[m.mru[k]] = m.sources[i]}
    IN  IF ks = {} THEN m.mru ELSE <<m.mru[Min(ks)]>> \o RemoveAt(m.mru, Min(ks))

CurrentChanged(w, i) ==
    ChangePerWindow([w EXCEPT !.manager.current = i, !.manager.mru = ToFront(w, i)])

SaveMru(w) ==
    IF ~w.manager.ibus_ready \/ w.manager.disable_ibus THEN w
    ELSE [w EXCEPT !.settings.mru = [k \in DOMAIN w.manager.mru |->
                                        w.manager.sources[w.manager.mru[k]]]]

Ungrab(w, reloading) == IF reloading THEN w ELSE [w EXCEPT !.x.grabbed = FALSE]

SetEngine(w, reloading) ==
    IF w.ibus.ready THEN [w EXCEPT !.ibus.setting = @ + 1] ELSE Ungrab(w, reloading)

Activate(w, i, interactive, reloading) ==
    LET g == IF reloading THEN w ELSE [w EXCEPT !.x.grabbed = TRUE]
        v == CurrentChanged(SetEngine(Apply(g, w.manager.sources[i]), reloading), i)
    IN  IF interactive THEN SaveMru(v) ELSE v

(* ------------------------------------------------------ the list of them --- *)
SourceInfos(w) ==
    LET known == SelectSeq(w.settings.sources, LAMBDA id :
                     id \in IBusIds => ~w.manager.disable_ibus /\ w.ibus.ready)
    IN  IF known = <<>> THEN <<Default>> ELSE known

(* update_mru_sources_list: the sources in the order of ids, each taken once, *)
(* then those that ids does not name.                                         *)
InOrderKeeping(sources, ids) ==
    LET Take(acc, id) == LET is == {i \in DOMAIN sources : sources[i] = id}
                         IN  IF is = {} THEN acc ELSE Append(acc, Min(is))
        named == FoldLeft(Take, <<>>, ids)
    IN  named \o SelectSeq([i \in DOMAIN sources |-> i], LAMBDA i : ~Contains(named, i))

InOrder(sources, ids) ==
    LET Take(acc, id) == LET is == {i \in DOMAIN sources : sources[i] = id /\ ~Contains(acc, i)}
                         IN  IF is = {} THEN acc ELSE Append(acc, Min(is))
        named == FoldLeft(Take, <<>>, ids)
    IN  named \o SelectSeq([i \in DOMAIN sources |-> i], LAMBDA i : ~Contains(named, i))

(* sources_changed_cb drops the order of use and its backup: it is always the *)
(* one that was saved last.                                                   *)
SourcesChanged(w, reloading) ==
    LET s == SourceInfos(w)
        a == [w EXCEPT !.manager.sources = s, !.manager.current = 0,
                       !.manager.mru = InOrder(s, w.settings.mru),
                       !.windows = [v \in Windows |-> [w.windows[v] EXCEPT !.ours = FALSE]],
                       !.popup = IF @ = "none" THEN "none" ELSE "stale"]
        b == SetUserLayouts(a, s)
    IN  Activate(b, b.manager.mru[1], FALSE, reloading)

(* ---------------------------------------------------------------- IBus ----- *)
ReadyChanged(w) ==
    IF w.manager.ibus_ready = w.ibus.ready THEN w
    ELSE SourcesChanged([w EXCEPT !.manager.ibus_ready = w.ibus.ready], FALSE)

UpdateReadiness(w) == ReadyChanged([w EXCEPT !.ibus.ready = w.ibus.engines /\ w.ibus.panel])

Clear(w) ==
    ReadyChanged([w EXCEPT !.ibus.engines = FALSE, !.ibus.panel = FALSE, !.ibus.ready = FALSE])

(* Replies of a connection that closed come before the next one is made.      *)
Connected ==
    /\ ~ibus.on /\ ibus.list = "none" /\ ibus.name = "none" /\ ibus.setting < MaxCalls
    /\ ibus' = [ibus EXCEPT !.on = TRUE, !.list = "asked", !.name = "asked"]
    /\ UNCHANGED <<settings, manager, windows, popup, keyboard, x>>

Disconnected ==
    /\ ibus.on
    /\ Become(Clear([world EXCEPT !.ibus.on = FALSE]))

ListEngines ==
    /\ ibus.list = "asked"
    /\ \/ ibus.on /\ Become(UpdateReadiness([world EXCEPT !.ibus.list = "none",
                                                          !.ibus.engines = TRUE]))
       \/ Become(Clear([world EXCEPT !.ibus.list = "none"]))

RequestName ==
    /\ ibus.name = "asked"
    /\ \/ ibus.on /\ Become(UpdateReadiness([world EXCEPT !.ibus.name = "none",
                                                          !.ibus.panel = TRUE]))
       \/ Become(Clear([world EXCEPT !.ibus.name = "none"]))

(* The reply, an error or the time-out of a set-global-engine call.           *)
EngineSet ==
    /\ ibus.setting > 0
    /\ Become(Ungrab([world EXCEPT !.ibus.setting = @ - 1], FALSE))

(* gf_input_source_manager_reload, for another purpose of the focused entry.  *)
SetContentType ==
    /\ ibus.panel /\ ibus.setting < MaxCalls
    /\ \/ /\ \E i \in DOMAIN manager.sources : manager.sources[i] \notin IBusIds
          /\ ~manager.disable_ibus
          /\ Become(SourcesChanged([world EXCEPT !.manager.disable_ibus = TRUE], TRUE))
       \/ /\ manager.disable_ibus
          /\ Become(SourcesChanged([world EXCEPT !.manager.disable_ibus = FALSE], TRUE))

(* ------------------------------------------------------------- the user ---- *)
CanActivate == ibus.setting < MaxCalls

ShowPopup ==
    /\ Len(manager.mru) >= 2 /\ popup = "none"
    /\ popup' = "open"
    /\ UNCHANGED <<settings, manager, windows, ibus, keyboard, x>>

(* Any source of the popup can be selected; one that was freed is not used    *)
(* further here.                                                              *)
PopupActivates ==
    /\ popup = "open" /\ CanActivate
    /\ \E i \in DOMAIN manager.sources :
          Become(Activate([world EXCEPT !.popup = "none"], i, TRUE, FALSE))

PopupEnds ==
    /\ popup # "none"
    /\ popup' = "none"
    /\ UNCHANGED <<settings, manager, windows, ibus, keyboard, x>>

(* ISO_Next_Group, ISO_First_Group and ISO_Last_Group; Activate of the D-Bus  *)
(* interface.                                                                 *)
ActivateNext ==
    /\ CanActivate
    /\ Become(Activate(world, (manager.current % Len(manager.sources)) + 1, TRUE, FALSE))

HandleActivate ==
    /\ CanActivate
    /\ \E i \in DOMAIN manager.sources : Become(Activate(world, i, TRUE, FALSE))

(* ------------------------------------------------------------- settings ---- *)
ChangeSources ==
    /\ ibus.setting < MaxCalls
    /\ \E l \in SourceLists \ {settings.sources} :
          Become(SourcesChanged([world EXCEPT !.settings.sources = l], FALSE))

ChangeOptions ==
    /\ Become(Lock(Upload(world, keyboard.current), IndexIn(keyboard.current)))

ChangePerWindowSetting ==
    LET p == ~settings.perWindow
    IN  Become([world EXCEPT !.settings.perWindow = p, !.manager.perWindow = p,
                             !.windows = [v \in Windows |-> [ours |-> FALSE, at |-> 0, id |-> None]],
                             !.x.focusEvent = FALSE])

(* ------------------------------------------------------------- X server ---- *)
Focus ==
    /\ \E v \in (Windows \cup {None}) \ {x.active} :
          x' = [x EXCEPT !.active = v, !.focusEvent = manager.perWindow]
    /\ UNCHANGED <<settings, manager, windows, popup, ibus, keyboard>>

(* get_new_input_source: the source of the same id, or else the first one.    *)
NewSource(v) ==
    LET is == {i \in DOMAIN manager.sources : manager.sources[i] = windows[v].id}
    IN  IF is = {} THEN 1 ELSE Min(is)

SetPerWindowSource ==
    /\ x.focusEvent /\ ibus.setting < MaxCalls
    /\ LET v == x.active
           w == [world EXCEPT !.x.focusEvent = FALSE]
           i == IF windows[v].ours THEN windows[v].at ELSE NewSource(v)
       IN  Become(IF v = None THEN w
                  ELSE Activate([w EXCEPT !.windows[v] = Remembered(w, i)], i, FALSE, FALSE))

(* Another client, or a keyboard that is plugged in, changes the group.       *)
GroupLocked ==
    /\ \E g \in 0 .. GroupSize - 1 : x' = [x EXCEPT !.locked = g, !.stateEvent = TRUE]
    /\ UNCHANGED <<settings, manager, windows, popup, ibus, keyboard>>

DeviceAdded ==
    /\ x' = [x EXCEPT !.keymap = keyboard.group, !.locked = 0, !.stateEvent = TRUE]
    /\ UNCHANGED <<settings, manager, windows, popup, ibus, keyboard>>

Filter ==
    /\ x.stateEvent
    /\ Become(Lock([world EXCEPT !.x.stateEvent = FALSE], keyboard.locked_group))

(* gf_input_sources_init loads the list, before IBus is connected.            *)
Fresh(l) ==
    [settings |-> [sources |-> l, mru |-> <<>>, perWindow |-> FALSE],
     manager |-> [sources |-> <<>>, mru |-> <<>>, current |-> 0, ibus_ready |-> FALSE,
                  disable_ibus |-> FALSE, perWindow |-> FALSE],
     windows |-> [v \in Windows |-> [ours |-> FALSE, at |-> 0, id |-> None]],
     popup |-> "none",
     ibus |-> [on |-> FALSE, list |-> "none", name |-> "none", engines |-> FALSE,
               panel |-> FALSE, ready |-> FALSE, setting |-> 0],
     keyboard |-> [layouts |-> <<>>, current |-> 0, group |-> <<>>, locked_group |-> 0],
     x |-> [keymap |-> <<>>, locked |-> 0, stateEvent |-> FALSE, grabbed |-> FALSE,
            active |-> None, focusEvent |-> FALSE]]

Init ==
    \E l \in SourceLists :
        LET w == SourcesChanged(Fresh(l), TRUE)
        IN  /\ settings = w.settings /\ manager = w.manager /\ windows = w.windows
            /\ popup = w.popup /\ ibus = w.ibus /\ keyboard = w.keyboard /\ x = w.x

Next ==
    \/ Connected \/ Disconnected \/ ListEngines \/ RequestName \/ EngineSet \/ SetContentType
    \/ ShowPopup \/ PopupActivates \/ PopupEnds \/ ActivateNext \/ HandleActivate
    \/ ChangeSources \/ ChangeOptions \/ ChangePerWindowSetting
    \/ Focus \/ SetPerWindowSource \/ GroupLocked \/ DeviceAdded \/ Filter

Fairness == WF_vars(EngineSet)
Spec == Init /\ [][Next]_vars /\ Fairness

TypeOK ==
    /\ popup \in {"none", "open", "stale"}
    /\ manager.current \in 1 .. Len(manager.sources)
    /\ windows \in [Windows -> [ours : BOOLEAN, at : Nat, id : UNION {ToSet(l) : l \in SourceLists}
                                                               \cup {Default, None}]]
    /\ ibus.setting \in 0 .. MaxCalls
    /\ x.active \in Windows \cup {None}

(* The order of use lists every source once, whatever the saved order names,  *)
(* twice or no longer: a source that is left out could not be switched to.    *)
MruIsComplete ==
    /\ Len(manager.mru) = Len(manager.sources)
    /\ ToSet(manager.mru) = DOMAIN manager.sources

(* When no XkbStateNotify is on its way, the group that the X server has      *)
(* locked types the layout of the current source, however the keymaps of the  *)
(* groups were loaded before.                                                 *)
TypesCurrentLayout ==
    ~x.stateEvent =>
        /\ x.locked + 1 \in DOMAIN x.keymap
        /\ x.keymap[x.locked + 1] = manager.sources[manager.current]

(* Once the focus has arrived, the current source is the one remembered for   *)
(* the active window, of the list there is now.                               *)
WindowHasCurrent ==
    manager.perWindow /\ ~x.focusEvent /\ x.active # None /\ windows[x.active].ours =>
        windows[x.active].at = manager.current

=============================================================================
