# TLA+ models of gnome-flashback

gnome-flashback is the session helper of the GNOME Flashback desktop: one main
process (screen lock, monitor configuration, notifications, shell services,
desktop icons, input sources, end-of-session dialogs) and four small daemons
(idle monitor, polkit agent, media keys, clipboard). It is C on GLib and GTK.
This directory holds TLA+ models of the parts whose behaviour depends on the
order of events, the TLC runs that check them on small instances, and TLAPS
proofs of what matters most.

Nearly everything runs in one GLib main loop. **An action of a module is one
callback of that loop with every synchronous signal it emits**; what
interleaves is the order of callbacks: bus calls and signals, X events,
settings, timers, idle sources. A method that emits signals is written as a
pure operator from state to state, and the callback composes these operators in
the order of the code. What is really concurrent has finer steps: the PAM
thread of the unlock dialog, the threads of GIO that write files, the X server
with its other clients, main loops that run nested in a callback.

## 1. Inventory

`PROJECT.json` ("components") lists every part with its sources and status,
"map" every definition with the lines it translates, "hazards" the places that
are hard to test, with the properties that watch them.

### Screen lock (`libscreensaver`)

| part | state | operations | module |
|---|---|---|---|
| `GfScreensaver` | wires the others together; `release_grab_id` | the callbacks between listener, watcher, manager, preferences | `Screensaver` |
| `GfListener` | `active`, `session_idle`; logind proxies; inhibit lock | org.gnome.ScreenSaver (Lock, SetActive, ...), logind Lock/Unlock/PrepareForSleep/Active | `Screensaver`, `LoginListener` |
| `GfWatcher` | `active`, `idle`, `idle_notice`, `idle_id` | session presence, ten seconds of notice, then activation | `Screensaver` |
| `GfManager`, `GfWindow` | `active`, `lock_active`, lock and unfade timers, the windows, `dialog_up`; lock, dialog, popup and deactivation idle sources | show and destroy windows, monitors, activity, requests for the dialog | `GfManager`, `Screensaver` |
| `GfGrab` | who holds keyboard and pointer | grab, move, release, weak pointer on its window | `Grab` |
| `GfFade` | saved gamma (a ramp or a number), alpha, timer | fade out over ten seconds, reset, dispose | `Fade` |
| `GfUnlockDialog` | sensitivity, four timers, failures, seat proxy | unlock, cancel, user switch, shake and retry | `UnlockDialog` |
| `GfAuth` | the PAM thread, its mutex, condition and messages | verify, answer, cancel | `UnlockDialog` |

Hard: four copies of "active" that set each other by signals which may be
refused; deactivations in idle sources without an id, which outlive what asked
for them; monitors that come and go under the dialog; a thread that shares
state with a main loop which does not always take its mutex; a delay lock that
is asked for again while the first request is unanswered; a gamma that is saved
while it is darkened. Correct means: every connected monitor is covered, one
dialog, the keyboard is grabbed, a lock ends only by a password or a call, an
accepted password does end it, the screen does not stay dark, the delay lock is
there when the machine is awake.

### Monitor configuration (`backends`, `gf-confirm-display-change-dialog.c`)

State: what X reports (outputs, CRTCs, timestamps), the manager's copy of it,
the current configuration and a history of three, the store of monitors.xml
with one write on its way, the lid, the accelerometer, a 20 s timer and a dialog
for a configuration on trial. `MonitorConfig` has `ensure_configured` with its
six candidates, `ApplyMonitorsConfig`, the X event handler, lid and orientation
handlers, confirm and revert. Below it: `CrtcAssignment` turns an assignment
into requests to the X server; `MonitorModes` makes the modes of normal and
tiled monitors; `ConfigParser` is the parser of monitors.xml, state by state;
`LayoutConversion` turns layouts of physical into layouts of logical pixels;
`ConfigStore` merges the files and writes the user's. `MonitorConfig` begins with
the arithmetic of transforms. Hard: the X server changes while its events wait; a
hotplug is told from an own change by timestamps; history entries name monitors
that may be gone; two timers and a dialog end one trial; a write is cancelled
when it may have landed; the file may be anything. Correct means: once all
events are read the configuration fits the monitors, something is lit, a closed
panel is not; a revert restores what was there; no CRTC is left outside the
screen; the file catches up; nothing is carried from one element into another.

### Daemons

*Idle monitor* (`IdleMonitor`): a table of watches, each with a GLib source and a
ready time, inhibitors, X alarm, clients. GLib marks sources and dispatches them
later. A watch fires once per idle period, when it is due and not before.
*Polkit agent* (`PolkitAgent`): a queue of authenticators, one dialog at a time,
three nested main loops, cancellation, change of user, three tries.
*Clipboard* (`Clipboard`): what is kept when an application exits, incremental
transfers in both directions, reference counts. *Media keys*: not modelled.

### Services of the main process

| part | state | hard | module |
|---|---|---|---|
| notifications | table, queue, stacks of bubbles per monitor, dock, one idle source | closing and destroying call each other; queue looked at only in an idle source | `Notifications` |
| labels and OSD | one client's labels, a window per monitor, timers, fades | names that vanish while a timer runs | `ShellPopups` |
| screenshot | senders, flashspots, a selection with a nested main loop | a second selection inside the first | `Screenshot` |
| end of session | dialogs, inhibitors read over the bus, a countdown | lists replaced while replies come, windows that close late | `EndSession` |
| accelerators | bindings by program, keymap, grabs at the server | keymaps that change, programs that leave | `Keybindings` |
| status notifier watcher | items, hosts, bus names | names gone before their call is handled | `StatusNotifier` |
| automount, autorun | volumes that wait for the end of a lock, marks that allow a program | GetActive answered late, screensaver restarted | `Automount` |
| input sources, IBus | sources, order of use, per-window sources, popup, groups | lists that change under all of these, engines that answer late | `InputSources` |
| accessible keyboard | settings, XKB controls, bubbles | each side echoes the other | `A11yKeyboard` |
| input settings | properties of devices, mapping of touchscreens, repeat of keys, Num Lock | devices and monitors come and go | `InputSettings` |
| application, session | bus name, session client, parts switched by settings | a chain of asynchronous calls and its unwinding | `Session` |
| window manager check | check window, event filter | window managers that replace each other | `WindowManager` |
| desktop icons | icons, grids per monitor, selection, rubberband | files, monitors and queries come and go separately | `IconView`, `IconSelection` |
| one icon | information, thumbnail, trash | answers about older versions | `FileIcon` |
| background | caches in memory and on the disk, fade, resize | stale caches | `Background` |

## 2. How the models are read

A record named like an object (`manager`, `listener`) holds the fields of that
object with their names; a boolean field of the objects of a set is the set of
those that have it. Callbacks pending in the main loop are booleans (a source
with an id), counters (sources without one), or sequences (events that are
delivered in order). Variables whose comment says "history" are not in the
program: they remember what a property speaks of. Every bound is a constant
that the module's CONSTANTS lists under "bounds". Where GLib aborts
(`g_assert`, a NULL pointer) the model has a state of its own (`crashed`,
"aborted").

Some correspondences that are not obvious:

- `GfManager.tla`: each public method of `GfManager`/`GfWindow` is an operator;
  `MonitorAdded` is `RequestUnlock(AddWindows(CancelAll(screen)))` as
  `monitor_added_cb` cancels, creates and asks again. `passes` counts queued
  `window_deactivated_idle_cb` sources by cause. `clean` and `screen.vouched`
  are history: whether a lock began with no deactivation on its way, and which
  deactivations come from accepted passwords.
- `UnlockDialog`: the thread of `GfAuth` is a program counter with a step
  between any two accesses to shared state; `gf_auth_set_response` is split at
  its accesses too, because it tests and stores without the mutex.
  `g_cond_wait` may return without a signal. A racing append to `message_ids` is
  a choice between the lists the build can produce.
- `PolkitAgent`: `do_initiate` is one callback with main loops inside, so the
  authenticator has a program counter: "choosing", "talking", "prompting".
- `Grab`: a call blocks the program, each attempt is a step, and other programs
  act between attempts except while the server is grabbed. `Screensaver` takes a
  call for one step.
- `MonitorConfig`: `world` holds both X and the manager's copy of it; a
  configuration is the set of monitors it lights and turns off (its key), a
  primary, the panel's transform, whether it mirrors, whether its modes exist,
  and the identity of its root. X events coalesce beyond `MaxEvents`.
- `CrtcAssignment`: the screen has one dimension; `complained` is history and
  says that the server was asked to resize below a lit CRTC. One record, `w`,
  holds server and manager, so that each function of the manager is an operator
  from one such World to the next and a handler is their composition.
- `ConfigParser`: the file is written while it is read: an environment opens
  and closes elements in any order that GMarkup lets through.
- `ConfigStore`: a write is made by a thread of GIO ("landed") before `saved_cb`
  runs in the main loop; a cancelled one may land as well.
- `MonitorModes`: the loops of `generate_modes` and `find_best_mode` are steps, a
  round each, over lists of modes of any content within the bounds.
- `IdleMonitor`: `Iterate` is GLib's poll, `marked` what it has marked; ready
  times are unsigned sums stored in a signed field of `Width` bits.
- `IconSelection`: icons fill unit squares, the pointer is at corners.
- `InputSettings`: a device is the properties its driver gives it with their
  values, the modes it supports and the driver's defaults; each `update_*`
  function is an operator from a device to a device, and a key is read when its
  notification is handled. `gf_input_settings_set_monitor_manager` comes right
  after the construction (gf-application.c:254) and is part of it. Left out:
  what `dispose` leaves connected to the seat when the part is turned off
  within one program, and whether the X driver accepts what it is asked for.
- `Fade`: `screen` is what a reader of the number and a reader of the ramps
  would get; `info` is tagged by what was saved ("ramp" when `info->size` is
  positive), which is what `xf86_whack_gamma` looks at, and `kind` is the type
  of the fade. `Dispose` begins with the reset, because
  gf_screensaver_dispose frees the manager first and gf_manager_finalize
  resets the fade (gf-manager.c:578).
- `Screenshot`: the disk is a function from paths to the call that wrote them.
  A name is relative, and gets a free path, or absolute, and is taken as it is
  (gf-screenshot.c:331). Looking for a free name and saving are one step.
- `EndSession`: the inhibitors a dialog waits for outlive it. An answer to a
  dialog that was freed is a choice: it does nothing, starts the clock of what
  is there, lands in the dialog that took its memory, or ends the program.
- `FileIcon`: a query, the enumeration of the trash and the reading of its
  first file may each fail.
- `Clipboard`: the time of the X server is how often an application took the
  clipboard, which is all XSetSelectionOwner compares; the server passes a
  conversion to the owner of that moment.
- `Background`: time is seconds, as in the comparison of modification times.
  The monitors stand side by side, and none is below the least size of the
  window (640 by 480). Idle sources that wait run in one turn of the main loop,
  so no event comes between change_cb and a move_resize_cb that waits with it
  (`early`). A picture is the list of the scalings it went through.

## 3. Runs

A run of TLC explores one specification. Components that share no state are
checked by one run **one after the other**: the MC module picks a part in the
initial state (`part`), gives its module a pool of variables (`x1`, `x2`, ...)
by INSTANCE, and steps only that part. The states are the disjoint union of the
states of the parts, nothing is composed, and nothing is lost: each part has the
behaviours it has alone, with the fairness its own module states. A property of
such a run says what the part's module defines and explains.

| run | parts | what it asks |
|---|---|---|
| `screensaver_monitors` | Screensaver | shields, dialog, grab, how a lock ends; that fade, password and lock timer come to their end |
| `screensaver_prefs` | Screensaver | agreement of the copies of "active", refinement of `ScreenLock` |
| `authentication` | UnlockDialog, LoginListener, PolkitAgent, Grab, Fade | no leftovers of a dialog and its retries; the delay lock and the remembered lock; who gets the password and in which order; the seat; the gamma |
| `monitors` | MonitorConfig in two environments | does the configuration fit the monitors in the end; what a trial keeps and restores |
| `displays` | ConfigStore, ConfigParser (twice), LayoutConversion, CrtcAssignment, MonitorModes | writes, elements, policies, order of monitors, CRTCs, modes |
| `input` | IdleMonitor, InputSources | when watches fire; what the keys type |
| `services` | Notifications, ShellPopups, Screenshot, EndSession | agreement of the lists and that everything is seen; that nothing stays on the screen; calls that clean up; the countdown |
| `desktop` | IconView, IconSelection, FileIcon, Background, Clipboard, Automount, Keybindings, StatusNotifier, Session, WindowManager, A11yKeyboard, InputSettings | one property each |

Four runs are expected to end in a violation. Each checks a sentence, an
assertion or a comment of the code against what the code does, and each is a
finding of `PROJECT.json`:

- `watcher_idle`: gf-watcher.c:230 says "no change in idleness", but after a
  failed activation the timer still runs and activates later under a user who
  is back.
- `auth_answer`: the assertion gf-auth.c:638 fails when the dialog is closed
  right after Unlock.
- `parser_aborts`: the assertion gf-monitor-config-store.c:1380 fails for an
  element in `<transform>` that the parser does not know.
- `notifications_move`: bubbles that are "transferred" (nd-queue.c:117) are
  destroyed with the old stack.

### Why the bounds are enough

*Two of a kind* (monitors, notifications, requests, programs, names, windows,
CRTCs with two outputs) are the least with one that has something and one that
waits for it, loses it or is mistaken for it; three icons, because one of them
has no place. *Two or three inputs of a kind* (`MaxChanges`, `MaxInputs`,
`MaxSaves`, `MaxCalls`): the first is answered while the second is under way,
the third overtakes. One queued deactivation keeps the liveness run of the
screen lock within reach; the second, which can be stale when the first has
run, is in `screensaver_prefs`, and the proofs hold for any number. Two PAM
conversations are a retry within one verification, two failures a retry and the
last one. The history of configurations holds three as in the code and three
inputs fill it. Three time steps with an interval of two let a watch be reset
half way and be due once more; word width 5 keeps sums in range. Offsets and
sizes of `LayoutConversion` are chosen so that monitors touch, overlap or leave
a gap, in lines and in two dimensions. The parser has two configurations and
two entries of a list in one file, and the policies three files.
The background has two monitors of two sizes chosen so that a resize changes
the size of all in one order and keeps it in the other, and two changes of files
and monitors, so that a resize meets a fade, a drawing or another resize. The
five things that applications do to the clipboard leave room for a request, a
copy, another manager and a second request.
Deadlock is not checked (`CHECK_DEADLOCK FALSE`) where a part stops: after the
last input of its bound, when the dialog is gone, when the program has ended or
aborted, at the end of a computation (`MonitorModes`, `LayoutConversion`).

### Fairness

The main loop dispatches every source that stays ready: timers, idle sources,
unread X events and completions are weakly fair (`Screensaver`, `UnlockDialog`,
`IdleMonitor`, `Notifications`, `ShellPopups`, `Screenshot`, `EndSession`,
`PolkitAgent`'s nested loops that were told to quit). The PAM thread runs when it
is not waiting for an answer, and PAM returns after finitely many
conversations. A write of GIO ends. The login manager and IBus answer a call
they received (`Serve`, `EngineSet`); nothing else is assumed of other
services. The bus daemon reports a peer that left. Users, clients, settings,
monitors, sensors are never assumed to do anything. Some conditions are written
`[]<>~guard \/ []<><<A>>_vars`, which is `WF_vars(A)` for an action that is
enabled exactly by its guard and always changes the state; TLC then need not
compute ENABLED on large disjunctions. The parts of `desktop` are checked for
safety alone; their "in the end" is stated as: when no event, reply or source
is pending.

## 4. Proofs

Proved with TLAPS for all monitors, delays, preferences and bounds, from the
constant assumptions `GrabAssumption`, `PrefChoicesAssumption`,
`PamStatesAssumption`, `MaxPassesAssumption`:

1. `TypeCorrect`: `Spec => []TypeOK`. It is inductive as it stands.
2. `AlwaysInSync`: `InSync` is inductive under `TypeOK`. It has to carry
   `Down` (nothing of an activation survives) and `OnlyOfWindows` (no bit of a
   window without the window); without them a new window could be born locked
   or with a dialog. One lemma per operator of `GfManager`, one per shared piece
   (`Raise`, `Lower`, `Lock`), then a case per action.
3. `AlwaysShielded`: `EveryMonitorShielded` is inductive under 1 and 2.
4. `AlwaysOnlyPasswords`: `OnlyPasswordsQueued` is inductive under 1-3: a locked
   window asks for the dialog instead of its deactivation, and 3 says that all
   windows are locked.
5. `LocksEndOnPassword`, `LocksEndWithShield`: action properties from 1-4. The
   second has no run of its own.
6. `AlwaysOneDialog`: the inductive form is `DialogFits(screen)`, stated of any
   screen so that each operator has its own lemma.
7. `Implements`: `Spec => ImplementsScreenLock`; initial states map, and
   `RefinementStep` maps every callback to a step of `ScreenLock` or a stutter,
   using 1-4.
8. `ConversionsUndoEachOther` and `ConversionsAreInjective` (`MonitorConfigProofs`): the transform in a
   configuration and the one given to the CRTC determine each other, for all
   eight transforms and all panels.
9. `AlwaysGrabHeld`: `GrabHeld`. It is inductive only together with `InSync`
   and `OneDialog`: while the screensaver is down no grab of a notice may
   survive its start, and when the monitor with the grab goes, the request that
   follows moves the grab only if no dialog is believed to be up. `KeepsGrab`
   is what each method of `GfManager` leaves of the grab and of the queue;
   `RequestKeepsGrab` says that where no dialog is, the window asked has the
   grab afterwards or is about to deactivate.

The components that a run checks one after the other are proved at the level of
the MC module, on the specification the run explores: the invariant of a part is
an invariant of `AllSpec` or `Spec` while that part runs. Each has its named
assumptions on constants.

10. `DialogAlwaysSafe` (`AuthenticationProofs`): `OneShake`,
    `NothingOutlivesDialog` and `NoExtraAttempt`, the safety part of
    `DialogIsSound`, for any number of messages, failures and windows of the
    race. `DialogInv` adds `OneAttempt` (a result is due only when the thread is
    done, a shake runs only between two attempts) and `MessagesFit`;
    `FreshId` is a pigeonhole argument: the list of ids has room for one more.
11. `SeatAlwaysKnown` (`AuthenticationProofs`): `SeatIsKnown`. `SeatInv` adds
    that the windows a running call refers to are windows of the program, and
    that a call which took the seat for a window still has it there.
12. `GammaAlwaysComesBack` (`AuthenticationProofs`): `GammaComesBack`. `FadeInv`
    adds that without an extension to set gamma with none is saved, that the
    number of the server stays bright while a ramp is saved, and that a number
    that was chosen is the server's until a fade by the number saves it. `DimOfBright` and
    `SetAlphaShows` say what writing a saved gamma shows, `GammaRestored` that a
    reset shows what was saved. The theorem covers a setup that fails half way:
    the screen it leaves is bright but not what was chosen.
13. `EndSession.AlwaysCountsWhenFree`: `CountsWhenFree` with the types. `Counts`
    is the property of one dialog, so that each handler has its own lemma; `Up`
    says that the dialog the service presents again is not gone. Answers that
    fail and answers that reach a freed dialog are steps of the theorem like all
    others. It names the hypotheses on its constants.
14. `FirstAlwaysTold` (`DesktopProofs`): `FirstIsTold`. `WindowsInv` adds that
    while a valid window is on the root and none is known an event of the root
    is unread.
15. `ClientsAlwaysAgree`: `ClientsAgree`. `WatcherInv` adds that of a watched
    name which nobody owns the loss is on its way. Both are about sequences of
    events of any length; the lemmas on `Append` and `Tail` serve all parts.
16. `GrabsAlwaysWanted`: `GrabsAreWanted` with the types.
17. `IconsAlwaysUpToDate`: `ThumbnailFits` and `TrashIsKnown`. `ThumbnailInv`
    says that the one load not cancelled is for the version the information is
    of, `TrashInv` that the one check under way will find what there is, or
    fail, and that without one the icon is right or the last check failed.
18. `SettingsAlwaysMatchKeyboard`: `SettingsMatchKeyboard`, with `Shown`, which
    bounds the bubbles by the presses so that every id is of a bubble.
19. `PartsAlwaysWired`: `PartsAreWired`, from `ChangedIsWired`: every part that
    `settings_changed` looked at is there exactly if it is wanted, and the
    screensaver is told of the input sources last.
20. `QueueAlwaysWaits`: `QueueWaitsForLock`, `KnowsTheLock` and
    `MarkIsTemporary`, for any volumes and any number of restarts, locks and
    proxies. What is on its way from the screensaver and the bus is one sequence
    of events of any length, and `AutomountInv` says how it has to go on:
    `EventsInOrder` (after a name vanished calls only fail until it appears
    again), `LockIsComing` (a screensaver that runs will be asked, or was asked,
    or the last it sent is what it is) and `FirstAnswer` (the answer to the
    first proxy never ends a lock, which is why nothing waits in the queue
    without one). The steps that take the first event, or add one, have their
    lemmas in `DesktopLemmas`; `DesktopParts` holds the variables of the run and
    the instances of `Automount`, `IconSelection` and `InputSettings`, so that these lemmas do
    not carry the other parts.
21. `SelectionAlwaysFollows`: `SelectionFollows`, an invariant and an action
    property, for any icons, squares and size of the desktop. `SelectionInv`
    adds that the rubberband is the rectangle from the start of the drag to the
    pointer (`BandIsDrawn`; `BandGrows` says that comparing corner and length is
    then enough to know what it left and entered), and what a press leaves for
    its release (`PressKept`). `Agrees` is what each operator on the selection
    takes and returns. That a rubberband follows is only claimed as long as the
    pointer does not jump across its start: `BandGrows` needs it.
22. `DevicesAlwaysAgree`: `DevicesAgree`, for any devices, drivers, keys,
    monitors and number of changes. `DeviceAgrees` is said of one device, of
    settings and of the keys that hold it up; the inductive invariant
    (`InputSettings.Inv`) lets exactly the keys whose notification is still to
    come hold a device up, and says that the last event of the lock is what the
    lock is. `ApplyAgrees` (a device that is applied agrees, whatever it was),
    `UpdateAgrees` (a handled key holds it up no more) and `ChangeAgrees` (a
    changed key does from then on) carry the steps. A touchpad that follows the
    mouse is held up by two keys, and so is the edge method.

23. `ModesHaveOneId` (`DisplaysProofs`): `OneModePerId`, for any modes, rates,
    flags and tiles. `MonitorModes.Inv` adds `LitBy` (a mode is the current one
    while modes are made because all outputs are lit, or because one alone is,
    by a mode met before: which is why no second mode becomes current) and
    `PreferredIsFound`. `AddModeKeepsIds` is about `gf_monitor_add_mode`: what is
    taken out has the id of what is put in. `MainIsAnOutput` says that
    `find_untiled_output` finds one.
24. `ScreenStaysFree` (`DisplaysProofs`): `ScreenIsFree`, an invariant and an
    action property, for any CRTCs, outputs, layouts and any requests refused.
    `Good` is said of any World, `Inv` of `w`: `Timed` (the last request was made
    here exactly if its time was saved) gives the action property, `Named`
    counts the atoms of a tiled monitor through `rebuild_monitors` and
    `rebuild_derived`. Each function of the manager has its lemma, from one good
    World to the next: `ReadIsKnown`, `DerivedIsGood`, `AppliedIsGood` (with
    `ScreenGetsItsSize`: every CRTC that would be in the way was turned off
    first), `ConfigIsGood`; the handlers follow by composition. `GreatestOf`
    proves that a finite set of numbers has a greatest one, by a least
    counterexample in size.
25. `ConfigurationsFit` (`MonitorConfigProofs`): `ConfigurationFits`, for any
    monitors, panel, CRTCs, transforms, bounds and length of the history. It
    assumes that no client tries a configuration out ("persistent"), as in the
    environment the property is about: a revert brings back a configuration
    whatever it was made for, see section 5. `Sound` is said of any world, `Inv`
    of `world`. Four facts carry it. `LitAsAsked`: unless another client has set
    the CRTCs, X lights what the current configuration asks for. `Kept`: no
    configuration that is kept is empty, and a stored one has the key it is
    found by. `Announced`: a monitor that came or went unnoticed has an event
    waiting that will be taken for a hotplug, unless an own change hides it,
    which is what `missed` remembers. `Covers`: the key of the current
    configuration is that of the monitors known. `CandidatesFit` shows that
    whatever way `ensure_configured` finds a configuration, it lights only what
    is there and has the key of the current state, also with a closed panel that
    is alone, and `FallbackWorks` that the last resort always works. `FreshRootType` counts:
    there is always an address left for a new configuration.
26. `NothingEverCarriedOver` (`DisplaysProofs`, from the lemmas of
    `ConfigParserProofs`): `NothingCarriedOver`, for any file, any monitors
    named in it and any number of configurations. `Inv` says that a parser that
    has not ended is `Sound` or `Doomed`. Sound is: the elements that are open
    are the way to the state (`OnTheWay`, the table `Ways` written out, for a
    monitorspec by the parent the parser remembers), what is gathered in the
    parser is what the document said so far (`SaysTheSame`), and what is read
    once is not there before it is read (`TransformOnce`, `SpecOnce`,
    `ConnectorOnce`). It is not inductive without the other case: an unknown
    child of a transform is not skipped, and from there on the parser is a state
    ahead of the document until an assertion or an error ends the reading
    (section 5). `Move` serves all the steps between alike places.
    `ConfigParserProofs` extends `ConfigParser` and is what `MCDisplays` takes
    by INSTANCE, so that its lemmas are those of both instances.
27. `PolicyStays`: `FirstPolicyStays`, for any files. `OnlySystemInPolicy` says
    that the parser of a file of the user is neither inside of a policy nor has
    a state to return to that is.
28. `PasswordGoesToTheChosen` (`AuthenticationProofs`): the part of
    `ServedAsChosen` that is no liveness, for any requests and users. `AgentInv`
    adds to `ServedInOrder` what it rests on: `SessionIsOfUser` (a session and a
    prompt are of the user who is chosen, unless the end of the prompt is on its
    way; a loop told to quit has no session) and `ListedOnce` (without it,
    completing one request would leave it in the list). `KeepsTheList` is for the
    callbacks of the authenticator, `AnswersFirst` and `RemoveHead` for
    `completed_cb`.

Only model-checked:

- every liveness property, because TLAPS does not reason about fairness here.
  `DialogIsSound`, `CountsWhenFree` and `ServedAsChosen` have such a part in
  their runs, and theorems 10, 13 and 28 are about the rest; the other
  properties that mix both (`LockIsNotLost`, `TrialIsAnswered`, `FileCatchesUp`,
  `TypesCurrentSource`, `NotificationsAgree`, `NothingStays`, `CallsCleanUp`)
  are checked as a whole;
- `RootShowsTheFile`, whose component folds over lists of monitors, and
  `SavedIsHeld`, whose clipboard selects what it keeps from a sequence: what
  these compute needs induction over data;
- `OrderKept`, whose component folds over the monitors of a layout: again
  induction over data;
- `EveryFileHasItsPlace`, whose component folds over the list of icons to place
  them: induction over data too.

## 5. Behaviour the models contain that no run is about

The models keep these because the code has them. Where a text of the repository
contradicts the behaviour it is quoted; each was seen as a counterexample of a
property that was then weakened by the condition its comment names.

Screen lock and dialog:
- the map-event of a window that arrives after the dialog went up elsewhere
  moves the grab away from the dialog (gf-manager.c:372; comment at 308);
- `setup_gamma_ramp` that fails after it learnt the size of the ramps
  (gf-fade.c:127) leaves zeroes in `info`; the number is saved in their place,
  but xf86_whack_gamma goes by the size (202) and writes the zeroes on the fade
  and on the reset, so the screen stays without gamma. A ramp chosen by another
  program is lost when the fade saves the number, and so is what is chosen
  during a fade;
- `release_grab_cb` of an old notice releases the grab of a new one
  (gf-screensaver.c:69);
- a lock timer that fires while locking is disabled does not come back when
  locking is enabled again;
- a removal from `message_ids` that races with an append fails the assertion at
  gf-auth.c:163 (gf-auth.c:165 changes the list without the mutex); a late
  reply of the display manager fails the one at gf-unlock-dialog.c:168; a wait
  that ends without a signal leaves its answer for the next prompt
  (gf-auth.c:235);
- a move of the grab that fails says "Resuming previous grab" (gf-grab.c:238)
  and may not get it back; gf_grab_move_to_window tries for ever (322);
- `dismissed` reports a cancellation by polkit as one by the user
  (flashback-authenticator.c:416).

Monitors:
- a revert within the 20 s after an unplug dereferences NULL
  (gf-monitor-config-manager.c:1323, before the error of 1125);
- a revert after the lid closed lights the closed panel again, although a
  request for the same would be refused (gf-monitor-manager.c:432);
- the dialog goes on counting down after a temporary request cancelled the
  timer behind it;
- configurations made from scratch do not convert the transform of a panel that
  is built in turned, against the comment at gf-monitor-config-manager.c:850;
- a rotation that arrives before monitors have their logical monitors
  (gf-monitor-manager.c:740) dereferences NULL;
- an empty `<logicalmonitor>` dereferences NULL (gf-monitor-config-store.c:752);
- "Verification of the converted config failed ... this should not happen"
  (gf-monitor-config-store.c:1344) happens, because the scales are rounded
  after the places were chosen (900); a configuration that was valid with its
  converted scales is moved all the same, because the list that was not
  converted is verified (1313);
- a failed XRRSetCrtcConfig is not noticed (gf-crtc-xrandr.c:252), and an
  unchanged assignment with another configuration makes no event
  (gf-monitor-manager-xrandr.c:755-762);
- `current_mode` may name a freed mode (gf-monitor.c:1068); "the best mode" of
  a tiled monitor may have fewer pixels and a higher rate
  (gf-monitor-tiled.c:437); a preferred mode that duplicates an id is freed
  (gf-monitor-normal.c:78).

Daemons and services:
- a marked idle watch that is reset and then inhibited fires
  (meta-idle-monitor.c:240 against 313); a very long interval overflows into a
  ready time in the past;
- `show_dock` that cannot open the dock drops what was queued; a click outside
  the dock hides it without an update; `NotificationClosed` may be sent twice;
  an idle source that `update_id` forgot runs on a freed queue if the component
  is switched off at that moment (nd-queue.c:894);
- a second call of Open with another type keeps the type of the dialog that is
  up (gf-end-session-dialog.c:103-115 against the interface description
  org.gnome.SessionManager.EndSessionDialog.xml:12);
- autorun may ask about a mount whose dialog is already up (gsd-autorun.c:468,
  563); a reply of GetActive from a proxy that was replaced is read with the
  new one (gsd-automount-manager.c:379);
- a list of inhibitors that is replaced is emptied without an update of the
  text; when the proxy of a new one then fails, or names no application, the
  countdown stays as it was, stopped
  (gf-inhibit-dialog.c:180-183, 345-346, 703-709); the callbacks of a dialog that
  was destroyed run on freed memory (698);
- a screenshot to an absolute path overwrites what is there
  (gf-screenshot.c:331, as org.gnome.Shell.Screenshot.xml:19 says);
- a key grabbed for next-group stays grabbed after the layout changed
  (gf-keybindings.c:932);
- a window manager that comes after the known one is gone is not noticed if the
  root names none at that moment (gf-wm.c:185-189);
- an error while the trash is read leaves its icon empty (gf-trash-icon.c:49-56)
  or as it was (76-83) until the trash changes again;
- monitors that change while the size of all stays keep the pictures of the
  sizes they had (gf-desktop-window.c:450 queues nothing), and a monitor that is
  not the first shows a picture scaled from that of the first, whatever its
  aspect, although "only hit the cache if the aspect ratio matches"
  (gf-bg.c:1106): get_as_pixbuf_for_size finds it in the other cache (908). A
  file that changes after it was read and before its scaled picture is saved, a
  second later, is not shown while that picture is valid (342);
- another clipboard manager takes over in the middle of a request: what is kept
  is freed, the request goes on and reports success with nothing held
  (gsd-clipboard-manager.c:733-744, 789-795). A copy after the request makes the
  server refuse the ownership (783), what is kept then stays and every later
  request is refused, although the clipboard is not owned (comment at 436). An
  answer to a request that was given up frees what it does not bring
  (get_property, 302), even while it is being sent, against the comment on
  reference counting at 96;
- both scroll methods of a touchpad are on for a moment
  (gf-input-settings.c:449, comment at 873);
- an icon dropped where no view is fails g_assert (gf-icon-view.c:2471).

## 6. Not modelled

Labels, clocks and pictures of the lock screen; EDID and the names of monitors;
the number of a scaling factor; backlight, gamma and power saving over D-Bus;
the proxy of the accelerometer (`gf-orientation-manager.c`), whose result is an
input of `MonitorConfig`; giving the keys back when the shell part is switched off
(`gf_keybindings_dispose` and `finalize`); errors while a directory of the
desktop is read; a single element of monitors.xml that is repeated, and a second
`<monitor>` of a logical monitor; the tiled placement of the background
("wallpaper") and the drawing of one picture over all monitors; menus, rename, drag and drop and file operations of
the desktop; the slide show; IBus properties, candidates and the indicator; the
media keys daemon, which asks `Keybindings` for grabs and calls other services;
the audio device dialog, a smaller instance of `EndSession`; the list of windows
for introspection; the system indicators (panel applets showing the state of
other services; `gvc` is an empty submodule). These are presentation, data, or
copies of state that lives elsewhere.

## 7. What is left

Proofs: the safety parts of `TrialIsAnswered` and `FileCatchesUp`.
Then models: media keys against `Keybindings`, the orientation manager in front
of `MonitorConfig`, and `ConfigStore` composed with `MonitorConfig`.
