----------------------------- MODULE Screensaver -----------------------------
(***************************************************************************)
(* The screen lock of gnome-flashback: GfScreensaver and the objects it    *)
(* wires together, GfListener (the org.gnome.ScreenSaver service and the   *)
(* logind session), GfWatcher (the presence of the session manager),       *)
(* GfManager with its GfWindows and GfPrefs.                               *)
(*                                                                         *)
(* Everything runs in one GLib main loop.  An action is one callback of    *)
(* that loop with every synchronous signal it emits; what interleaves is   *)
(* the order of the callbacks: D-Bus calls and signals, X events, settings *)
(* changes, timers and idle sources, which may wait behind any of these.   *)
(***************************************************************************)
EXTENDS GfManager, Naturals

CONSTANTS
    Delays,       \* values of the lock-delay key
    PrefChoices,  \* the preferences the user switches between
    PamStates,    \* what pam_config_exists () may return
    MaxPasses     \* bound on queued window_deactivated_idle_cb sources

Prefs == [lockEnabled : BOOLEAN, lockDisabled : BOOLEAN, lockDelay : Delays]

(* those with which an activation locks the screen                         *)
LockingOn == {p \in Prefs : p.lockEnabled /\ ~p.lockDisabled}

ASSUME PrefChoicesAssumption == PrefChoices \subseteq Prefs
ASSUME PamStatesAssumption == PamStates \subseteq BOOLEAN
ASSUME MaxPassesAssumption == MaxPasses \in Nat \ {0}

VARIABLES
    listener,      \* GfListener: active, session_idle
    watcher,       \* GfWatcher: active, idle, idle_notice, idle_id # 0
    manager,       \* GfManager without its windows
    screen,        \* the windows, the dialog and the grab (GfManager.tla)
    fade,          \* GfFade: "bright" (alpha 1), "fading" or "dark"
    releaseTimer,  \* GfScreensaver.release_grab_id # 0
    passes,        \* queued window_deactivated_idle_cb sources, by cause
    prefs,         \* GfPrefs
    pam,           \* pam_config_exists ()
    presence,      \* status of the session manager's Presence, or "gone"
    monitors,      \* connected monitors
    clean          \* history: this lock began with no deactivation on its way

code == <<listener, watcher, manager, screen, fade, releaseTimer, passes>>
world == <<prefs, pam, presence, monitors>>
vars == <<code, world, clean>>

Listeners == [active : BOOLEAN, idle : BOOLEAN]
Watchers == [active : BOOLEAN, idle : BOOLEAN, notice : BOOLEAN, timer : BOOLEAN]
Managers == [active : BOOLEAN, lock : BOOLEAN, lockEnabled : BOOLEAN,
             lockTimeout : Delays, lockTimer : BOOLEAN, unfadeTimer : BOOLEAN]
Presences == {"gone", "available", "idle"}
Causes == {"password", "unlocked"}

TypeOK ==
    /\ listener \in Listeners
    /\ watcher \in Watchers
    /\ manager \in Managers
    /\ screen \in Screens
    /\ fade \in {"bright", "fading", "dark"}
    /\ releaseTimer \in BOOLEAN
    /\ passes \in [Causes -> Nat]
    /\ prefs \in Prefs
    /\ pam \in BOOLEAN
    /\ presence \in Presences
    /\ monitors \in SUBSET Monitors
    /\ clean \in BOOLEAN

(* gf_screensaver_init has run: the preferences are read, the watcher is   *)
(* active, nothing has been heard from the bus                             *)
Init ==
    /\ prefs \in PrefChoices
    /\ pam \in PamStates
    /\ presence = "gone"
    /\ monitors \in (SUBSET Monitors) \ {{}}
    /\ listener = [active |-> FALSE, idle |-> FALSE]
    /\ watcher = [active |-> TRUE, idle |-> FALSE, notice |-> FALSE,
                  timer |-> FALSE]
    /\ manager = [active |-> FALSE, lock |-> FALSE,
                  lockEnabled |-> prefs.lockEnabled /\ ~prefs.lockDisabled /\ pam,
                  lockTimeout |-> prefs.lockDelay,
                  lockTimer |-> FALSE, unfadeTimer |-> FALSE]
    /\ screen = Bare(NoGrab)
    /\ fade = "bright"
    /\ releaseTimer = FALSE
    /\ passes = [c \in Causes |-> 0]
    /\ clean = FALSE

-----------------------------------------------------------------------------
(* What the callbacks are composed of *)

(* Mutant: the notice outlives the watcher's activity.                     *)
WatcherSetActiveKeepingNotice(active) ==
    IF watcher.active = active
    THEN watcher
    ELSE [watcher EXCEPT !.active = active, !.idle = FALSE]

(* gf_watcher_set_active: a change of activity forgets the idleness, and   *)
(* leaves the idle timer alone                                             *)
WatcherSetActive(active) ==
    IF watcher.active = active
    THEN watcher
    ELSE [watcher EXCEPT !.active = active, !.idle = FALSE, !.notice = FALSE]

(* No deactivation is on its way: neither on a window nor in the main loop *)
NothingQueued(s) == s.deact = {} /\ \A c \in Causes : passes[c] = 0

(* gf_manager_set_active (TRUE) once the root grab succeeded: the windows  *)
(* are created with lock, and window_show_cb starts the two timers.        *)
Raise(lock) ==
    /\ screen' = AddWindows([screen EXCEPT !.grab = RootGrab], monitors, lock)
    /\ manager' = [manager EXCEPT !.active = TRUE, !.lock = lock,
                                  !.lockTimer = TRUE, !.unfadeTimer = TRUE]
    /\ fade' = fade

(* gf_manager_set_active (FALSE)                                           *)
Lower ==
    /\ screen' = Bare(NoGrab)
    /\ manager' = [manager EXCEPT !.active = FALSE, !.lock = FALSE,
                                  !.lockTimer = FALSE, !.unfadeTimer = FALSE]
    /\ fade' = "bright"
    /\ clean' = FALSE

(* gf_listener_set_active (TRUE), whose signal runs                        *)
(* listener_active_changed_cb, with the manager's lock_active at lock.     *)
(* grabbed is the outcome of gf_grab_grab_root.                            *)
CanRaise(grabbed) == ~listener.active /\ ~manager.active /\ grabbed

ListenerRaise(lock) ==
    /\ Raise(lock)
    /\ listener' = [active |-> TRUE, idle |-> TRUE]
    /\ watcher' = WatcherSetActive(FALSE)

(* The same call when the manager stays down: "clear the idle state"       *)
ListenerNotRaised ==
    /\ listener' = IF listener.active THEN listener
                   ELSE [listener EXCEPT !.idle = FALSE]
    /\ UNCHANGED <<watcher, manager, screen, fade>>

(* gf_listener_set_active (FALSE)                                          *)
ListenerLower ==
    IF listener.active /\ manager.active
    THEN /\ Lower
         /\ listener' = [active |-> FALSE, idle |-> FALSE]
         /\ watcher' = WatcherSetActive(TRUE)
    ELSE UNCHANGED <<listener, watcher, manager, screen, fade, clean>>

(* listener_lock_cb past its two early returns: the flag is set first, and *)
(* restored when the screensaver cannot be activated.                      *)
Lock(grabbed) ==
    IF manager.active
    THEN /\ manager' = [manager EXCEPT !.lock = TRUE]
         /\ screen' = IF manager.lock THEN screen ELSE LockWindows(screen, TRUE)
         /\ clean' = IF manager.lock THEN clean ELSE NothingQueued(screen)
         /\ UNCHANGED <<listener, watcher, fade>>
    ELSE IF CanRaise(grabbed)
         THEN ListenerRaise(TRUE) /\ clean' = NothingQueued(screen)
         ELSE ListenerNotRaised /\ UNCHANGED clean

MayLock == ~prefs.lockDisabled /\ pam

(* watcher_idle_notice_changed_cb (FALSE) as set_session_idle_notice runs  *)
(* it: the fade is undone and the grab kept for one more second, unless    *)
(* the manager is active; then the notice is not cleared either.           *)
EndNotice ==
    IF watcher.notice /\ ~manager.active
    THEN fade' = "bright" /\ releaseTimer' = TRUE
    ELSE UNCHANGED <<fade, releaseTimer>>

-----------------------------------------------------------------------------
(* Calls and signals from the bus *)

(* handle_lock_cb, lock_cb and, for a hint found set, login_session_ready_cb *)
LockCall ==
    \E grabbed \in BOOLEAN :
        /\ IF MayLock THEN Lock(grabbed)
           ELSE UNCHANGED <<listener, watcher, manager, screen, fade, clean>>
        /\ UNCHANGED <<releaseTimer, passes, world>>

(* prepare_for_sleep_cb (TRUE): only when the user asked for locking       *)
PrepareForSleep ==
    /\ prefs.lockEnabled
    /\ LockCall

(* handle_set_active_cb (TRUE)                                             *)
SetActiveCall ==
    \E grabbed \in BOOLEAN :
        /\ IF CanRaise(grabbed) THEN ListenerRaise(manager.lock)
           ELSE ListenerNotRaised
        /\ UNCHANGED <<releaseTimer, passes, clean, world>>

(* handle_set_active_cb (FALSE), and unlock_cb for logind's Unlock         *)
SetInactiveCall ==
    /\ ListenerLower
    /\ UNCHANGED <<releaseTimer, passes, world>>

(* The main loop asks for the unlock: simulate-user-activity, show-message *)
(* while active and the session becoming active in logind                  *)
AskToUnlock(w) ==
    /\ manager.active
    /\ w \in screen.shown
    /\ screen' = RequestUnlock(screen, w)
    /\ UNCHANGED <<listener, watcher, manager, fade, releaseTimer, passes,
                   clean, world>>

(* status_changed_cb.  The early return at gf-watcher.c:228 keeps idle_id. *)
StatusChangedCb(idle, grabbed, faded) ==
    IF ~watcher.active \/ (~idle /\ ~watcher.notice)
    THEN UNCHANGED <<listener, watcher, screen, fade, releaseTimer>>
    ELSE IF idle
    THEN /\ watcher' = [watcher EXCEPT !.notice = TRUE, !.timer = TRUE]
         /\ screen' = IF ~watcher.notice /\ grabbed
                      THEN [screen EXCEPT !.grab = OffscreenGrab] ELSE screen
         /\ fade' = IF ~watcher.notice /\ grabbed /\ faded THEN "fading" ELSE fade
         /\ UNCHANGED <<listener, releaseTimer>>
    ELSE /\ listener' = IF watcher.idle THEN [listener EXCEPT !.idle = FALSE]
                        ELSE listener
         /\ watcher' = [watcher EXCEPT !.timer = FALSE,
                                       !.idle = @ /\ ~listener.idle,
                                       !.notice = manager.active]
         /\ EndNotice
         /\ UNCHANGED screen

(* A status-changed signal, or presence_ready_cb reading the status        *)
StatusChanged(status) ==
    /\ status # "gone"
    /\ status # presence
    /\ presence' = status
    /\ \E grabbed, faded \in BOOLEAN :
           StatusChangedCb(status = "idle", grabbed, faded)
    /\ UNCHANGED <<manager, passes, prefs, pam, monitors, clean>>

(* name_vanished_handler of the watcher                                    *)
PresenceVanished ==
    /\ presence # "gone"
    /\ presence' = "gone"
    /\ UNCHANGED <<code, prefs, pam, monitors, clean>>

-----------------------------------------------------------------------------
(* Settings and files *)

(* Mutant: disabling locking also unlocks.                                 *)
UpdateFromPrefsUnlocking(p, late) ==
    LET enabled == p.lockEnabled /\ ~p.lockDisabled /\ pam
        lock == manager.lock /\ enabled
    IN /\ manager' = [manager EXCEPT !.lockEnabled = enabled,
                                     !.lockTimeout = p.lockDelay,
                                     !.lock = lock]
       /\ screen' = LockWindows(screen, lock)
       /\ clean' = (clean /\ lock)
       /\ UNCHANGED watcher

(* update_from_prefs with the preferences p.  late: the screensaver has    *)
(* been active for the new delay already.                                  *)
UpdateFromPrefs(p, late) ==
    LET enabled == p.lockEnabled /\ ~p.lockDisabled /\ pam
        rearm == /\ manager.lockTimeout # p.lockDelay
                 /\ manager.active /\ ~manager.lock
        lockNow == rearm /\ late /\ enabled
    IN /\ manager' = [manager EXCEPT
                        !.lockEnabled = enabled,
                        !.lockTimeout = p.lockDelay,
                        !.lockTimer = IF rearm THEN ~late ELSE @,
                        !.lock = @ \/ lockNow]
       /\ screen' = IF lockNow THEN LockWindows(screen, TRUE) ELSE screen
       /\ clean' = IF lockNow THEN NothingQueued(screen) ELSE clean
       /\ watcher' = IF ~manager.active /\ ~watcher.active
                     THEN WatcherSetActive(TRUE) ELSE watcher

(* lockdown_changed_cb or screensaver_changed_cb, then prefs_changed_cb    *)
PrefsChanged ==
    \E late \in BOOLEAN, p \in PrefChoices :
        /\ \/ \E b \in BOOLEAN : p = [prefs EXCEPT !.lockEnabled = b]
           \/ \E b \in BOOLEAN : p = [prefs EXCEPT !.lockDisabled = b]
           \/ \E d \in Delays : p = [prefs EXCEPT !.lockDelay = d]
        /\ prefs' = p
        /\ UpdateFromPrefs(p, late)
        /\ UNCHANGED <<listener, fade, releaseTimer, passes, pam, presence,
                       monitors>>

(* The PAM configuration appears or disappears; nothing watches it.        *)
PamChanged ==
    /\ pam' \in PamStates \ {pam}
    /\ UNCHANGED <<code, prefs, presence, monitors, clean>>
-----------------------------------------------------------------------------
(* Timers and idle sources *)

(* idle_cb of the watcher, ten seconds into the notice.  When the manager  *)
(* cannot be activated the source stays and runs again.                    *)
IdleCb ==
    /\ watcher.timer
    /\ \E grabbed \in BOOLEAN :
        IF ~watcher.idle /\ ~listener.idle /\ CanRaise(grabbed)
        THEN /\ Raise(manager.lock)
             /\ listener' = [active |-> TRUE, idle |-> TRUE]
             /\ watcher' = [WatcherSetActive(FALSE) EXCEPT !.idle = TRUE,
                                                           !.timer = FALSE]
             /\ UNCHANGED releaseTimer
        ELSE /\ EndNotice
             /\ watcher' = [watcher EXCEPT !.notice = @ /\ manager.active]
             /\ UNCHANGED <<listener, manager, screen>>
    /\ UNCHANGED <<passes, clean, world>>

(* fade_out_cb until the alpha reaches zero                                *)
FadeOut ==
    /\ fade = "fading"
    /\ fade' = "dark"
    /\ UNCHANGED <<listener, watcher, manager, screen, releaseTimer, passes,
                   clean, world>>

(* unfade_timeout_cb                                                       *)
Unfade ==
    /\ manager.unfadeTimer
    /\ fade' = "bright"
    /\ manager' = [manager EXCEPT !.unfadeTimer = FALSE]
    /\ UNCHANGED <<listener, watcher, screen, releaseTimer, passes, clean, world>>

(* lock_timeout_cb                                                         *)
LockTimeout ==
    /\ manager.lockTimer
    /\ LET lockNow == manager.lockEnabled /\ ~manager.lock
       IN /\ manager' = [manager EXCEPT !.lockTimer = FALSE,
                                        !.lock = @ \/ lockNow]
          /\ screen' = IF lockNow THEN LockWindows(screen, TRUE) ELSE screen
          /\ clean' = IF lockNow THEN NothingQueued(screen) ELSE clean
    /\ UNCHANGED <<listener, watcher, fade, releaseTimer, passes, world>>

(* release_grab_cb                                                         *)
ReleaseGrab ==
    /\ releaseTimer
    /\ releaseTimer' = FALSE
    /\ screen' = IF manager.active THEN screen ELSE [screen EXCEPT !.grab = NoGrab]
    /\ UNCHANGED <<listener, watcher, manager, fade, passes, clean, world>>

(* emit_deactivated_idle_cb of window w, whose signal queues one more      *)
(* window_deactivated_idle_cb; MaxPasses bounds the queue of the model     *)
WindowDeactivated(w) ==
    /\ w \in screen.deact
    /\ passes["password"] + passes["unlocked"] < MaxPasses
    /\ passes' = [passes EXCEPT
            ![IF w \in screen.vouched THEN "password" ELSE "unlocked"] = @ + 1]
    /\ screen' = [screen EXCEPT !.deact = @ \ {w}, !.vouched = @ \ {w}]
    /\ UNCHANGED <<listener, watcher, manager, fade, releaseTimer, clean, world>>

(* Mutant: it runs although no source is queued.                           *)
ManagerDeactivatedUnqueued(c) ==
    /\ passes' = [passes EXCEPT ![c] = @ - 1]
    /\ ListenerLower
    /\ UNCHANGED <<releaseTimer, world>>

(* Mutant: a locked screensaver ignores the request.                       *)
ManagerDeactivatedUnlessLocked(c) ==
    /\ passes[c] > 0
    /\ passes' = [passes EXCEPT ![c] = @ - 1]
    /\ IF manager.lock
       THEN UNCHANGED <<listener, watcher, manager, screen, fade, clean>>
       ELSE ListenerLower
    /\ UNCHANGED <<releaseTimer, world>>

(* window_deactivated_idle_cb and manager_deactivated_cb: whatever came in *)
(* between, the screensaver is deactivated                                 *)
ManagerDeactivated(c) ==
    /\ passes[c] > 0
    /\ passes' = [passes EXCEPT ![c] = @ - 1]
    /\ ListenerLower
    /\ UNCHANGED <<releaseTimer, world>>

(* popup_dialog_idle_cb                                                    *)
PopupDialogIdle(w) ==
    /\ w \in screen.popup
    /\ screen' = PopupDialog(screen, w)
    /\ UNCHANGED <<listener, watcher, manager, fade, releaseTimer, passes,
                   clean, world>>

-----------------------------------------------------------------------------
(* X events and monitors *)

(* A key, button, scroll or long motion on window e with the pointer on w: *)
(* maybe_emit_activity and window_activity_cb                              *)
Activity(e, w) ==
    /\ e \in screen.shown \ (screen.dialog \cup screen.deaf)
    /\ AskToUnlock(w)

(* window_map_event_cb: the grab moves to the window under the pointer     *)
MapEvent(w, atPointer) ==
    /\ w \in screen.unmapped
    /\ screen' = [screen EXCEPT !.unmapped = @ \ {w},
                                !.grab = IF atPointer THEN w ELSE @]
    /\ UNCHANGED <<listener, watcher, manager, fade, releaseTimer, passes,
                   clean, world>>

(* The "response" or "close" signal of the unlock dialog on window w       *)
DialogDone(w, accepted) ==
    /\ w \in screen.dialog
    /\ screen' = DialogResponse(screen, w, accepted)
    /\ UNCHANGED <<listener, watcher, manager, fade, releaseTimer, passes,
                   clean, world>>

(* monitor_added_cb, connected while there are windows; w is the window    *)
(* under the pointer afterwards                                            *)
MonitorAdded(m, w) ==
    /\ m \in Monitors \ monitors
    /\ monitors' = monitors \cup {m}
    /\ IF manager.active
       THEN LET s == AddWindows(CancelAll(screen), {m}, manager.lock)
            IN /\ w \in s.shown
               /\ screen' = RequestUnlock(s, w)
               /\ manager' = [manager EXCEPT !.lockTimer = TRUE,
                                             !.unfadeTimer = TRUE]
       ELSE w = m /\ UNCHANGED <<screen, manager>>
    /\ UNCHANGED <<listener, watcher, fade, releaseTimer, passes, clean,
                   prefs, pam, presence>>

(* Mutant: no dialog is put up again after the removal.                    *)
MonitorRemovedOnly(m, w) ==
    /\ m \in monitors
    /\ monitors # {m}
    /\ monitors' = monitors \ {m}
    /\ w = m
    /\ screen' = IF manager.active THEN DestroyWindow(CancelAll(screen), m)
                 ELSE screen
    /\ UNCHANGED <<listener, watcher, manager, fade, releaseTimer, passes,
                   clean, prefs, pam, presence>>

(* monitor_removed_cb; GDK never leaves the display without a monitor      *)
MonitorRemoved(m, w) ==
    /\ m \in monitors
    /\ monitors # {m}
    /\ monitors' = monitors \ {m}
    /\ IF manager.active
       THEN LET s == DestroyWindow(CancelAll(screen), m)
            IN /\ w \in s.shown
               /\ screen' = RequestUnlock(s, w)
       ELSE w = m /\ UNCHANGED screen
    /\ UNCHANGED <<listener, watcher, manager, fade, releaseTimer, passes,
                   clean, prefs, pam, presence>>

-----------------------------------------------------------------------------
Bus ==
    \/ LockCall
    \/ PrepareForSleep
    \/ SetActiveCall
    \/ SetInactiveCall
    \/ \E w \in Monitors : AskToUnlock(w)
    \/ \E status \in Presences : StatusChanged(status)
    \/ PresenceVanished

Settings == PrefsChanged \/ PamChanged

Timers ==
    \/ IdleCb
    \/ FadeOut
    \/ Unfade
    \/ LockTimeout
    \/ ReleaseGrab
    \/ \E w \in Monitors : WindowDeactivated(w)
    \/ \E c \in Causes : ManagerDeactivated(c)
    \/ \E w \in Monitors : PopupDialogIdle(w)

Events ==
    \/ \E e, w \in Monitors : Activity(e, w)
    \/ \E w \in Monitors, atPointer \in BOOLEAN : MapEvent(w, atPointer)
    \/ \E w \in Monitors, accepted \in BOOLEAN : DialogDone(w, accepted)
    \/ \E m, w \in Monitors : MonitorAdded(m, w)
    \/ \E m, w \in Monitors : MonitorRemoved(m, w)

Next == Bus \/ Settings \/ Timers \/ Events

Spec == Init /\ [][Next]_vars

(* The main loop dispatches every ready source: an armed timer or a queued *)
(* idle source runs in the end.  Nothing is assumed about users, callers,  *)
(* settings or monitors.  The disjunctions are weak fairness too: these    *)
(* actions are enabled exactly by their guards and always change something.*)
Ripe(w) ==
    w \in screen.deact /\ passes["password"] + passes["unlocked"] < MaxPasses

Fairness ==
    /\ WF_vars(IdleCb)
    /\ []<>(fade # "fading") \/ []<><<FadeOut>>_vars
    /\ []<>~manager.unfadeTimer \/ []<><<Unfade>>_vars
    /\ []<>~manager.lockTimer \/ []<><<LockTimeout>>_vars
    /\ \A w \in Monitors :
         []<>~Ripe(w) \/ []<><<WindowDeactivated(w)>>_vars
    /\ \A c \in Causes :
         []<>(passes[c] = 0) \/ []<><<ManagerDeactivated(c)>>_vars

FairSpec == Spec /\ Fairness

-----------------------------------------------------------------------------
(* Properties *)

Down ==
    /\ ~manager.lock
    /\ ~manager.lockTimer
    /\ ~manager.unfadeTimer
    /\ screen.shown = {}
    /\ ~screen.managerUp

(* Four objects keep a copy of "the screensaver is active" and set each    *)
(* other's through signals that may be refused: they agree after every     *)
(* callback, and nothing of an activation survives it (no lock, no timer,  *)
(* no window, no dialog).                                                  *)
InSync ==
    /\ listener.active = manager.active
    /\ listener.idle = manager.active
    /\ watcher.active = ~manager.active
    /\ watcher.notice => watcher.active
    /\ ~manager.active => Down
    /\ OnlyOfWindows(screen)

(* While active there is a window over every connected monitor, however    *)
(* monitors come and go (monitor_added_cb, monitor_removed_cb), and every  *)
(* window asks for the password exactly if the manager is locked.          *)
EveryMonitorShielded ==
    /\ manager.active => screen.shown = monitors
    /\ screen.locked = IF manager.lock THEN screen.shown ELSE {}

(* At most one window has the dialog or is about to, however activity,     *)
(* calls, responses and monitors interleave; the other windows are deaf,   *)
(* so that activity on them asks for no second one; and there is a dialog  *)
(* only under a lock.                                                      *)
OneDialog == SingleDialog(screen) /\ screen.up \subseteq screen.locked

Queued == screen.deact # {} \/ \E c \in Causes : passes[c] > 0

(* While the screensaver is active the keyboard is grabbed by the root     *)
(* window or a shield, never by the notice's offscreen window; when the    *)
(* monitor of the grabbing window goes away, the grab moves on or the      *)
(* screensaver is about to end.                                            *)
GrabHeld ==
    manager.active =>
        \/ screen.grab \in screen.shown \cup {RootGrab}
        \/ screen.grab = NoGrab /\ Queued

(* While a lock lasts that began with no deactivation on its way, only an  *)
(* accepted password puts one on its way.                                  *)
OnlyPasswordsQueued ==
    clean => /\ manager.lock
             /\ screen.deact \subseteq screen.vouched
             /\ passes["unlocked"] = 0

(* A queued deactivation that ends such a lock comes from a password.      *)
LockEndsOnPassword ==
    [][clean /\ ~manager.lock' /\ passes' # passes
         => passes'["password"] < passes["password"]]_vars

(* The lock is never lifted under a shield that stays up: not by a change  *)
(* of the preferences, nor by a timer or a monitor.                        *)
LockEndsWithShield ==
    [][manager.lock /\ ~manager.lock' => ~manager.active']_vars

(* The screen never stays dark: the notice's fade is undone by the end of  *)
(* the notice or half a second after the windows are shown.                *)
ScreenLightsUp == (fade # "bright") ~> (fade = "bright")

(* An accepted password takes the screensaver down, unless its window is   *)
(* destroyed with its monitor before the idle source runs.                 *)
PasswordUnlocks ==
    \A w \in Monitors :
        (w \in screen.vouched) ~> (~manager.active \/ w \notin monitors)

(* An active screensaver with locking enabled and its lock timer running   *)
(* locks, unless it ends or locking is disabled first.                     *)
LockTimerLocks ==
    (manager.active /\ manager.lockEnabled /\ manager.lockTimer)
        ~> (manager.lock \/ ~manager.active \/ ~manager.lockEnabled)

(* Whatever meets it, the fade ends, the password unlocks and the timer    *)
(* locks.                                                                  *)
NothingHangs == ScreenLightsUp /\ PasswordUnlocks /\ LockTimerLocks

(* The screen lock without its windows and objects (ScreenLock.tla)        *)
Abstract == INSTANCE ScreenLock WITH
    phase <- IF ~manager.active THEN "off"
             ELSE IF manager.lock THEN "locked" ELSE "shielded",
    sealed <- clean,
    keys <- passes["password"],
    stale <- passes["unlocked"]

(* Every callback of the main loop is a step of that screen lock: a sealed *)
(* lock is ended by a password or by a call, never by anything queued      *)
(* before it, and never turns into a shield that asks for nothing.         *)
ImplementsScreenLock == Abstract!Spec

(* gf-watcher.c:230 calls a status that is not idle "no change in          *)
(* idleness" when no notice is in effect: the idle timer would then have   *)
(* to be off, so that the watcher turns idle only with the session.        *)
IdleOnlyWithSession ==
    [][~watcher.idle /\ watcher.idle' => presence # "available"]_vars
=============================================================================
