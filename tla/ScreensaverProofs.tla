-------------------------- MODULE ScreensaverProofs --------------------------
(***************************************************************************)
(* Proofs about module Screensaver, for any set of monitors, any delays,   *)
(* preferences and bound on the queue.                                     *)
(***************************************************************************)
EXTENDS Screensaver, TLAPS

-----------------------------------------------------------------------------
(* The methods of the windows and of the manager keep the type of the      *)
(* screen (GfManager.tla).                                                 *)

(* window_dialog_up_cb                                                     *)
LEMMA DialogUpType ==
    ASSUME NEW s \in Screens, NEW w \in Monitors
    PROVE  DialogUp(s, w) \in Screens /\ DialogDown(s) \in Screens
BY DEF DialogUp, DialogDown, Screens, Grabs

(* gf_manager_request_unlock                                               *)
LEMMA RequestUnlockType ==
    ASSUME NEW s \in Screens, NEW w \in Monitors
    PROVE  RequestUnlock(s, w) \in Screens
<1>1. DialogUp(s, w) \in Screens
  BY DialogUpType
<1>2. [DialogUp(s, w) EXCEPT !.popup = @ \cup {w}, !.up = @ \cup {w}] \in Screens
  BY <1>1 DEF Screens
<1>3. [s EXCEPT !.deact = @ \cup {w}] \in Screens
  BY SMTT(60) DEF Screens
<1>4. QED
  BY <1>2, <1>3 DEF RequestUnlock, WindowRequestUnlock

(* gf_window_cancel_unlock_request                                         *)
LEMMA CancelAllType ==
    ASSUME NEW s \in Screens
    PROVE  CancelAll(s) \in Screens
BY DEF CancelAll, DialogDown, Screens

(* popdown_dialog and unlock_dialog_response_cb                            *)
LEMMA DialogResponseType ==
    ASSUME NEW s \in Screens, NEW w \in Monitors, NEW accepted \in BOOLEAN
    PROVE  DialogResponse(s, w, accepted) \in Screens
<1> DEFINE d == IF w \in s.up THEN DialogDown(s) ELSE s
           t == Popdown(s, w)
<1>1. d \in Screens
  BY DialogUpType
<1>2. t = [d EXCEPT !.up = @ \ {w}, !.dialog = @ \ {w}]
  BY DEF Popdown
<1> HIDE DEF d
<1>3. t \in Screens
  BY <1>1, <1>2, ZenonT(60) DEF Screens
<1> DEFINE u == [t EXCEPT !.deact = @ \cup {w},
                          !.vouched = IF w \in s.deact THEN @ ELSE @ \cup {w}]
<1>4. DialogResponse(s, w, accepted) = IF accepted THEN u ELSE t
  BY DEF DialogResponse
<1> HIDE DEF t
<1>5. u \in Screens
  BY <1>3 DEF Screens
<1> HIDE DEF u
<1>6. QED
  BY <1>3, <1>4, <1>5

(* create_window_for_monitor and gf_manager_set_lock_active                *)
LEMMA AddWindowsType ==
    ASSUME NEW s \in Screens, NEW ms \in SUBSET Monitors, NEW lock \in BOOLEAN
    PROVE  AddWindows(s, ms, lock) \in Screens /\ LockWindows(s, lock) \in Screens
<1>1. AddWindows(s, ms, lock) \in Screens
  BY DEF AddWindows, Screens
<1>2. LockWindows(s, lock) \in Screens
  BY DEF LockWindows, Screens
<1>3. QED
  BY <1>1, <1>2

(* gf_window_finalize and popup_dialog                                     *)
LEMMA WindowType ==
    ASSUME NEW s \in Screens, NEW m \in Monitors
    PROVE  DestroyWindow(s, m) \in Screens /\ PopupDialog(s, m) \in Screens
<1>1. DestroyWindow(s, m) \in Screens
  <2> DEFINE g == IF s.grab = m THEN NoGrab ELSE s.grab
  <2>1. g \in Grabs
    BY DEF Screens, Grabs
  <2> HIDE DEF g
  <2>2. [s EXCEPT !.shown = @ \ {m}, !.locked = @ \ {m}, !.up = @ \ {m},
                  !.popup = @ \ {m}, !.dialog = @ \ {m}, !.deact = @ \ {m},
                  !.vouched = @ \ {m}, !.deaf = @ \ {m},
                  !.unmapped = @ \ {m}, !.grab = g] \in Screens
    BY <2>1, ZenonT(30) DEF Screens
  <2>3. QED
    BY <2>2, Zenon DEF DestroyWindow, g
<1>2. PopupDialog(s, m) \in Screens
  BY DEF PopupDialog, Screens
<1>3. QED
  BY <1>1, <1>2

-----------------------------------------------------------------------------
(* Type correctness *)

(* The pieces the callbacks share (gf_manager_set_active,                  *)
(* gf_listener_set_active, listener_lock_cb) keep the types of what they   *)
(* assign.                                                                 *)
CoreType ==
    /\ listener \in Listeners
    /\ watcher \in Watchers
    /\ manager \in Managers
    /\ screen \in Screens
    /\ fade \in {"bright", "fading", "dark"}
    /\ clean \in BOOLEAN

LEMMA BareType == Bare(NoGrab) \in Screens
BY DEF Bare, Screens, Grabs

LEMMA WatcherSetActiveType ==
    ASSUME watcher \in Watchers, NEW a \in BOOLEAN
    PROVE  WatcherSetActive(a) \in Watchers
BY DEF WatcherSetActive, Watchers

LEMMA RaiseType ==
    ASSUME TypeOK, NEW lock \in BOOLEAN, Raise(lock)
    PROVE  screen' \in Screens /\ manager' \in Managers /\ fade' = fade
<1>1. [screen EXCEPT !.grab = RootGrab] \in Screens
  BY DEF TypeOK, Screens, Grabs
<1>2. screen' \in Screens
  BY <1>1, AddWindowsType DEF Raise, TypeOK
<1>3. manager' \in Managers
  BY DEF TypeOK, Raise, Managers
<1>4. QED
  BY <1>2, <1>3 DEF Raise

LEMMA ListenerRaiseType ==
    ASSUME TypeOK, NEW lock \in BOOLEAN, ListenerRaise(lock), clean' \in BOOLEAN
    PROVE  CoreType'
<1>1. screen' \in Screens /\ manager' \in Managers /\ fade' = fade
  BY RaiseType DEF ListenerRaise
<1>2. watcher' \in Watchers
  BY WatcherSetActiveType DEF ListenerRaise, TypeOK
<1>3. QED
  BY <1>1, <1>2 DEF CoreType, TypeOK, ListenerRaise, Listeners

LEMMA ListenerNotRaisedType ==
    ASSUME TypeOK, ListenerNotRaised, clean' \in BOOLEAN
    PROVE  CoreType'
BY DEF CoreType, TypeOK, ListenerNotRaised, Listeners

LEMMA ListenerLowerType ==
    ASSUME TypeOK, ListenerLower
    PROVE  CoreType'
<1>1. CASE listener.active /\ manager.active
  <2>1. watcher' \in Watchers
    BY <1>1, WatcherSetActiveType DEF ListenerLower, TypeOK
  <2>2. manager' \in Managers
    BY <1>1, ZenonT(60) DEF ListenerLower, Lower, TypeOK, Managers
  <2>3. screen' \in Screens
    BY <1>1, BareType DEF ListenerLower, Lower
  <2>4. listener' \in Listeners
    <3>1. listener' = [active |-> FALSE, idle |-> FALSE]
      BY <1>1 DEF ListenerLower
    <3>2. QED
      BY <3>1 DEF Listeners
  <2>5. fade' \in {"bright", "fading", "dark"} /\ clean' \in BOOLEAN
    BY <1>1 DEF ListenerLower, Lower
  <2>6. QED
    BY <2>1, <2>2, <2>3, <2>4, <2>5 DEF CoreType
<1>2. CASE ~(listener.active /\ manager.active)
  BY <1>2 DEF CoreType, TypeOK, ListenerLower
<1>3. QED
  BY <1>1, <1>2

LEMMA LockType ==
    ASSUME TypeOK, NEW grabbed \in BOOLEAN, Lock(grabbed)
    PROVE  CoreType'
<1>1. NothingQueued(screen) \in BOOLEAN
  BY DEF NothingQueued
<1>2. CASE manager.active
  <2>1. LockWindows(screen, TRUE) \in Screens
    BY AddWindowsType DEF TypeOK
  <2>2. manager' \in Managers
    BY <1>2 DEF Lock, TypeOK, Managers
  <2>3. QED
    BY <1>1, <1>2, <2>1, <2>2 DEF Lock, CoreType, TypeOK
<1>3. CASE ~manager.active /\ CanRaise(grabbed)
  BY <1>1, <1>3, ListenerRaiseType DEF Lock
<1>4. CASE ~manager.active /\ ~CanRaise(grabbed)
  BY <1>4, ListenerNotRaisedType DEF Lock, TypeOK
<1>5. QED
  BY <1>2, <1>3, <1>4

(* Every callback keeps the types.                                         *)
LEMMA TypeStep == TypeOK /\ [Next]_vars => TypeOK'
<1> SUFFICES ASSUME TypeOK, [Next]_vars
             PROVE  TypeOK'
  OBVIOUS
<1>0. CoreType
  BY DEF TypeOK, CoreType
<1>1. ASSUME CoreType', UNCHANGED <<releaseTimer, passes, world>>
      PROVE  TypeOK'
  BY <1>1 DEF TypeOK, CoreType, world
<1>2. CASE LockCall
  <2>1. PICK grabbed \in BOOLEAN :
          /\ IF MayLock THEN Lock(grabbed)
             ELSE UNCHANGED <<listener, watcher, manager, screen, fade, clean>>
          /\ UNCHANGED <<releaseTimer, passes, world>>
    BY <1>2 DEF LockCall
  <2>2. CoreType'
    BY <2>1, <1>0, LockType DEF CoreType
  <2>3. QED
    BY <2>1, <2>2, <1>1
<1>3. CASE SetActiveCall
  <2>1. PICK grabbed \in BOOLEAN :
          /\ IF CanRaise(grabbed) THEN ListenerRaise(manager.lock)
             ELSE ListenerNotRaised
          /\ UNCHANGED <<releaseTimer, passes, clean, world>>
    BY <1>3 DEF SetActiveCall
  <2>2. manager.lock \in BOOLEAN /\ clean' \in BOOLEAN
    BY <2>1 DEF TypeOK, Managers
  <2>3. CoreType'
    BY <2>1, <2>2, ListenerRaiseType, ListenerNotRaisedType
  <2>4. QED
    BY <2>1, <2>3, <1>1
<1>4. CASE SetInactiveCall
  BY <1>4, <1>1, ListenerLowerType DEF SetInactiveCall
<1>5. ASSUME NEW w \in Monitors, AskToUnlock(w)
      PROVE  TypeOK'
  <2>1. screen' \in Screens
    BY <1>5, RequestUnlockType DEF AskToUnlock, TypeOK
  <2>2. QED
    BY <2>1, <1>0, <1>1, <1>5 DEF AskToUnlock, CoreType
<1>6. ASSUME NEW status \in Presences, StatusChanged(status)
      PROVE  TypeOK'
  <2>1. PICK grabbed \in BOOLEAN, faded \in BOOLEAN :
          StatusChangedCb(status = "idle", grabbed, faded)
    BY <1>6 DEF StatusChanged
  <2>2. listener' \in Listeners
    BY <2>1 DEF StatusChangedCb, TypeOK, Listeners
  <2>3. watcher' \in Watchers
    BY <2>1, ZenonT(60) DEF StatusChangedCb, TypeOK, Watchers, Listeners, Managers
  <2>4. screen' \in Screens
    BY <2>1 DEF StatusChangedCb, TypeOK, Screens, Grabs
  <2>5. fade' \in {"bright", "fading", "dark"} /\ releaseTimer' \in BOOLEAN
    BY <2>1 DEF StatusChangedCb, EndNotice, TypeOK
  <2>6. QED
    BY <1>6, <2>2, <2>3, <2>4, <2>5 DEF StatusChanged, TypeOK
<1>7. CASE PresenceVanished
  BY <1>7 DEF PresenceVanished, code, TypeOK, Presences
<1>8. CASE PrefsChanged
  <2>1. PICK late \in BOOLEAN, p \in Prefs :
          prefs' = p /\ UpdateFromPrefs(p, late)
    BY <1>8, PrefChoicesAssumption DEF PrefsChanged
  <2>2. manager' \in Managers
    <3> DEFINE enabled == p.lockEnabled /\ ~p.lockDisabled /\ pam
               rearm == /\ manager.lockTimeout # p.lockDelay
                        /\ manager.active /\ ~manager.lock
               timer == IF rearm THEN ~late ELSE manager.lockTimer
               lock == manager.lock \/ (rearm /\ late /\ enabled)
    <3>1. manager' = [manager EXCEPT !.lockEnabled = enabled,
                                     !.lockTimeout = p.lockDelay,
                                     !.lockTimer = timer, !.lock = lock]
      BY <2>1 DEF UpdateFromPrefs
    <3>2. /\ enabled \in BOOLEAN /\ timer \in BOOLEAN /\ lock \in BOOLEAN
          /\ p.lockDelay \in Delays
      BY DEF TypeOK, Managers, Prefs
    <3> HIDE DEF enabled, timer, lock
    <3>3. QED
      BY <3>1, <3>2 DEF TypeOK, Managers
  <2>3. screen' \in Screens
    BY <2>1, AddWindowsType DEF UpdateFromPrefs, TypeOK
  <2>4. watcher' \in Watchers
    BY <2>1, WatcherSetActiveType DEF UpdateFromPrefs, TypeOK
  <2>5. clean' \in BOOLEAN
    BY <2>1 DEF UpdateFromPrefs, TypeOK, NothingQueued
  <2>6. QED
    BY <1>8, <2>1, <2>2, <2>3, <2>4, <2>5 DEF PrefsChanged, TypeOK
<1>9. CASE PamChanged
  BY <1>9, PamStatesAssumption DEF PamChanged, code, TypeOK
<1>10. CASE IdleCb
  <2>1. PICK grabbed \in BOOLEAN :
        IF ~watcher.idle /\ ~listener.idle /\ CanRaise(grabbed)
        THEN /\ Raise(manager.lock)
             /\ listener' = [active |-> TRUE, idle |-> TRUE]
             /\ watcher' = [WatcherSetActive(FALSE) EXCEPT !.idle = TRUE,
                                                           !.timer = FALSE]
             /\ UNCHANGED releaseTimer
        ELSE /\ EndNotice
             /\ watcher' = [watcher EXCEPT !.notice = @ /\ manager.active]
             /\ UNCHANGED <<listener, manager, screen>>
    BY <1>10 DEF IdleCb
  <2>2. CASE ~watcher.idle /\ ~listener.idle /\ CanRaise(grabbed)
    <3>1. manager.lock \in BOOLEAN /\ WatcherSetActive(FALSE) \in Watchers
      BY WatcherSetActiveType DEF TypeOK, Managers
    <3>2. Raise(manager.lock)
      BY <2>1, <2>2
    <3>3. screen' \in Screens /\ manager' \in Managers /\ fade' = fade
      BY <3>1, <3>2, RaiseType
    <3>4. watcher' \in Watchers
      BY <2>1, <2>2, <3>1 DEF Watchers
    <3>5. listener' \in Listeners
      <4>1. listener' = [active |-> TRUE, idle |-> TRUE]
        BY <2>1, <2>2
      <4>2. QED
        BY <4>1 DEF Listeners
    <3>6. QED
      BY <1>10, <2>1, <2>2, <3>3, <3>4, <3>5 DEF IdleCb, TypeOK, world
  <2>3. CASE ~(~watcher.idle /\ ~listener.idle /\ CanRaise(grabbed))
    <3>1. watcher' \in Watchers
      BY <2>1, <2>3 DEF TypeOK, Watchers, Managers
    <3>2. fade' \in {"bright", "fading", "dark"} /\ releaseTimer' \in BOOLEAN
      BY <2>1, <2>3 DEF EndNotice, TypeOK
    <3>3. UNCHANGED <<listener, manager, screen>>
      BY <2>1, <2>3
    <3>4. QED
      BY <1>10, <3>1, <3>2, <3>3 DEF IdleCb, TypeOK, world
  <2>4. QED
    BY <2>2, <2>3
<1>11. CASE FadeOut
  BY <1>11 DEF FadeOut, TypeOK, world
<1>12. CASE Unfade
  BY <1>12 DEF Unfade, TypeOK, world, Managers
<1>13. CASE LockTimeout
  <2>1. manager' \in Managers
    BY <1>13 DEF LockTimeout, TypeOK, Managers
  <2>2. screen' \in Screens
    BY <1>13, AddWindowsType DEF LockTimeout, TypeOK
  <2>3. clean' \in BOOLEAN
    BY <1>13 DEF LockTimeout, TypeOK, NothingQueued
  <2>4. QED
    BY <1>13, <2>1, <2>2, <2>3 DEF LockTimeout, TypeOK, world
<1>14. CASE ReleaseGrab
  <2>1. screen' \in Screens
    BY <1>14 DEF ReleaseGrab, TypeOK, Screens, Grabs
  <2>2. QED
    BY <1>14, <2>1 DEF ReleaseGrab, TypeOK, world
<1>15. ASSUME NEW w \in Monitors, WindowDeactivated(w)
       PROVE  TypeOK'
  <2>1. screen' \in Screens
    BY <1>15 DEF WindowDeactivated, TypeOK, Screens
  <2>2. passes' \in [Causes -> Nat]
    BY <1>15 DEF WindowDeactivated, TypeOK, Causes
  <2>3. QED
    BY <1>15, <2>1, <2>2 DEF WindowDeactivated, TypeOK, world
<1>16. ASSUME NEW c \in Causes, ManagerDeactivated(c)
       PROVE  TypeOK'
  <2>1. passes' \in [Causes -> Nat]
    BY <1>16 DEF ManagerDeactivated, TypeOK
  <2>2. CoreType'
    BY <1>16, ListenerLowerType DEF ManagerDeactivated
  <2>3. QED
    BY <1>16, <2>1, <2>2 DEF ManagerDeactivated, TypeOK, CoreType, world
<1>17. ASSUME NEW w \in Monitors, PopupDialogIdle(w)
       PROVE  TypeOK'
  <2>1. screen' \in Screens
    BY <1>17, WindowType DEF PopupDialogIdle, TypeOK
  <2>2. QED
    BY <1>17, <2>1 DEF PopupDialogIdle, TypeOK, world
<1>18. ASSUME NEW e \in Monitors, NEW w \in Monitors, Activity(e, w)
       PROVE  TypeOK'
  BY <1>18, <1>5 DEF Activity
<1>19. ASSUME NEW w \in Monitors, NEW atPointer \in BOOLEAN,
              MapEvent(w, atPointer)
       PROVE  TypeOK'
  <2>1. screen' \in Screens
    BY <1>19 DEF MapEvent, TypeOK, Screens, Grabs
  <2>2. QED
    BY <1>19, <2>1 DEF MapEvent, TypeOK, world
<1>20. ASSUME NEW w \in Monitors, NEW accepted \in BOOLEAN,
              DialogDone(w, accepted)
       PROVE  TypeOK'
  <2>1. screen' \in Screens
    BY <1>20, DialogResponseType DEF DialogDone, TypeOK
  <2>2. QED
    BY <1>20, <2>1 DEF DialogDone, TypeOK, world
<1>21. ASSUME NEW m \in Monitors, NEW w \in Monitors, MonitorAdded(m, w)
       PROVE  TypeOK'
  <2>1. AddWindows(CancelAll(screen), {m}, manager.lock) \in Screens
    BY CancelAllType, AddWindowsType DEF TypeOK, Managers
  <2>2. screen' \in Screens
    BY <1>21, <2>1, RequestUnlockType DEF MonitorAdded, TypeOK
  <2>3. manager' \in Managers
    BY <1>21 DEF MonitorAdded, TypeOK, Managers
  <2>4. QED
    BY <1>21, <2>2, <2>3 DEF MonitorAdded, TypeOK
<1>22. ASSUME NEW m \in Monitors, NEW w \in Monitors, MonitorRemoved(m, w)
       PROVE  TypeOK'
  <2>1. DestroyWindow(CancelAll(screen), m) \in Screens
    BY CancelAllType, WindowType DEF TypeOK
  <2>2. screen' \in Screens
    BY <1>22, <2>1, RequestUnlockType DEF MonitorRemoved, TypeOK
  <2>3. QED
    BY <1>22, <2>2 DEF MonitorRemoved, TypeOK
<1>23. CASE UNCHANGED vars
  BY <1>23 DEF vars, code, world, TypeOK
<1>24. QED
  BY <1>2, <1>3, <1>4, <1>5, <1>6, <1>7, <1>8, <1>9, <1>10, <1>11, <1>12,
     <1>13, <1>14, <1>15, <1>16, <1>17, <1>18, <1>19, <1>20, <1>21, <1>22, <1>23
  DEF Next, Bus, Settings, Timers, Events, PrepareForSleep

(* The variables keep their types for every set of monitors and every      *)
(* choice of preferences.                                                  *)
THEOREM TypeCorrect == Spec => []TypeOK
<1>1. Init => TypeOK
  <2> SUFFICES ASSUME Init PROVE TypeOK
    OBVIOUS
  <2>1. prefs \in Prefs /\ pam \in BOOLEAN
    BY PrefChoicesAssumption, PamStatesAssumption DEF Init
  <2>2. screen \in Screens
    BY BareType DEF Init
  <2>3. manager \in Managers
    BY <2>1 DEF Init, Managers, Prefs
  <2>4. listener \in Listeners /\ watcher \in Watchers
    BY DEF Init, Listeners, Watchers
  <2>5. passes \in [Causes -> Nat]
    BY DEF Init
  <2>6. QED
    BY <2>1, <2>2, <2>3, <2>4, <2>5 DEF Init, TypeOK, Presences
<1>2. QED
  BY <1>1, TypeStep, PTL DEF Spec

-----------------------------------------------------------------------------
(* Agreement of the four objects *)

LEMMA WatcherSetActiveEffect ==
    ASSUME TypeOK, InSync, NEW a \in BOOLEAN
    PROVE  /\ WatcherSetActive(a) \in Watchers
           /\ WatcherSetActive(a).active = a
           /\ WatcherSetActive(a).notice => a
BY DEF WatcherSetActive, Watchers, TypeOK, InSync, Listeners, Managers

(* What the operators of GfManager.tla leave of the windows                *)
LEMMA RequestUnlockEffect ==
    ASSUME NEW s \in Screens, NEW w \in s.shown, OnlyOfWindows(s)
    PROVE  /\ OnlyOfWindows(RequestUnlock(s, w))
           /\ RequestUnlock(s, w).shown = s.shown
           /\ RequestUnlock(s, w).locked = s.locked
<1>1. DialogUp(s, w) \in Screens
  BY DialogUpType DEF Screens
<1>2. /\ DialogUp(s, w).shown = s.shown /\ DialogUp(s, w).locked = s.locked
      /\ DialogUp(s, w).up = s.up /\ DialogUp(s, w).popup = s.popup
      /\ DialogUp(s, w).dialog = s.dialog /\ DialogUp(s, w).deact = s.deact
      /\ DialogUp(s, w).vouched = s.vouched
      /\ DialogUp(s, w).unmapped = s.unmapped
      /\ DialogUp(s, w).deaf = s.deaf \cup (s.shown \ {w})
  BY DEF DialogUp, Screens
<1> DEFINE t == [DialogUp(s, w) EXCEPT !.popup = @ \cup {w}, !.up = @ \cup {w}]
           u == [s EXCEPT !.deact = @ \cup {w}]
<1>3. OnlyOfWindows(t) /\ t.shown = s.shown /\ t.locked = s.locked
  BY <1>1, <1>2 DEF OnlyOfWindows, Screens
<1>4. OnlyOfWindows(u) /\ u.shown = s.shown /\ u.locked = s.locked
  BY DEF OnlyOfWindows, Screens
<1>5. QED
  BY <1>3, <1>4 DEF RequestUnlock, WindowRequestUnlock

LEMMA WindowsEffect ==
    ASSUME NEW s \in Screens, OnlyOfWindows(s), NEW lock \in BOOLEAN,
           NEW ms \in SUBSET Monitors
    PROVE  /\ OnlyOfWindows(AddWindows(s, ms, lock))
           /\ AddWindows(s, ms, lock).shown = s.shown \cup ms
           /\ OnlyOfWindows(LockWindows(s, lock))
           /\ LockWindows(s, lock).shown = s.shown
           /\ OnlyOfWindows(CancelAll(s))
           /\ CancelAll(s).shown = s.shown
           /\ CancelAll(s).locked = s.locked
<1>1. OnlyOfWindows(AddWindows(s, ms, lock))
      /\ AddWindows(s, ms, lock).shown = s.shown \cup ms
  BY DEF AddWindows, OnlyOfWindows, Screens
<1>2. OnlyOfWindows(LockWindows(s, lock)) /\ LockWindows(s, lock).shown = s.shown
  BY DEF LockWindows, OnlyOfWindows, Screens
<1>3. OnlyOfWindows(CancelAll(s)) /\ CancelAll(s).shown = s.shown
      /\ CancelAll(s).locked = s.locked
  BY DEF CancelAll, DialogDown, OnlyOfWindows, Screens
<1>4. QED
  BY <1>1, <1>2, <1>3

LEMMA WindowEffect ==
    ASSUME NEW s \in Screens, OnlyOfWindows(s), NEW w \in s.shown,
           NEW accepted \in BOOLEAN
    PROVE  /\ OnlyOfWindows(DestroyWindow(s, w))
           /\ DestroyWindow(s, w).shown = s.shown \ {w}
           /\ DestroyWindow(s, w).locked = s.locked \ {w}
           /\ OnlyOfWindows(PopupDialog(s, w))
           /\ PopupDialog(s, w).shown = s.shown
           /\ PopupDialog(s, w).locked = s.locked
           /\ OnlyOfWindows(DialogResponse(s, w, accepted))
           /\ DialogResponse(s, w, accepted).shown = s.shown
           /\ DialogResponse(s, w, accepted).locked = s.locked
<1>1. OnlyOfWindows(DestroyWindow(s, w))
      /\ DestroyWindow(s, w).shown = s.shown \ {w}
      /\ DestroyWindow(s, w).locked = s.locked \ {w}
  BY DEF DestroyWindow, OnlyOfWindows, Screens
<1>2. OnlyOfWindows(PopupDialog(s, w)) /\ PopupDialog(s, w).shown = s.shown
      /\ PopupDialog(s, w).locked = s.locked
  BY DEF PopupDialog, OnlyOfWindows, Screens
<1> DEFINE t == Popdown(s, w)
<1>3. t \in Screens /\ OnlyOfWindows(t) /\ t.shown = s.shown /\ t.locked = s.locked
      /\ t.deact = s.deact /\ t.vouched = s.vouched
  <2> DEFINE d == IF w \in s.up THEN DialogDown(s) ELSE s
  <2>1. /\ d \in Screens /\ OnlyOfWindows(d) /\ d.shown = s.shown
        /\ d.locked = s.locked /\ d.deact = s.deact /\ d.vouched = s.vouched
    BY DEF DialogDown, OnlyOfWindows, Screens
  <2>2. t = [d EXCEPT !.up = @ \ {w}, !.dialog = @ \ {w}]
    BY DEF Popdown
  <2> HIDE DEF d, t
  <2>3. QED
    BY <2>1, <2>2 DEF OnlyOfWindows, Screens
<1> DEFINE u == [t EXCEPT !.deact = @ \cup {w},
                          !.vouched = IF w \in s.deact THEN @ ELSE @ \cup {w}]
<1>4. DialogResponse(s, w, accepted) = IF accepted THEN u ELSE t
  BY DEF DialogResponse
<1> HIDE DEF t
<1>5. OnlyOfWindows(u) /\ u.shown = s.shown /\ u.locked = s.locked
  BY <1>3 DEF OnlyOfWindows, Screens
<1> HIDE DEF u
<1>6. OnlyOfWindows(DialogResponse(s, w, accepted))
      /\ DialogResponse(s, w, accepted).shown = s.shown
      /\ DialogResponse(s, w, accepted).locked = s.locked
  BY <1>3, <1>4, <1>5
<1>7. QED
  BY <1>1, <1>2, <1>6

-----------------------------------------------------------------------------
(* The shared pieces keep the agreement.                                   *)

LEMMA ListenerRaiseSync ==
    ASSUME TypeOK, InSync, NEW lock \in BOOLEAN, ListenerRaise(lock)
    PROVE  /\ InSync'
           /\ screen' = AddWindows([screen EXCEPT !.grab = RootGrab], monitors, lock)
<1>1. manager'.active = TRUE
  BY DEF ListenerRaise, Raise, TypeOK, Managers
<1>2. listener'.active = TRUE /\ listener'.idle = TRUE
  BY DEF ListenerRaise
<1>3. watcher'.active = FALSE /\ ~watcher'.notice
  BY WatcherSetActiveEffect DEF ListenerRaise
<1> DEFINE s == [screen EXCEPT !.grab = RootGrab]
<1>4. s \in Screens /\ OnlyOfWindows(s)
  BY DEF TypeOK, InSync, OnlyOfWindows, Screens, Grabs
<1>5. screen' = AddWindows(s, monitors, lock)
  BY DEF ListenerRaise, Raise
<1>6. OnlyOfWindows(screen')
  BY <1>4, <1>5, WindowsEffect DEF TypeOK
<1>7. QED
  BY <1>1, <1>2, <1>3, <1>5, <1>6 DEF InSync

LEMMA ListenerNotRaisedSync ==
    ASSUME TypeOK, InSync, ListenerNotRaised
    PROVE  InSync'
<1>1. listener' = listener
  BY DEF ListenerNotRaised, InSync, TypeOK, Listeners, Managers
<1>2. QED
  BY <1>1 DEF InSync, Down, ListenerNotRaised

LEMMA ListenerLowerSync ==
    ASSUME TypeOK, InSync, ListenerLower
    PROVE  InSync'
<1>1. CASE listener.active /\ manager.active
  <2>1. Lower /\ listener' = [active |-> FALSE, idle |-> FALSE]
        /\ watcher' = WatcherSetActive(TRUE)
    BY <1>1 DEF ListenerLower
  <2>2. ~manager'.active /\ ~manager'.lock /\ ~manager'.lockTimer
        /\ ~manager'.unfadeTimer
    BY <2>1 DEF Lower, TypeOK, Managers
  <2>3. screen'.shown = {} /\ ~screen'.managerUp /\ OnlyOfWindows(screen')
    BY <2>1 DEF Lower, Bare, OnlyOfWindows
  <2>4. watcher'.active = TRUE
    BY <2>1, WatcherSetActiveEffect
  <2>5. manager'.active = FALSE
    BY <2>1 DEF Lower, TypeOK, Managers
  <2>6. listener'.active = FALSE /\ listener'.idle = FALSE
    BY <2>1
  <2>7. QED
    BY <2>2, <2>3, <2>4, <2>5, <2>6 DEF InSync, Down
<1>2. CASE ~(listener.active /\ manager.active)
  BY <1>2 DEF ListenerLower, InSync, Down
<1>3. QED
  BY <1>1, <1>2

(* A callback that changes only the screen or a timer of an active         *)
(* screensaver                                                             *)
LEMMA ActiveSync ==
    ASSUME TypeOK, InSync, manager.active, UNCHANGED <<listener, watcher>>,
           manager'.active = manager.active, OnlyOfWindows(screen')
    PROVE  InSync'
BY DEF InSync, TypeOK, Managers

LEMMA LockSync ==
    ASSUME TypeOK, InSync, NEW grabbed \in BOOLEAN, Lock(grabbed)
    PROVE  InSync'
<1>1. CASE manager.active
  <2>1. manager'.active = manager.active
    BY <1>1 DEF Lock, TypeOK, Managers
  <2>2. OnlyOfWindows(LockWindows(screen, TRUE))
    BY WindowsEffect DEF TypeOK, InSync
  <2>3. OnlyOfWindows(screen')
    BY <1>1, <2>2 DEF Lock, InSync
  <2>4. UNCHANGED <<listener, watcher>>
    BY <1>1 DEF Lock
  <2>5. QED
    BY <1>1, <2>1, <2>3, <2>4, ActiveSync
<1>2. CASE ~manager.active /\ CanRaise(grabbed)
  BY <1>2, ListenerRaiseSync DEF Lock
<1>3. CASE ~manager.active /\ ~CanRaise(grabbed)
  BY <1>3, ListenerNotRaisedSync DEF Lock
<1>4. QED
  BY <1>1, <1>2, <1>3

(* A callback that leaves the screen's windows alone                       *)
LEMMA SameWindows ==
    ASSUME TypeOK, NEW g, OnlyOfWindows(screen)
    PROVE  /\ OnlyOfWindows([screen EXCEPT !.grab = g])
           /\ [screen EXCEPT !.grab = g].shown = screen.shown
           /\ [screen EXCEPT !.grab = g].managerUp = screen.managerUp
BY DEF TypeOK, Screens, OnlyOfWindows

LEMMA SyncStep == TypeOK /\ InSync /\ [Next]_vars => InSync'
<1> SUFFICES ASSUME TypeOK, InSync, [Next]_vars
             PROVE  InSync'
  OBVIOUS
<1>1. ASSUME UNCHANGED <<listener, watcher, manager, screen>>
      PROVE  InSync'
  BY <1>1 DEF InSync, Down
<1>2. CASE LockCall
  <2>1. PICK grabbed \in BOOLEAN :
          IF MayLock THEN Lock(grabbed)
          ELSE UNCHANGED <<listener, watcher, manager, screen, fade, clean>>
    BY <1>2 DEF LockCall
  <2>2. QED
    BY <2>1, <1>1, LockSync
<1>3. CASE SetActiveCall
  <2>1. PICK grabbed \in BOOLEAN :
          IF CanRaise(grabbed) THEN ListenerRaise(manager.lock)
          ELSE ListenerNotRaised
    BY <1>3 DEF SetActiveCall
  <2>2. manager.lock \in BOOLEAN
    BY DEF TypeOK, Managers
  <2>3. QED
    BY <2>1, <2>2, ListenerRaiseSync, ListenerNotRaisedSync
<1>4. CASE SetInactiveCall
  BY <1>4, ListenerLowerSync DEF SetInactiveCall
<1>5. ASSUME NEW w \in Monitors, AskToUnlock(w)
      PROVE  InSync'
  <2>1. OnlyOfWindows(RequestUnlock(screen, w))
    BY <1>5, RequestUnlockEffect DEF AskToUnlock, TypeOK, InSync
  <2>2. QED
    BY <1>5, <2>1, ActiveSync DEF AskToUnlock
<1>6. ASSUME NEW status \in Presences, StatusChanged(status)
      PROVE  InSync'
  <2>1. PICK grabbed \in BOOLEAN, faded \in BOOLEAN :
          StatusChangedCb(status = "idle", grabbed, faded)
    BY <1>6 DEF StatusChanged
  <2>2. CASE ~watcher.active \/ (status # "idle" /\ ~watcher.notice)
    BY <2>1, <2>2, <1>6, <1>1 DEF StatusChangedCb, StatusChanged
  <2>3. CASE watcher.active /\ ~(status # "idle" /\ ~watcher.notice)
    <3>1. ~manager.active /\ ~listener.active /\ ~listener.idle
      BY <2>3 DEF InSync
    <3>2. watcher'.active = watcher.active
      <4>1. CASE status = "idle"
        <5>1. watcher' = [watcher EXCEPT !.notice = TRUE, !.timer = TRUE]
          BY <2>1, <2>3, <4>1 DEF StatusChangedCb
        <5>2. QED
          BY <5>1 DEF TypeOK, Watchers
      <4>2. CASE status # "idle"
        <5>1. watcher' = [watcher EXCEPT !.timer = FALSE,
                                         !.idle = @ /\ ~listener.idle,
                                         !.notice = manager.active]
          BY <2>1, <2>3, <4>2 DEF StatusChangedCb
        <5>2. QED
          BY <5>1 DEF TypeOK, Watchers
      <4>3. QED
        BY <4>1, <4>2
    <3>3. listener'.active = listener.active /\ listener'.idle = listener.idle
      <4>1. listener' \in {listener, [listener EXCEPT !.idle = FALSE]}
        BY <2>1, <2>3 DEF StatusChangedCb
      <4>2. QED
        BY <4>1, <3>1 DEF TypeOK, Listeners
    <3>4. /\ screen'.shown = screen.shown /\ screen'.managerUp = screen.managerUp
          /\ OnlyOfWindows(screen')
      <4>1. screen' \in {screen, [screen EXCEPT !.grab = OffscreenGrab]}
        BY <2>1, <2>3 DEF StatusChangedCb
      <4>2. QED
        BY <4>1, SameWindows DEF InSync, TypeOK
    <3>5. manager' = manager
      BY <1>6 DEF StatusChanged
    <3>6. QED
      BY <2>3, <3>1, <3>2, <3>3, <3>4, <3>5 DEF InSync, Down
  <2>4. QED
    BY <2>2, <2>3
<1>7. CASE PresenceVanished
  BY <1>7, <1>1 DEF PresenceVanished, code
<1>8. CASE PrefsChanged
  <2>1. PICK late \in BOOLEAN, p \in PrefChoices : UpdateFromPrefs(p, late)
    BY <1>8 DEF PrefsChanged
  <2>2. watcher' = watcher
    BY <2>1 DEF UpdateFromPrefs, InSync, TypeOK, Managers, Watchers
  <2>3. manager'.active = manager.active
    BY <2>1 DEF UpdateFromPrefs, TypeOK, Managers
  <2>4. OnlyOfWindows(LockWindows(screen, TRUE))
    BY WindowsEffect DEF TypeOK, InSync
  <2>5. CASE manager.active
    <3>1. OnlyOfWindows(screen')
      BY <2>1, <2>4 DEF UpdateFromPrefs, InSync
    <3>2. QED
      BY <1>8, <2>2, <2>3, <2>5, <3>1, ActiveSync DEF PrefsChanged
  <2>6. CASE ~manager.active
    <3>1. screen' = screen
      BY <2>1, <2>6 DEF UpdateFromPrefs
    <3>2. manager'.lock = manager.lock /\ manager'.lockTimer = manager.lockTimer
          /\ manager'.unfadeTimer = manager.unfadeTimer
      BY <2>1, <2>6 DEF UpdateFromPrefs, TypeOK, Managers
    <3>3. QED
      BY <1>8, <2>2, <2>3, <3>1, <3>2 DEF InSync, Down, PrefsChanged
  <2>7. QED
    BY <2>5, <2>6
<1>9. CASE PamChanged
  BY <1>9, <1>1 DEF PamChanged, code
<1>10. CASE IdleCb
  <2>1. PICK grabbed \in BOOLEAN :
        IF ~watcher.idle /\ ~listener.idle /\ CanRaise(grabbed)
        THEN /\ Raise(manager.lock)
             /\ listener' = [active |-> TRUE, idle |-> TRUE]
             /\ watcher' = [WatcherSetActive(FALSE) EXCEPT !.idle = TRUE,
                                                           !.timer = FALSE]
             /\ UNCHANGED releaseTimer
        ELSE /\ EndNotice
             /\ watcher' = [watcher EXCEPT !.notice = @ /\ manager.active]
             /\ UNCHANGED <<listener, manager, screen>>
    BY <1>10 DEF IdleCb
  <2>2. CASE ~watcher.idle /\ ~listener.idle /\ CanRaise(grabbed)
    <3>1. Raise(manager.lock) /\ manager.lock \in BOOLEAN
      BY <2>1, <2>2 DEF TypeOK, Managers
    <3>2. manager'.active = TRUE
      BY <3>1 DEF Raise, TypeOK, Managers
    <3>3. listener'.active = TRUE /\ listener'.idle = TRUE
      BY <2>1, <2>2
    <3>4. watcher'.active = FALSE /\ ~watcher'.notice
      BY <2>1, <2>2, WatcherSetActiveEffect DEF Watchers
    <3> DEFINE s == [screen EXCEPT !.grab = RootGrab]
    <3>5. s \in Screens /\ OnlyOfWindows(s)
      BY DEF TypeOK, InSync, OnlyOfWindows, Screens, Grabs
    <3>6. OnlyOfWindows(screen')
      BY <3>1, <3>5, WindowsEffect DEF TypeOK, Raise
    <3>7. QED
      BY <3>2, <3>3, <3>4, <3>6 DEF InSync
  <2>3. CASE ~(~watcher.idle /\ ~listener.idle /\ CanRaise(grabbed))
    <3>1. watcher'.active = watcher.active /\ (watcher'.notice => watcher.notice)
      BY <2>1, <2>3 DEF TypeOK, Watchers, Managers
    <3>2. UNCHANGED <<listener, manager, screen>>
      BY <2>1, <2>3
    <3>3. QED
      BY <3>1, <3>2 DEF InSync, Down
  <2>4. QED
    BY <2>2, <2>3
<1>11. CASE FadeOut
  BY <1>11, <1>1 DEF FadeOut
<1>12. CASE Unfade
  <2>1. manager.active
    BY <1>12 DEF Unfade, InSync, Down
  <2>2. manager'.active = manager.active
    BY <1>12 DEF Unfade, TypeOK, Managers
  <2>3. QED
    BY <1>12, <2>1, <2>2, ActiveSync DEF Unfade, InSync
<1>13. CASE LockTimeout
  <2>1. manager.active
    BY <1>13 DEF LockTimeout, InSync, Down
  <2>2. manager'.active = manager.active
    BY <1>13 DEF LockTimeout, TypeOK, Managers
  <2>3. OnlyOfWindows(LockWindows(screen, TRUE))
    BY WindowsEffect DEF TypeOK, InSync
  <2>4. OnlyOfWindows(screen')
    BY <1>13, <2>3 DEF LockTimeout, InSync
  <2>5. QED
    BY <1>13, <2>1, <2>2, <2>4, ActiveSync DEF LockTimeout
<1>14. CASE ReleaseGrab
  <2>1. /\ screen'.shown = screen.shown /\ screen'.managerUp = screen.managerUp
        /\ OnlyOfWindows(screen')
    BY <1>14, SameWindows DEF ReleaseGrab, InSync
  <2>2. QED
    BY <1>14, <2>1 DEF ReleaseGrab, InSync, Down
<1>15. ASSUME NEW w \in Monitors, WindowDeactivated(w)
       PROVE  InSync'
  <2>1. w \in screen.shown
    BY <1>15 DEF WindowDeactivated, InSync, OnlyOfWindows
  <2>2. OnlyOfWindows(screen')
    BY <1>15 DEF WindowDeactivated, InSync, OnlyOfWindows, TypeOK, Screens
  <2>3. manager.active
    BY <2>1 DEF InSync, Down
  <2>4. QED
    BY <1>15, <2>2, <2>3, ActiveSync DEF WindowDeactivated
<1>16. ASSUME NEW c \in Causes, ManagerDeactivated(c)
       PROVE  InSync'
  BY <1>16, ListenerLowerSync DEF ManagerDeactivated
<1>17. ASSUME NEW w \in Monitors, PopupDialogIdle(w)
       PROVE  InSync'
  <2>1. w \in screen.shown
    BY <1>17 DEF PopupDialogIdle, InSync, OnlyOfWindows
  <2>2. OnlyOfWindows(screen')
    BY <1>17, <2>1, WindowEffect DEF PopupDialogIdle, InSync, TypeOK
  <2>3. manager.active
    BY <2>1 DEF InSync, Down
  <2>4. QED
    BY <1>17, <2>2, <2>3, ActiveSync DEF PopupDialogIdle
<1>18. ASSUME NEW e \in Monitors, NEW w \in Monitors, Activity(e, w)
       PROVE  InSync'
  BY <1>18, <1>5 DEF Activity
<1>19. ASSUME NEW w \in Monitors, NEW atPointer \in BOOLEAN,
              MapEvent(w, atPointer)
       PROVE  InSync'
  <2>1. w \in screen.shown
    BY <1>19 DEF MapEvent, InSync, OnlyOfWindows
  <2>2. OnlyOfWindows(screen')
    BY <1>19 DEF MapEvent, InSync, OnlyOfWindows, TypeOK, Screens
  <2>3. manager.active
    BY <2>1 DEF InSync, Down
  <2>4. QED
    BY <1>19, <2>2, <2>3, ActiveSync DEF MapEvent
<1>20. ASSUME NEW w \in Monitors, NEW accepted \in BOOLEAN,
              DialogDone(w, accepted)
       PROVE  InSync'
  <2>1. w \in screen.shown
    BY <1>20 DEF DialogDone, InSync, OnlyOfWindows
  <2>2. OnlyOfWindows(screen')
    BY <1>20, <2>1, WindowEffect DEF DialogDone, InSync, TypeOK
  <2>3. manager.active
    BY <2>1 DEF InSync, Down
  <2>4. QED
    BY <1>20, <2>2, <2>3, ActiveSync DEF DialogDone
<1>21. ASSUME NEW m \in Monitors, NEW w \in Monitors, MonitorAdded(m, w)
       PROVE  InSync'
  <2>1. CASE manager.active
    <3> DEFINE s == CancelAll(screen)
               t == AddWindows(s, {m}, manager.lock)
    <3>1. s \in Screens /\ OnlyOfWindows(s) /\ manager.lock \in BOOLEAN
      BY CancelAllType, WindowsEffect DEF TypeOK, InSync, Managers
    <3>2. t \in Screens /\ OnlyOfWindows(t)
      BY <3>1, AddWindowsType, WindowsEffect
    <3>3. w \in t.shown /\ screen' = RequestUnlock(t, w)
      BY <1>21, <2>1 DEF MonitorAdded
    <3> HIDE DEF t
    <3>4. OnlyOfWindows(screen')
      BY <3>2, <3>3, RequestUnlockEffect
    <3>5. manager'.active = manager.active
      BY <1>21, <2>1 DEF MonitorAdded, TypeOK, Managers
    <3>6. QED
      BY <1>21, <2>1, <3>4, <3>5, ActiveSync DEF MonitorAdded
  <2>2. CASE ~manager.active
    BY <1>21, <2>2, <1>1 DEF MonitorAdded
  <2>3. QED
    BY <2>1, <2>2
<1>22. ASSUME NEW m \in Monitors, NEW w \in Monitors, MonitorRemoved(m, w)
       PROVE  InSync'
  <2>1. CASE manager.active
    <3> DEFINE s == CancelAll(screen)
               t == DestroyWindow(s, m)
    <3>1. s \in Screens /\ OnlyOfWindows(s)
      BY CancelAllType, WindowsEffect DEF TypeOK, InSync
    <3>2. t \in Screens /\ OnlyOfWindows(t)
      <4>1. t \in Screens
        BY <3>1, WindowType
      <4>2. OnlyOfWindows(t)
        BY <3>1 DEF DestroyWindow, OnlyOfWindows, Screens
      <4>3. QED
        BY <4>1, <4>2
    <3>3. w \in t.shown /\ screen' = RequestUnlock(t, w)
      BY <1>22, <2>1 DEF MonitorRemoved
    <3> HIDE DEF t
    <3>4. OnlyOfWindows(screen')
      BY <3>2, <3>3, RequestUnlockEffect
    <3>5. QED
      BY <1>22, <2>1, <3>4, ActiveSync DEF MonitorRemoved
  <2>2. CASE ~manager.active
    BY <1>22, <2>2, <1>1 DEF MonitorRemoved
  <2>3. QED
    BY <2>1, <2>2
<1>23. CASE UNCHANGED vars
  BY <1>23, <1>1 DEF vars, code
<1>24. QED
  BY <1>2, <1>3, <1>4, <1>5, <1>6, <1>7, <1>8, <1>9, <1>10, <1>11, <1>12,
     <1>13, <1>14, <1>15, <1>16, <1>17, <1>18, <1>19, <1>20, <1>21, <1>22, <1>23
  DEF Next, Bus, Settings, Timers, Events, PrepareForSleep

(* After every callback listener, manager and watcher agree on whether the *)
(* screensaver is active, and an inactive one has no lock, timer or window.*)
THEOREM AlwaysInSync == Spec => []InSync
<1>1. Init => InSync
  <2> SUFFICES ASSUME Init PROVE InSync
    OBVIOUS
  <2>1. screen.shown = {} /\ ~screen.managerUp /\ OnlyOfWindows(screen)
    BY DEF Init, Bare, OnlyOfWindows
  <2>2. /\ manager.active = FALSE /\ ~manager.lock /\ ~manager.lockTimer
        /\ ~manager.unfadeTimer
    BY DEF Init
  <2>3. /\ listener.active = FALSE /\ listener.idle = FALSE
        /\ watcher.active = TRUE /\ ~watcher.notice
    BY DEF Init
  <2>4. QED
    BY <2>1, <2>2, <2>3 DEF InSync, Down
<1>2. QED
  BY <1>1, TypeCorrect, SyncStep, PTL DEF Spec

-----------------------------------------------------------------------------
(* Every monitor has its shield, and every shield the manager's lock.      *)

LEMMA RaiseShields ==
    ASSUME TypeOK, InSync, ~manager.active, NEW lock \in BOOLEAN, Raise(lock),
           monitors' = monitors
    PROVE  EveryMonitorShielded'
<1> DEFINE s == [screen EXCEPT !.grab = RootGrab]
<1>1. s.shown = {} /\ s.locked = {}
  BY DEF InSync, Down, OnlyOfWindows, TypeOK, Screens
<1>2. s \in Screens
  BY DEF TypeOK, Screens, Grabs
<1>3. screen' = AddWindows(s, monitors, lock)
  BY DEF Raise
<1> HIDE DEF s
<1>4. screen'.shown = monitors /\ screen'.locked = IF lock THEN monitors ELSE {}
  BY <1>1, <1>2, <1>3 DEF AddWindows, Screens
<1>5. manager'.lock = lock
  BY DEF Raise, TypeOK, Managers
<1>6. QED
  BY <1>3, <1>4, <1>5 DEF EveryMonitorShielded

LEMMA ListenerShields ==
    ASSUME TypeOK, InSync, EveryMonitorShielded, monitors' = monitors
    PROVE  /\ \A grabbed, lock \in BOOLEAN :
                CanRaise(grabbed) /\ ListenerRaise(lock) => EveryMonitorShielded'
           /\ ListenerNotRaised => EveryMonitorShielded'
           /\ ListenerLower => EveryMonitorShielded'
<1>1. ASSUME NEW grabbed \in BOOLEAN, NEW lock \in BOOLEAN,
             CanRaise(grabbed), ListenerRaise(lock)
      PROVE  EveryMonitorShielded'
  <2>1. ~manager.active
    BY <1>1 DEF CanRaise
  <2>2. Raise(lock)
    BY <1>1 DEF ListenerRaise
  <2>3. QED
    BY <2>1, <2>2, RaiseShields
<1>2. ListenerNotRaised => EveryMonitorShielded'
  BY DEF ListenerNotRaised, EveryMonitorShielded
<1>3. ASSUME ListenerLower
      PROVE  EveryMonitorShielded'
  <2>1. CASE listener.active /\ manager.active
    <3>1. screen'.shown = {} /\ screen'.locked = {}
      BY <1>3, <2>1 DEF ListenerLower, Lower, Bare
    <3>2. manager'.active = FALSE
      BY <1>3, <2>1 DEF ListenerLower, Lower, TypeOK, Managers
    <3>3. QED
      BY <3>1, <3>2 DEF EveryMonitorShielded
  <2>2. CASE ~(listener.active /\ manager.active)
    BY <1>3, <2>2 DEF ListenerLower, EveryMonitorShielded
  <2>3. QED
    BY <2>1, <2>2
<1>4. QED
  BY <1>1, <1>2, <1>3

(* gf_manager_set_lock_active (TRUE)                                       *)
LEMMA LockWindowsShields ==
    ASSUME TypeOK, EveryMonitorShielded, monitors' = monitors,
           screen' = LockWindows(screen, TRUE), manager'.lock = TRUE,
           manager'.active = manager.active
    PROVE  EveryMonitorShielded'
<1>1. screen'.shown = screen.shown /\ screen'.locked = screen.shown
  BY DEF LockWindows, TypeOK, Screens
<1>2. QED
  BY <1>1 DEF EveryMonitorShielded

(* A callback that changes neither                                         *)
LEMMA SameShields ==
    ASSUME EveryMonitorShielded, monitors' = monitors,
           screen'.shown = screen.shown, screen'.locked = screen.locked,
           manager'.lock = manager.lock, manager'.active = manager.active
    PROVE  EveryMonitorShielded'
BY DEF EveryMonitorShielded

LEMMA ShieldStep ==
    TypeOK /\ InSync /\ EveryMonitorShielded /\ [Next]_vars
        => EveryMonitorShielded'
<1> SUFFICES ASSUME TypeOK, InSync, EveryMonitorShielded, [Next]_vars
             PROVE  EveryMonitorShielded'
  OBVIOUS
<1>0. OnlyOfWindows(screen) /\ screen \in Screens /\ manager.lock \in BOOLEAN
  BY DEF InSync, TypeOK, Managers
<1>1. ASSUME UNCHANGED <<manager, screen, monitors>>
      PROVE  EveryMonitorShielded'
  BY <1>1 DEF EveryMonitorShielded
<1>2. CASE LockCall
  <2>1. PICK grabbed \in BOOLEAN :
          IF MayLock THEN Lock(grabbed)
          ELSE UNCHANGED <<listener, watcher, manager, screen, fade, clean>>
    BY <1>2 DEF LockCall
  <2>2. monitors' = monitors
    BY <1>2 DEF LockCall, world
  <2>3. CASE MayLock /\ manager.active /\ ~manager.lock
    <3>1. screen' = LockWindows(screen, TRUE)
      BY <2>1, <2>3 DEF Lock
    <3>2. manager'.lock = TRUE /\ manager'.active = manager.active
      BY <2>1, <2>3 DEF Lock, TypeOK, Managers
    <3>3. QED
      BY <2>2, <3>1, <3>2, LockWindowsShields
  <2>4. CASE MayLock /\ manager.active /\ manager.lock
    <3>1. screen' = screen
      BY <2>1, <2>4 DEF Lock
    <3>2. manager'.lock = manager.lock /\ manager'.active = manager.active
      BY <2>1, <2>4 DEF Lock, TypeOK, Managers
    <3>3. QED
      BY <2>2, <3>1, <3>2, SameShields
  <2>5. CASE MayLock /\ ~manager.active
    BY <2>1, <2>2, <2>5, ListenerShields DEF Lock
  <2>6. QED
    BY <2>1, <2>2, <2>3, <2>4, <2>5, <1>1
<1>3. CASE SetActiveCall
  BY <1>0, <1>3, ListenerShields DEF SetActiveCall, world
<1>4. CASE SetInactiveCall
  BY <1>4, ListenerShields DEF SetInactiveCall, world
<1>5. ASSUME NEW w \in Monitors, AskToUnlock(w)
      PROVE  EveryMonitorShielded'
  <2>1. screen'.shown = screen.shown /\ screen'.locked = screen.locked
    BY <1>0, <1>5, RequestUnlockEffect DEF AskToUnlock
  <2>2. QED
    BY <1>5, <2>1, SameShields DEF AskToUnlock, world
<1>6. ASSUME NEW status \in Presences, StatusChanged(status)
      PROVE  EveryMonitorShielded'
  <2>1. PICK grabbed \in BOOLEAN, faded \in BOOLEAN :
          StatusChangedCb(status = "idle", grabbed, faded)
    BY <1>6 DEF StatusChanged
  <2>2. screen'.shown = screen.shown /\ screen'.locked = screen.locked
    BY <1>0, <2>1 DEF StatusChangedCb, Screens
  <2>3. QED
    BY <1>6, <2>2, SameShields DEF StatusChanged
<1>7. CASE PresenceVanished
  BY <1>7, <1>1 DEF PresenceVanished, code
<1>8. CASE PrefsChanged
  <2>1. PICK late \in BOOLEAN, p \in PrefChoices : UpdateFromPrefs(p, late)
    BY <1>8 DEF PrefsChanged
  <2>2. monitors' = monitors
    BY <1>8 DEF PrefsChanged
  <2>3. manager'.active = manager.active
    BY <2>1 DEF UpdateFromPrefs, TypeOK, Managers
  <2>4. CASE manager'.lock = manager.lock /\ screen' = screen
    BY <2>2, <2>3, <2>4, SameShields
  <2>5. CASE manager'.lock = TRUE /\ screen' = LockWindows(screen, TRUE)
    BY <2>2, <2>3, <2>5, LockWindowsShields
  <2>6. QED
    BY <2>1, <2>4, <2>5 DEF UpdateFromPrefs, TypeOK, Managers
<1>9. CASE PamChanged
  BY <1>9, <1>1 DEF PamChanged, code
<1>10. CASE IdleCb
  <2>1. monitors' = monitors
    BY <1>10 DEF IdleCb, world
  <2>2. CASE ~manager.active /\ Raise(manager.lock)
    BY <1>0, <2>1, <2>2, RaiseShields
  <2>3. CASE UNCHANGED <<manager, screen>>
    BY <2>1, <2>3, <1>1
  <2>4. QED
    BY <1>10, <2>2, <2>3 DEF IdleCb, CanRaise
<1>11. CASE FadeOut
  BY <1>11, <1>1 DEF FadeOut, world
<1>12. CASE Unfade
  BY <1>12, SameShields DEF Unfade, TypeOK, Managers, world
<1>13. CASE LockTimeout
  <2>1. monitors' = monitors /\ manager'.active = manager.active
    BY <1>13 DEF LockTimeout, TypeOK, Managers, world
  <2>2. CASE manager'.lock = manager.lock /\ screen' = screen
    BY <2>1, <2>2, SameShields
  <2>3. CASE manager'.lock = TRUE /\ screen' = LockWindows(screen, TRUE)
    BY <2>1, <2>3, LockWindowsShields
  <2>4. QED
    BY <1>13, <2>2, <2>3 DEF LockTimeout, TypeOK, Managers
<1>14. CASE ReleaseGrab
  BY <1>0, <1>14, SameShields DEF ReleaseGrab, Screens, world
<1>15. ASSUME NEW w \in Monitors, WindowDeactivated(w)
       PROVE  EveryMonitorShielded'
  BY <1>0, <1>15, SameShields DEF WindowDeactivated, Screens, world
<1>16. ASSUME NEW c \in Causes, ManagerDeactivated(c)
       PROVE  EveryMonitorShielded'
  BY <1>16, ListenerShields DEF ManagerDeactivated, world
<1>17. ASSUME NEW w \in Monitors, PopupDialogIdle(w)
       PROVE  EveryMonitorShielded'
  BY <1>0, <1>17, SameShields DEF PopupDialogIdle, PopupDialog, Screens, world
<1>18. ASSUME NEW e \in Monitors, NEW w \in Monitors, Activity(e, w)
       PROVE  EveryMonitorShielded'
  BY <1>18, <1>5 DEF Activity
<1>19. ASSUME NEW w \in Monitors, NEW atPointer \in BOOLEAN,
              MapEvent(w, atPointer)
       PROVE  EveryMonitorShielded'
  BY <1>0, <1>19, SameShields DEF MapEvent, Screens, world
<1>20. ASSUME NEW w \in Monitors, NEW accepted \in BOOLEAN,
              DialogDone(w, accepted)
       PROVE  EveryMonitorShielded'
  <2>1. w \in screen.shown
    BY <1>0, <1>20 DEF DialogDone, OnlyOfWindows
  <2>2. screen'.shown = screen.shown /\ screen'.locked = screen.locked
    BY <1>0, <1>20, <2>1, WindowEffect DEF DialogDone
  <2>3. QED
    BY <1>20, <2>2, SameShields DEF DialogDone, world
<1>21. ASSUME NEW m \in Monitors, NEW w \in Monitors, MonitorAdded(m, w)
       PROVE  EveryMonitorShielded'
  <2>1. CASE manager.active
    <3> DEFINE s == CancelAll(screen)
               t == AddWindows(s, {m}, manager.lock)
    <3>1. /\ s \in Screens /\ OnlyOfWindows(s)
          /\ s.shown = screen.shown /\ s.locked = screen.locked
      BY <1>0, CancelAllType, WindowsEffect
    <3>2. t \in Screens /\ OnlyOfWindows(t)
      BY <1>0, <3>1, AddWindowsType, WindowsEffect
    <3> HIDE DEF s
    <3>3. /\ t.shown = screen.shown \cup {m}
          /\ t.locked = IF manager.lock THEN screen.locked \cup {m}
                        ELSE screen.locked
      BY <1>0, <3>1 DEF AddWindows, Screens
    <3>4. w \in t.shown /\ screen' = RequestUnlock(t, w)
      BY <1>21, <2>1 DEF MonitorAdded, s
    <3> HIDE DEF t
    <3>5. screen'.shown = t.shown /\ screen'.locked = t.locked
      BY <3>2, <3>4, RequestUnlockEffect
    <3>6. /\ manager'.active = manager.active /\ manager'.lock = manager.lock
          /\ monitors' = monitors \cup {m}
      BY <1>21, <2>1 DEF MonitorAdded, TypeOK, Managers
    <3>7. screen'.shown = monitors'
      BY <1>0, <2>1, <3>3, <3>5, <3>6 DEF EveryMonitorShielded
    <3>8. screen'.locked = IF manager'.lock THEN screen'.shown ELSE {}
      <4>1. screen.locked = IF manager.lock THEN screen.shown ELSE {}
        BY <1>0 DEF EveryMonitorShielded
      <4>2. QED
        BY <4>1, <3>3, <3>5, <3>6
    <3>9. QED
      BY <3>7, <3>8 DEF EveryMonitorShielded
  <2>2. CASE ~manager.active
    BY <1>21, <2>2 DEF MonitorAdded, EveryMonitorShielded
  <2>3. QED
    BY <2>1, <2>2
<1>22. ASSUME NEW m \in Monitors, NEW w \in Monitors, MonitorRemoved(m, w)
       PROVE  EveryMonitorShielded'
  <2>1. CASE manager.active
    <3> DEFINE s == CancelAll(screen)
               t == DestroyWindow(s, m)
    <3>1. /\ s \in Screens /\ OnlyOfWindows(s)
          /\ s.shown = screen.shown /\ s.locked = screen.locked
      BY <1>0, CancelAllType, WindowsEffect
    <3>2. m \in s.shown
      BY <1>22, <2>1, <3>1 DEF MonitorRemoved, EveryMonitorShielded
    <3> HIDE DEF s
    <3>3. /\ OnlyOfWindows(t)
          /\ t.shown = screen.shown \ {m} /\ t.locked = screen.locked \ {m}
      <4>1. TRUE \in BOOLEAN
        OBVIOUS
      <4>2. /\ OnlyOfWindows(DestroyWindow(s, m))
            /\ DestroyWindow(s, m).shown = s.shown \ {m}
            /\ DestroyWindow(s, m).locked = s.locked \ {m}
        BY <3>1, <3>2, <4>1, WindowEffect
      <4>3. QED
        BY <3>1, <4>2
    <3>4. w \in t.shown /\ screen' = RequestUnlock(t, w)
      BY <1>22, <2>1 DEF MonitorRemoved, s
    <3>5. t \in Screens
      BY <3>1, WindowType
    <3> HIDE DEF t
    <3>6. screen'.shown = t.shown /\ screen'.locked = t.locked
      BY <3>3, <3>4, <3>5, RequestUnlockEffect
    <3>7. manager' = manager /\ monitors' = monitors \ {m}
      BY <1>22 DEF MonitorRemoved
    <3>8. QED
      BY <2>1, <3>3, <3>6, <3>7 DEF EveryMonitorShielded
  <2>2. CASE ~manager.active
    BY <1>22, <2>2 DEF MonitorRemoved, EveryMonitorShielded
  <2>3. QED
    BY <2>1, <2>2
<1>23. CASE UNCHANGED vars
  BY <1>23, <1>1 DEF vars, code, world
<1>24. QED
  BY <1>2, <1>3, <1>4, <1>5, <1>6, <1>7, <1>8, <1>9, <1>10, <1>11, <1>12,
     <1>13, <1>14, <1>15, <1>16, <1>17, <1>18, <1>19, <1>20, <1>21, <1>22, <1>23
  DEF Next, Bus, Settings, Timers, Events, PrepareForSleep

(* However monitors come and go, an active screensaver covers each of them *)
(* and all its windows ask for the password exactly if it is locked.       *)
THEOREM AlwaysShielded == Spec => []EveryMonitorShielded
<1>1. Init => EveryMonitorShielded
  <2> SUFFICES ASSUME Init PROVE EveryMonitorShielded
    OBVIOUS
  <2>1. screen.shown = {} /\ screen.locked = {} /\ ~manager.active
    BY DEF Init, Bare
  <2>2. QED
    BY <2>1 DEF EveryMonitorShielded
<1>2. QED
  BY <1>1, TypeCorrect, AlwaysInSync, ShieldStep, PTL DEF Spec

-----------------------------------------------------------------------------
(***************************************************************************)
(* How a lock ends, its one dialog and the grab of the keyboard            *)
(***************************************************************************)

(* What the operators of GfManager.tla do to the queued deactivations      *)

(* gf_window_request_unlock of a locked window queues none.                *)
LEMMA LockedWindowAsks ==
    ASSUME NEW s \in Screens, NEW w \in s.locked
    PROVE  /\ RequestUnlock(s, w).deact = s.deact
           /\ RequestUnlock(s, w).vouched = s.vouched
<1>1. /\ DialogUp(s, w) \in Screens
      /\ DialogUp(s, w).deact = s.deact /\ DialogUp(s, w).vouched = s.vouched
  <2>1. w \in Monitors
    BY DEF Screens
  <2>2. QED
    BY <2>1, DialogUpType DEF DialogUp, Screens
<1> DEFINE t == [DialogUp(s, w) EXCEPT !.popup = @ \cup {w}, !.up = @ \cup {w}]
<1>2. t.deact = s.deact /\ t.vouched = s.vouched
  BY <1>1 DEF Screens
<1>3. QED
  BY <1>2 DEF RequestUnlock, WindowRequestUnlock

(* No other method touches them, but for those of a destroyed window.      *)
LEMMA QueueKept ==
    ASSUME NEW s \in Screens, NEW m \in Monitors, NEW lock \in BOOLEAN,
           NEW ms \in SUBSET Monitors
    PROVE  /\ CancelAll(s).deact = s.deact /\ CancelAll(s).vouched = s.vouched
           /\ AddWindows(s, ms, lock).deact = s.deact
           /\ AddWindows(s, ms, lock).vouched = s.vouched
           /\ LockWindows(s, lock).deact = s.deact
           /\ LockWindows(s, lock).vouched = s.vouched
           /\ PopupDialog(s, m).deact = s.deact
           /\ PopupDialog(s, m).vouched = s.vouched
           /\ DestroyWindow(s, m).deact = s.deact \ {m}
           /\ DestroyWindow(s, m).vouched = s.vouched \ {m}
<1>1. CancelAll(s).deact = s.deact /\ CancelAll(s).vouched = s.vouched
  BY DEF CancelAll, DialogDown, Screens
<1>2. /\ AddWindows(s, ms, lock).deact = s.deact
      /\ AddWindows(s, ms, lock).vouched = s.vouched
  BY DEF AddWindows, Screens
<1>3. /\ LockWindows(s, lock).deact = s.deact
      /\ LockWindows(s, lock).vouched = s.vouched
  BY DEF LockWindows, Screens
<1>4. PopupDialog(s, m).deact = s.deact /\ PopupDialog(s, m).vouched = s.vouched
  BY DEF PopupDialog, Screens
<1>5. /\ DestroyWindow(s, m).deact = s.deact \ {m}
      /\ DestroyWindow(s, m).vouched = s.vouched \ {m}
  BY DEF DestroyWindow, Screens
<1>6. QED
  BY <1>1, <1>2, <1>3, <1>4, <1>5

(* unlock_dialog_response_cb: what it queues, the password vouches for.    *)
LEMMA ResponseVouches ==
    ASSUME NEW s \in Screens, NEW w \in Monitors, NEW accepted \in BOOLEAN,
           s.deact \subseteq s.vouched
    PROVE  DialogResponse(s, w, accepted).deact
             \subseteq DialogResponse(s, w, accepted).vouched
<1> DEFINE d == IF w \in s.up THEN DialogDown(s) ELSE s
           t == Popdown(s, w)
<1>1. d \in Screens /\ d.deact = s.deact /\ d.vouched = s.vouched
  BY DialogUpType DEF DialogDown, Screens
<1>2. t = [d EXCEPT !.up = @ \ {w}, !.dialog = @ \ {w}]
  BY DEF Popdown
<1> HIDE DEF d
<1>3. t \in Screens /\ t.deact = s.deact /\ t.vouched = s.vouched
  <2>1. t \in Screens
    BY <1>1, <1>2, ZenonT(60) DEF Screens
  <2>2. t.deact = d.deact /\ t.vouched = d.vouched
    BY <1>1, <1>2 DEF Screens
  <2>3. QED
    BY <1>1, <2>1, <2>2
<1> DEFINE u == [t EXCEPT !.deact = @ \cup {w},
                          !.vouched = IF w \in s.deact THEN @ ELSE @ \cup {w}]
<1>4. DialogResponse(s, w, accepted) = IF accepted THEN u ELSE t
  BY DEF DialogResponse
<1> HIDE DEF t
<1>5. u.deact \subseteq u.vouched
  BY <1>3 DEF Screens
<1> HIDE DEF u
<1>6. QED
  BY <1>3, <1>4, <1>5

-----------------------------------------------------------------------------
(* While a clean lock lasts, only passwords queue deactivations.           *)

(* gf_listener_set_active ends the lock or leaves everything alone; a      *)
(* clean lock it always ends.                                              *)
LEMMA LowerEndsLock ==
    ASSUME TypeOK, InSync, OnlyPasswordsQueued, ListenerLower
    PROVE  ~clean'
<1>1. CASE manager.active
  <2>1. listener.active
    BY <1>1 DEF InSync
  <2>2. QED
    BY <1>1, <2>1 DEF ListenerLower, Lower
<1>2. CASE ~manager.active
  <2>1. ~manager.lock
    BY <1>2 DEF InSync, Down
  <2>2. ~clean
    BY <2>1 DEF OnlyPasswordsQueued
  <2>3. clean' = clean
    BY <1>2 DEF ListenerLower
  <2>4. QED
    BY <2>2, <2>3
<1>3. QED
  BY <1>1, <1>2

(* A callback that leaves lock and queue alone                             *)
LEMMA SameQueue ==
    ASSUME OnlyPasswordsQueued, clean' = clean, clean => manager'.lock,
           passes' = passes, clean => screen'.deact \subseteq screen'.vouched
    PROVE  OnlyPasswordsQueued'
BY DEF OnlyPasswordsQueued

(* gf_manager_set_lock_active (TRUE): the lock is clean if nothing is      *)
(* queued.                                                                 *)
LEMMA LockStartsClean ==
    ASSUME TypeOK, clean' = NothingQueued(screen), manager'.lock,
           passes' = passes, screen'.deact = screen.deact
    PROVE  OnlyPasswordsQueued'
BY DEF OnlyPasswordsQueued, NothingQueued, Causes

LEMMA LockVouches ==
    ASSUME TypeOK, InSync, OnlyPasswordsQueued, NEW grabbed \in BOOLEAN,
           Lock(grabbed), passes' = passes
    PROVE  OnlyPasswordsQueued'
<1>0. screen \in Screens /\ monitors \in SUBSET Monitors
  BY DEF TypeOK
<1>1. CASE manager.active /\ manager.lock
  BY <1>1, SameQueue DEF Lock, TypeOK, Managers, OnlyPasswordsQueued
<1>2. CASE manager.active /\ ~manager.lock
  <2>1. screen' = LockWindows(screen, TRUE) /\ clean' = NothingQueued(screen)
    BY <1>2 DEF Lock
  <2>2. manager'.lock
    BY <1>2 DEF Lock, TypeOK, Managers
  <2>3. screen'.deact = screen.deact
    BY <1>0, <2>1 DEF LockWindows, Screens
  <2>4. QED
    BY <2>1, <2>2, <2>3, LockStartsClean
<1>3. CASE ~manager.active /\ CanRaise(grabbed)
  <2> DEFINE s == [screen EXCEPT !.grab = RootGrab]
  <2>1. screen' = AddWindows(s, monitors, TRUE) /\ clean' = NothingQueued(screen)
    BY <1>3 DEF Lock, ListenerRaise, Raise
  <2>2. manager'.lock
    BY <1>3 DEF Lock, ListenerRaise, Raise, TypeOK, Managers
  <2>3. s \in Screens /\ s.deact = screen.deact
    BY <1>0 DEF Screens, Grabs
  <2> HIDE DEF s
  <2>4. screen'.deact = screen.deact
    BY <2>1, <2>3 DEF AddWindows, Screens
  <2>5. QED
    BY <2>1, <2>2, <2>4, LockStartsClean
<1>4. CASE ~manager.active /\ ~CanRaise(grabbed)
  BY <1>4, SameQueue DEF Lock, ListenerNotRaised, OnlyPasswordsQueued
<1>5. QED
  BY <1>1, <1>2, <1>3, <1>4

LEMMA PasswordStep ==
    TypeOK /\ InSync /\ EveryMonitorShielded /\ OnlyPasswordsQueued
        /\ [Next]_vars => OnlyPasswordsQueued'
<1> SUFFICES ASSUME TypeOK, InSync, EveryMonitorShielded, OnlyPasswordsQueued,
                    [Next]_vars
             PROVE  OnlyPasswordsQueued'
  OBVIOUS
<1>0. screen \in Screens /\ OnlyOfWindows(screen) /\ manager.lock \in BOOLEAN
      /\ clean \in BOOLEAN /\ monitors \in SUBSET Monitors
  BY DEF TypeOK, InSync, Managers
<1>a. clean => /\ manager.lock /\ manager.active
               /\ screen.deact \subseteq screen.vouched
               /\ screen.locked = screen.shown
  BY DEF OnlyPasswordsQueued, InSync, Down, EveryMonitorShielded
<1>1. ASSUME clean' = clean, manager'.lock = manager.lock, passes' = passes,
             screen'.deact = screen.deact, screen'.vouched = screen.vouched
      PROVE  OnlyPasswordsQueued'
  BY <1>1 DEF OnlyPasswordsQueued
<1>b. ASSUME ~clean, clean' = clean
      PROVE  OnlyPasswordsQueued'
  BY <1>b DEF OnlyPasswordsQueued
<1>2. CASE LockCall
  <2>1. PICK grabbed \in BOOLEAN :
          IF MayLock THEN Lock(grabbed)
          ELSE UNCHANGED <<listener, watcher, manager, screen, fade, clean>>
    BY <1>2 DEF LockCall
  <2>2. passes' = passes
    BY <1>2 DEF LockCall
  <2>3. QED
    BY <2>1, <2>2, LockVouches, <1>1
<1>3. CASE SetActiveCall
  <2>1. PICK grabbed \in BOOLEAN :
          IF CanRaise(grabbed) THEN ListenerRaise(manager.lock)
          ELSE ListenerNotRaised
    BY <1>3 DEF SetActiveCall
  <2>2. passes' = passes /\ clean' = clean
    BY <1>3 DEF SetActiveCall
  <2>3. CASE CanRaise(grabbed)
    BY <2>2, <2>3, <1>a, <1>b DEF CanRaise
  <2>4. CASE ~CanRaise(grabbed)
    BY <2>1, <2>2, <2>4, <1>1 DEF ListenerNotRaised
  <2>5. QED
    BY <2>3, <2>4
<1>4. CASE SetInactiveCall
  <2>1. ~clean'
    BY <1>4, LowerEndsLock DEF SetInactiveCall
  <2>2. QED
    BY <2>1 DEF OnlyPasswordsQueued
<1>5. ASSUME NEW w \in Monitors, AskToUnlock(w)
      PROVE  OnlyPasswordsQueued'
  <2>1. CASE clean
    <3>1. screen'.deact = screen.deact /\ screen'.vouched = screen.vouched
      BY <1>0, <1>5, <1>a, <2>1, LockedWindowAsks DEF AskToUnlock
    <3>2. QED
      BY <1>1, <1>5, <3>1 DEF AskToUnlock
  <2>2. CASE ~clean
    BY <1>5, <2>2, <1>b DEF AskToUnlock
  <2>3. QED
    BY <2>1, <2>2
<1>6. ASSUME NEW status \in Presences, StatusChanged(status)
      PROVE  OnlyPasswordsQueued'
  <2>1. PICK grabbed \in BOOLEAN, faded \in BOOLEAN :
          StatusChangedCb(status = "idle", grabbed, faded)
    BY <1>6 DEF StatusChanged
  <2>2. screen'.deact = screen.deact /\ screen'.vouched = screen.vouched
    BY <1>0, <2>1 DEF StatusChangedCb, Screens
  <2>3. QED
    BY <1>1, <1>6, <2>2 DEF StatusChanged
<1>7. CASE PresenceVanished
  BY <1>7, <1>1 DEF PresenceVanished, code
<1>8. CASE PrefsChanged
  <2>1. PICK late \in BOOLEAN, p \in Prefs : UpdateFromPrefs(p, late)
    BY <1>8, PrefChoicesAssumption DEF PrefsChanged
  <2> DEFINE lockNow == /\ manager.lockTimeout # p.lockDelay
                        /\ manager.active /\ ~manager.lock /\ late
                        /\ p.lockEnabled /\ ~p.lockDisabled /\ pam
  <2>2. passes' = passes
    BY <1>8 DEF PrefsChanged
  <2>3. CASE lockNow
    <3>1. screen' = LockWindows(screen, TRUE) /\ clean' = NothingQueued(screen)
      BY <2>1, <2>3 DEF UpdateFromPrefs
    <3>2. manager'.lock
      BY <2>1, <2>3 DEF UpdateFromPrefs, TypeOK, Managers
    <3>3. screen'.deact = screen.deact
      BY <1>0, <3>1 DEF LockWindows, Screens
    <3>4. QED
      BY <2>2, <3>1, <3>2, <3>3, LockStartsClean
  <2>4. CASE ~lockNow
    <3>1. screen' = screen /\ clean' = clean
      BY <2>1, <2>4 DEF UpdateFromPrefs
    <3>2. manager'.lock = manager.lock
      BY <2>1, <2>4 DEF UpdateFromPrefs, TypeOK, Managers
    <3>3. QED
      BY <1>1, <2>2, <3>1, <3>2
  <2>5. QED
    BY <2>3, <2>4
<1>9. CASE PamChanged
  BY <1>9, <1>1 DEF PamChanged, code
<1>10. CASE IdleCb
  <2>1. clean' = clean /\ passes' = passes
    BY <1>10 DEF IdleCb
  <2>2. CASE manager.active
    <3>1. screen' = screen /\ manager' = manager
      BY <1>10, <2>2 DEF IdleCb, CanRaise
    <3>2. QED
      BY <1>1, <2>1, <3>1
  <2>3. CASE ~manager.active
    BY <2>1, <2>3, <1>a, <1>b
  <2>4. QED
    BY <2>2, <2>3
<1>11. CASE FadeOut
  BY <1>11, <1>1 DEF FadeOut
<1>12. CASE Unfade
  <2>1. manager'.lock = manager.lock
    BY <1>12 DEF Unfade, TypeOK, Managers
  <2>2. QED
    BY <1>12, <1>1, <2>1 DEF Unfade
<1>13. CASE LockTimeout
  <2>1. CASE manager.lockEnabled /\ ~manager.lock
    <3>1. screen' = LockWindows(screen, TRUE) /\ clean' = NothingQueued(screen)
      BY <1>13, <2>1 DEF LockTimeout
    <3>2. manager'.lock /\ passes' = passes
      BY <1>13, <2>1 DEF LockTimeout, TypeOK, Managers
    <3>3. screen'.deact = screen.deact
      BY <1>0, <3>1 DEF LockWindows, Screens
    <3>4. QED
      BY <3>1, <3>2, <3>3, LockStartsClean
  <2>2. CASE ~(manager.lockEnabled /\ ~manager.lock)
    <3>1. screen' = screen /\ clean' = clean /\ passes' = passes
      BY <1>13, <2>2 DEF LockTimeout
    <3>2. manager'.lock = manager.lock
      BY <1>13, <2>2 DEF LockTimeout, TypeOK, Managers
    <3>3. QED
      BY <1>1, <3>1, <3>2
  <2>3. QED
    BY <2>1, <2>2
<1>14. CASE ReleaseGrab
  <2>1. screen'.deact = screen.deact /\ screen'.vouched = screen.vouched
    BY <1>0, <1>14 DEF ReleaseGrab, Screens
  <2>2. QED
    BY <1>1, <1>14, <2>1 DEF ReleaseGrab
<1>15. ASSUME NEW w \in Monitors, WindowDeactivated(w)
       PROVE  OnlyPasswordsQueued'
  <2>1. screen'.deact = screen.deact \ {w} /\ screen'.vouched = screen.vouched \ {w}
    BY <1>0, <1>15 DEF WindowDeactivated, Screens
  <2>2. manager' = manager /\ clean' = clean
    BY <1>15 DEF WindowDeactivated
  <2>3. clean => passes'["unlocked"] = passes["unlocked"]
    BY <1>15, <1>a DEF WindowDeactivated, TypeOK, Causes
  <2>4. QED
    BY <2>1, <2>2, <2>3 DEF OnlyPasswordsQueued
<1>16. ASSUME NEW c \in Causes, ManagerDeactivated(c)
       PROVE  OnlyPasswordsQueued'
  <2>1. ~clean'
    BY <1>16, LowerEndsLock DEF ManagerDeactivated
  <2>2. QED
    BY <2>1 DEF OnlyPasswordsQueued
<1>17. ASSUME NEW w \in Monitors, PopupDialogIdle(w)
       PROVE  OnlyPasswordsQueued'
  <2>1. screen'.deact = screen.deact /\ screen'.vouched = screen.vouched
    BY <1>0, <1>17 DEF PopupDialogIdle, PopupDialog, Screens
  <2>2. QED
    BY <1>1, <1>17, <2>1 DEF PopupDialogIdle
<1>18. ASSUME NEW e \in Monitors, NEW w \in Monitors, Activity(e, w)
       PROVE  OnlyPasswordsQueued'
  BY <1>18, <1>5 DEF Activity
<1>19. ASSUME NEW w \in Monitors, NEW atPointer \in BOOLEAN,
              MapEvent(w, atPointer)
       PROVE  OnlyPasswordsQueued'
  <2>1. screen'.deact = screen.deact /\ screen'.vouched = screen.vouched
    BY <1>0, <1>19 DEF MapEvent, Screens
  <2>2. QED
    BY <1>1, <1>19, <2>1 DEF MapEvent
<1>20. ASSUME NEW w \in Monitors, NEW accepted \in BOOLEAN,
              DialogDone(w, accepted)
       PROVE  OnlyPasswordsQueued'
  <2>1. clean => screen'.deact \subseteq screen'.vouched
    BY <1>0, <1>20, <1>a, ResponseVouches DEF DialogDone
  <2>2. QED
    BY <1>20, <1>a, <2>1, SameQueue DEF DialogDone
<1>21. ASSUME NEW m \in Monitors, NEW w \in Monitors, MonitorAdded(m, w)
       PROVE  OnlyPasswordsQueued'
  <2>1. clean' = clean /\ passes' = passes
    BY <1>21 DEF MonitorAdded
  <2>2. CASE clean
    <3> DEFINE s == CancelAll(screen)
               t == AddWindows(s, {m}, manager.lock)
    <3>1. /\ s \in Screens /\ s.deact = screen.deact /\ s.vouched = screen.vouched
          /\ s.shown = screen.shown /\ s.locked = screen.locked
      BY <1>0, CancelAllType, WindowsEffect, QueueKept
    <3> HIDE DEF s
    <3>2. /\ t.deact = s.deact /\ t.vouched = s.vouched
          /\ t.shown = s.shown \cup {m} /\ t.locked = s.locked \cup {m}
      BY <1>a, <2>2, <3>1 DEF AddWindows, Screens
    <3>3. t \in Screens
      BY <1>0, <3>1, AddWindowsType
    <3>4. w \in t.shown /\ screen' = RequestUnlock(t, w)
      BY <1>21, <1>a, <2>2 DEF MonitorAdded, s
    <3> HIDE DEF t
    <3>5. w \in t.locked
      BY <1>a, <2>2, <3>1, <3>2, <3>4
    <3>6. screen'.deact = screen.deact /\ screen'.vouched = screen.vouched
      BY <3>1, <3>2, <3>3, <3>4, <3>5, LockedWindowAsks
    <3>7. manager'.lock = manager.lock
      BY <1>21, <1>a, <2>2 DEF MonitorAdded, TypeOK, Managers
    <3>8. QED
      BY <1>1, <2>1, <3>6, <3>7
  <2>3. CASE ~clean
    BY <2>1, <2>3, <1>b
  <2>4. QED
    BY <2>2, <2>3
<1>22. ASSUME NEW m \in Monitors, NEW w \in Monitors, MonitorRemoved(m, w)
       PROVE  OnlyPasswordsQueued'
  <2>1. clean' = clean /\ passes' = passes /\ manager' = manager
    BY <1>22 DEF MonitorRemoved
  <2>2. CASE clean
    <3> DEFINE s == CancelAll(screen)
               t == DestroyWindow(s, m)
    <3>1. /\ s \in Screens /\ s.deact = screen.deact /\ s.vouched = screen.vouched
          /\ s.shown = screen.shown /\ s.locked = screen.locked
      BY <1>0, CancelAllType, WindowsEffect, QueueKept
    <3> HIDE DEF s
    <3>2. /\ t.deact = s.deact \ {m} /\ t.vouched = s.vouched \ {m}
          /\ t.shown = s.shown \ {m} /\ t.locked = s.locked \ {m}
      BY <3>1 DEF DestroyWindow, Screens
    <3>3. t \in Screens
      BY <3>1, WindowType
    <3>4. w \in t.shown /\ screen' = RequestUnlock(t, w)
      BY <1>22, <1>a, <2>2 DEF MonitorRemoved, s
    <3> HIDE DEF t
    <3>5. w \in t.locked
      BY <1>a, <2>2, <3>1, <3>2, <3>4
    <3>6. screen'.deact = t.deact /\ screen'.vouched = t.vouched
      BY <3>3, <3>4, <3>5, LockedWindowAsks
    <3>7. screen'.deact \subseteq screen'.vouched
      BY <1>a, <2>2, <3>1, <3>2, <3>6
    <3>8. QED
      BY <1>a, <2>1, <3>7, SameQueue
  <2>3. CASE ~clean
    BY <2>1, <2>3, <1>b
  <2>4. QED
    BY <2>2, <2>3
<1>23. CASE UNCHANGED vars
  BY <1>23, <1>1 DEF vars, code
<1>24. QED
  BY <1>2, <1>3, <1>4, <1>5, <1>6, <1>7, <1>8, <1>9, <1>10, <1>11, <1>12,
     <1>13, <1>14, <1>15, <1>16, <1>17, <1>18, <1>19, <1>20, <1>21, <1>22, <1>23
  DEF Next, Bus, Settings, Timers, Events, PrepareForSleep

(* While a lock lasts that began with no deactivation on its way, only an  *)
(* accepted password puts one on its way: no activity, call, timer,        *)
(* preference or monitor does.                                             *)
THEOREM AlwaysOnlyPasswords == Spec => []OnlyPasswordsQueued
<1>1. Init => OnlyPasswordsQueued
  BY DEF Init, OnlyPasswordsQueued
<1>2. QED
  BY <1>1, TypeCorrect, AlwaysInSync, AlwaysShielded, PasswordStep, PTL DEF Spec

-----------------------------------------------------------------------------
(* How a lock ends                                                         *)

(* A queued deactivation that ends a clean lock comes from a password.     *)
THEOREM LocksEndOnPassword == Spec => LockEndsOnPassword
<1> DEFINE Ends == clean /\ ~manager.lock' /\ passes' # passes
                     => passes'["password"] < passes["password"]
<1>1. TypeOK /\ InSync /\ OnlyPasswordsQueued /\ [Next]_vars => [Ends]_vars
  <2> SUFFICES ASSUME TypeOK, InSync, OnlyPasswordsQueued, [Next]_vars,
                      clean, ~manager.lock', passes' # passes
               PROVE  passes'["password"] < passes["password"]
    OBVIOUS
  <2>1. manager.lock /\ passes["unlocked"] = 0
    BY DEF OnlyPasswordsQueued
  <2>2. \/ \E w \in Monitors : WindowDeactivated(w)
        \/ \E c \in Causes : ManagerDeactivated(c)
    BY DEF Next, Bus, Settings, Timers, Events, LockCall, PrepareForSleep,
           SetActiveCall, SetInactiveCall, AskToUnlock, StatusChanged,
           PresenceVanished, PrefsChanged, PamChanged, IdleCb, FadeOut, Unfade,
           LockTimeout, ReleaseGrab, PopupDialogIdle, Activity, MapEvent,
           DialogDone, MonitorAdded, MonitorRemoved, code, vars
  <2>3. ASSUME NEW w \in Monitors, WindowDeactivated(w)
        PROVE  FALSE
    BY <2>1, <2>3 DEF WindowDeactivated
  <2>4. ASSUME NEW c \in Causes, ManagerDeactivated(c)
        PROVE  passes'["password"] < passes["password"]
    <3>1. c = "password"
      BY <2>1, <2>4 DEF ManagerDeactivated, Causes
    <3>2. passes' = [passes EXCEPT !["password"] = @ - 1]
      BY <2>4, <3>1 DEF ManagerDeactivated
    <3>3. passes["password"] \in Nat /\ "password" \in DOMAIN passes
      BY DEF TypeOK, Causes
    <3>4. QED
      BY <3>2, <3>3
  <2>5. QED
    BY <2>2, <2>3, <2>4
<1>2. QED
  BY <1>1, TypeCorrect, AlwaysInSync, AlwaysOnlyPasswords, PTL
  DEF Spec, LockEndsOnPassword

(* What the callbacks share ends no lock but with the shield.              *)
LEMMA LowerEndsShield ==
    ASSUME TypeOK, InSync, manager.lock, ListenerLower
    PROVE  ~manager'.active
<1>1. manager.active /\ listener.active
  BY DEF InSync, Down
<1>2. QED
  BY <1>1 DEF ListenerLower, Lower, TypeOK, Managers

(* The lock is lifted only together with the shield.                       *)
THEOREM LocksEndWithShield == Spec => LockEndsWithShield
<1> DEFINE Ends == manager.lock /\ ~manager.lock' => ~manager.active'
<1>1. TypeOK /\ InSync /\ [Next]_vars => [Ends]_vars
  <2> SUFFICES ASSUME TypeOK, InSync, [Next]_vars, manager.lock
               PROVE  manager'.lock \/ ~manager'.active
    OBVIOUS
  <2>0. manager.active /\ manager.lock \in BOOLEAN
    BY DEF InSync, Down, TypeOK, Managers
  <2>1. ASSUME manager' = manager
        PROVE  manager'.lock
    BY <2>1
  <2>2. CASE LockCall
    BY <2>0, <2>2 DEF LockCall, Lock, TypeOK, Managers
  <2>3. CASE SetActiveCall
    BY <2>0, <2>3 DEF SetActiveCall, CanRaise, ListenerNotRaised
  <2>4. CASE SetInactiveCall
    BY <2>4, LowerEndsShield DEF SetInactiveCall
  <2>5. CASE PrefsChanged
    <3>1. PICK late \in BOOLEAN, p \in Prefs : UpdateFromPrefs(p, late)
      BY <2>5, PrefChoicesAssumption DEF PrefsChanged
    <3>2. QED
      BY <3>1 DEF UpdateFromPrefs, TypeOK, Managers
  <2>6. CASE IdleCb
    BY <2>0, <2>6 DEF IdleCb, CanRaise
  <2>7. CASE Unfade
    BY <2>7 DEF Unfade, TypeOK, Managers
  <2>8. CASE LockTimeout
    BY <2>8 DEF LockTimeout, TypeOK, Managers
  <2>9. ASSUME NEW c \in Causes, ManagerDeactivated(c)
        PROVE  ~manager'.active
    BY <2>9, LowerEndsShield DEF ManagerDeactivated
  <2>10. ASSUME NEW m \in Monitors, NEW w \in Monitors, MonitorAdded(m, w)
         PROVE  manager'.lock
    BY <2>0, <2>10 DEF MonitorAdded, TypeOK, Managers
  <2>11. CASE /\ ~LockCall /\ ~SetActiveCall /\ ~SetInactiveCall
              /\ ~PrefsChanged /\ ~IdleCb /\ ~Unfade /\ ~LockTimeout
              /\ \A c \in Causes : ~ManagerDeactivated(c)
              /\ \A m, w \in Monitors : ~MonitorAdded(m, w)
    <3>1. manager' = manager
      BY <2>11 DEF Next, Bus, Settings, Timers, Events, PrepareForSleep,
           AskToUnlock, StatusChanged, PresenceVanished, PamChanged, FadeOut,
           ReleaseGrab, WindowDeactivated, PopupDialogIdle, Activity, MapEvent,
           DialogDone, MonitorRemoved, code, vars
    <3>2. QED
      BY <3>1
  <2>12. QED
    BY <2>2, <2>3, <2>4, <2>5, <2>6, <2>7, <2>8, <2>9, <2>10, <2>11
<1>2. QED
  BY <1>1, TypeCorrect, AlwaysInSync, PTL DEF Spec, LockEndsWithShield

-----------------------------------------------------------------------------
(* There is one dialog.                                                    *)

(* OneDialog of any screen                                                 *)
DialogFits(s) == SingleDialog(s) /\ s.up \subseteq s.locked

(* No dialog is shown or scheduled.                                        *)
NoDialog(s) ==
    /\ s.up = {} /\ s.popup = {} /\ s.dialog = {} /\ s.deaf = {}
    /\ s.managerUp = FALSE

LEMMA NoDialogFits ==
    ASSUME NEW s \in Screens
    PROVE  /\ NoDialog(s) => DialogFits(s)
           /\ DialogFits(s) /\ s.up = {} => NoDialog(s)
BY DEF NoDialog, DialogFits, SingleDialog, Screens

(* gf_window_cancel_unlock_request on every window                         *)
LEMMA CancelAllDialog ==
    ASSUME NEW s \in Screens, DialogFits(s)
    PROVE  NoDialog(CancelAll(s))
<1>1. CASE s.up = {}
  BY <1>1, NoDialogFits DEF CancelAll, NoDialog, Screens
<1>2. CASE s.up # {}
  BY <1>2 DEF CancelAll, DialogDown, NoDialog, Screens
<1>3. QED
  BY <1>1, <1>2

(* create_window_for_monitor and gf_window_finalize where no dialog is     *)
LEMMA NewWindowsDialog ==
    ASSUME NEW s \in Screens, NoDialog(s), NEW lock \in BOOLEAN,
           NEW ms \in SUBSET Monitors
    PROVE  NoDialog(AddWindows(s, ms, lock))
BY DEF AddWindows, NoDialog, Screens

LEMMA DestroyDialog ==
    ASSUME NEW s \in Screens, NoDialog(s), NEW m \in Monitors
    PROVE  NoDialog(DestroyWindow(s, m))
BY DEF DestroyWindow, NoDialog, Screens

(* gf_manager_request_unlock                                               *)
LEMMA RequestUnlockDialog ==
    ASSUME NEW s \in Screens, NEW w \in s.shown, DialogFits(s)
    PROVE  DialogFits(RequestUnlock(s, w))
<1>1. CASE s.managerUp \/ s.shown = {}
  BY <1>1 DEF RequestUnlock
<1>2. CASE ~s.managerUp /\ w \notin s.locked
  <2> DEFINE t == [s EXCEPT !.deact = @ \cup {w}]
  <2>1. t \in Screens /\ NoDialog(t)
    BY <1>2 DEF DialogFits, SingleDialog, NoDialog, Screens
  <2>2. RequestUnlock(s, w) = t
    BY <1>2 DEF RequestUnlock, WindowRequestUnlock
  <2> HIDE DEF t
  <2>3. QED
    BY <2>1, <2>2, NoDialogFits
<1>3. CASE ~s.managerUp /\ w \in s.locked
  <2>1. NoDialog(s)
    BY <1>3, NoDialogFits DEF DialogFits, SingleDialog
  <2> DEFINE d == DialogUp(s, w)
             t == [d EXCEPT !.popup = @ \cup {w}, !.up = @ \cup {w}]
  <2>2. d \in Screens
    BY DialogUpType DEF Screens
  <2>3. /\ d.up = {} /\ d.popup = {} /\ d.dialog = {} /\ d.managerUp = TRUE
        /\ d.deaf = s.shown \ {w} /\ d.shown = s.shown /\ d.locked = s.locked
    BY <2>1 DEF DialogUp, NoDialog, Screens
  <2>4. RequestUnlock(s, w) = t
    BY <1>3, <2>1 DEF RequestUnlock, WindowRequestUnlock, NoDialog
  <2> HIDE DEF d
  <2>5. /\ t.up = {w} /\ t.popup = {w} /\ t.dialog = {} /\ t.managerUp = TRUE
        /\ t.deaf = s.shown \ {w} /\ t.shown = s.shown /\ t.locked = s.locked
    BY <2>2, <2>3 DEF Screens
  <2> HIDE DEF t
  <2>6. QED
    BY <1>3, <2>4, <2>5, ZenonT(60) DEF DialogFits, SingleDialog
<1>4. QED
  BY <1>1, <1>2, <1>3 DEF Screens

(* popup_dialog_idle_cb                                                    *)
LEMMA PopupDialogFits ==
    ASSUME NEW s \in Screens, NEW w \in s.popup, DialogFits(s)
    PROVE  DialogFits(PopupDialog(s, w))
<1> DEFINE t == PopupDialog(s, w)
<1>1. /\ t.popup = s.popup \ {w} /\ t.dialog = s.dialog \cup {w}
      /\ t.up = s.up /\ t.deaf = s.deaf /\ t.shown = s.shown
      /\ t.managerUp = s.managerUp /\ t.locked = s.locked
  BY DEF PopupDialog, Screens
<1> HIDE DEF t
<1>2. QED
  BY <1>1 DEF DialogFits, SingleDialog, t

(* unlock_dialog_response_cb                                               *)
LEMMA ResponseDialog ==
    ASSUME NEW s \in Screens, NEW w \in s.dialog, DialogFits(s),
           NEW accepted \in BOOLEAN
    PROVE  DialogFits(DialogResponse(s, w, accepted))
<1>1. s.up = {w} /\ s.dialog = {w} /\ s.popup = {}
  BY DEF DialogFits, SingleDialog
<1> DEFINE d == DialogDown(s)
           t == Popdown(s, w)
<1>2. /\ d \in Screens /\ d.up = s.up /\ d.dialog = s.dialog
      /\ d.popup = s.popup /\ d.deaf = {} /\ d.managerUp = FALSE
  BY DEF DialogDown, Screens
<1>3. t = [d EXCEPT !.up = @ \ {w}, !.dialog = @ \ {w}]
  BY <1>1 DEF Popdown
<1> HIDE DEF d
<1>4. t \in Screens /\ NoDialog(t)
  <2>1. t \in Screens
    BY <1>2, <1>3, ZenonT(60) DEF Screens
  <2>2. /\ t.up = d.up \ {w} /\ t.dialog = d.dialog \ {w}
        /\ t.popup = d.popup /\ t.deaf = d.deaf /\ t.managerUp = d.managerUp
    BY <1>2, <1>3 DEF Screens
  <2>3. QED
    BY <1>1, <1>2, <2>1, <2>2 DEF NoDialog
<1> DEFINE u == [t EXCEPT !.deact = @ \cup {w},
                          !.vouched = IF w \in s.deact THEN @ ELSE @ \cup {w}]
<1>5. DialogResponse(s, w, accepted) = IF accepted THEN u ELSE t
  BY DEF DialogResponse
<1>6. w \in Monitors
  BY DEF Screens
<1> HIDE DEF t
<1>7. u \in Screens /\ NoDialog(u)
  BY <1>4, <1>6 DEF Screens, NoDialog
<1> HIDE DEF u
<1>8. QED
  BY <1>4, <1>5, <1>7, NoDialogFits

(* A callback that leaves the windows' dialogs alone                       *)
LEMMA SameDialog ==
    ASSUME DialogFits(screen), screen'.up = screen.up,
           screen'.popup = screen.popup, screen'.dialog = screen.dialog,
           screen'.deaf = screen.deaf, screen'.shown = screen.shown,
           screen'.managerUp = screen.managerUp,
           screen'.locked \in {screen.locked, screen.shown},
           OnlyOfWindows(screen)
    PROVE  DialogFits(screen')
BY DEF DialogFits, SingleDialog, OnlyOfWindows

(* gf_manager_set_lock_active (TRUE)                                       *)
LEMMA LockWindowsDialog ==
    ASSUME TypeOK, InSync, DialogFits(screen)
    PROVE  screen' = LockWindows(screen, TRUE) => DialogFits(screen')
<1> SUFFICES ASSUME screen' = LockWindows(screen, TRUE)
             PROVE  DialogFits(screen')
  OBVIOUS
<1>1. /\ screen'.up = screen.up /\ screen'.popup = screen.popup
      /\ screen'.dialog = screen.dialog /\ screen'.deaf = screen.deaf
      /\ screen'.shown = screen.shown /\ screen'.managerUp = screen.managerUp
      /\ screen'.locked = screen.shown
  BY DEF LockWindows, TypeOK, Screens
<1>2. QED
  BY <1>1, SameDialog DEF InSync

(* gf_grab_*                                                               *)
LEMMA GrabDialog ==
    ASSUME TypeOK, InSync, DialogFits(screen), NEW g
    PROVE  screen' = [screen EXCEPT !.grab = g] => DialogFits(screen')
<1> SUFFICES ASSUME screen' = [screen EXCEPT !.grab = g]
             PROVE  DialogFits(screen')
  OBVIOUS
<1>1. /\ screen'.up = screen.up /\ screen'.popup = screen.popup
      /\ screen'.dialog = screen.dialog /\ screen'.deaf = screen.deaf
      /\ screen'.shown = screen.shown /\ screen'.managerUp = screen.managerUp
      /\ screen'.locked = screen.locked
  BY DEF TypeOK, Screens
<1>2. QED
  BY <1>1, SameDialog DEF InSync

(* gf_manager_set_active (TRUE)                                            *)
LEMMA RaiseDialog ==
    ASSUME TypeOK, InSync, DialogFits(screen), ~manager.active,
           NEW lock \in BOOLEAN, Raise(lock)
    PROVE  DialogFits(screen')
<1> DEFINE s == [screen EXCEPT !.grab = RootGrab]
<1>1. s \in Screens
  BY DEF TypeOK, Screens, Grabs
<1>2. NoDialog(screen)
  BY NoDialogFits DEF InSync, Down, DialogFits, SingleDialog, TypeOK
<1>3. NoDialog(s)
  BY <1>2 DEF NoDialog, TypeOK, Screens
<1>4. screen' = AddWindows(s, monitors, lock)
  BY DEF Raise
<1> HIDE DEF s
<1>5. AddWindows(s, monitors, lock) \in Screens
  BY <1>1, AddWindowsType DEF TypeOK
<1>6. NoDialog(AddWindows(s, monitors, lock))
  BY <1>1, <1>3, NewWindowsDialog DEF TypeOK
<1>7. QED
  BY <1>4, <1>5, <1>6, NoDialogFits

(* gf_manager_set_active (FALSE)                                           *)
LEMMA BareDialog == NoDialog(Bare(NoGrab)) /\ DialogFits(Bare(NoGrab))
<1>1. NoDialog(Bare(NoGrab))
  BY DEF NoDialog, Bare
<1>2. QED
  BY <1>1, BareType, NoDialogFits

LEMMA ListenerDialog ==
    ASSUME TypeOK, InSync, DialogFits(screen)
    PROVE  /\ \A grabbed, lock \in BOOLEAN :
                CanRaise(grabbed) /\ ListenerRaise(lock) => DialogFits(screen')
           /\ ListenerNotRaised => DialogFits(screen')
           /\ ListenerLower => DialogFits(screen')
<1>1. ASSUME NEW grabbed \in BOOLEAN, NEW lock \in BOOLEAN,
             CanRaise(grabbed), ListenerRaise(lock)
      PROVE  DialogFits(screen')
  BY <1>1, RaiseDialog DEF CanRaise, ListenerRaise
<1>2. ListenerNotRaised => DialogFits(screen')
  BY DEF ListenerNotRaised
<1>3. ListenerLower => DialogFits(screen')
  BY BareDialog DEF ListenerLower, Lower
<1>4. QED
  BY <1>1, <1>2, <1>3

LEMMA DialogStep ==
    TypeOK /\ InSync /\ DialogFits(screen) /\ [Next]_vars => DialogFits(screen')
<1> SUFFICES ASSUME TypeOK, InSync, DialogFits(screen), [Next]_vars
             PROVE  DialogFits(screen')
  OBVIOUS
<1>0. screen \in Screens /\ OnlyOfWindows(screen) /\ manager.lock \in BOOLEAN
      /\ monitors \in SUBSET Monitors
  BY DEF TypeOK, InSync, Managers
<1>1. ASSUME screen' = screen
      PROVE  DialogFits(screen')
  BY <1>1
<1>2. CASE LockCall
  <2>1. PICK grabbed \in BOOLEAN :
          IF MayLock THEN Lock(grabbed)
          ELSE UNCHANGED <<listener, watcher, manager, screen, fade, clean>>
    BY <1>2 DEF LockCall
  <2>2. CASE MayLock /\ manager.active
    BY <2>1, <2>2, LockWindowsDialog, <1>1 DEF Lock
  <2>3. CASE MayLock /\ ~manager.active
    BY <2>1, <2>3, ListenerDialog DEF Lock
  <2>4. CASE ~MayLock
    BY <2>1, <2>4
  <2>5. QED
    BY <2>2, <2>3, <2>4
<1>3. CASE SetActiveCall
  BY <1>0, <1>3, ListenerDialog DEF SetActiveCall
<1>4. CASE SetInactiveCall
  BY <1>4, ListenerDialog DEF SetInactiveCall
<1>5. ASSUME NEW w \in Monitors, AskToUnlock(w)
      PROVE  DialogFits(screen')
  BY <1>0, <1>5, RequestUnlockDialog DEF AskToUnlock
<1>6. ASSUME NEW status \in Presences, StatusChanged(status)
      PROVE  DialogFits(screen')
  <2>1. PICK grabbed \in BOOLEAN, faded \in BOOLEAN :
          StatusChangedCb(status = "idle", grabbed, faded)
    BY <1>6 DEF StatusChanged
  <2>2. screen' \in {screen, [screen EXCEPT !.grab = OffscreenGrab]}
    BY <2>1 DEF StatusChangedCb
  <2>3. QED
    BY <2>2, GrabDialog
<1>7. CASE PresenceVanished
  BY <1>7 DEF PresenceVanished, code
<1>8. CASE PrefsChanged
  <2>1. PICK late \in BOOLEAN, p \in Prefs : UpdateFromPrefs(p, late)
    BY <1>8, PrefChoicesAssumption DEF PrefsChanged
  <2>2. screen' \in {screen, LockWindows(screen, TRUE)}
    BY <2>1 DEF UpdateFromPrefs
  <2>3. QED
    BY <2>2, LockWindowsDialog
<1>9. CASE PamChanged
  BY <1>9 DEF PamChanged, code
<1>10. CASE IdleCb
  <2>1. PICK grabbed \in BOOLEAN :
          IF ~watcher.idle /\ ~listener.idle /\ CanRaise(grabbed)
          THEN Raise(manager.lock) ELSE screen' = screen
    BY <1>10 DEF IdleCb
  <2>2. QED
    BY <1>0, <2>1, RaiseDialog DEF CanRaise
<1>11. CASE FadeOut \/ Unfade
  BY <1>11 DEF FadeOut, Unfade
<1>13. CASE LockTimeout
  <2>1. screen' \in {screen, LockWindows(screen, TRUE)}
    BY <1>13 DEF LockTimeout
  <2>2. QED
    BY <2>1, LockWindowsDialog
<1>14. CASE ReleaseGrab
  BY <1>14, GrabDialog DEF ReleaseGrab
<1>15. ASSUME NEW w \in Monitors, WindowDeactivated(w)
       PROVE  DialogFits(screen')
  <2>1. /\ screen'.up = screen.up /\ screen'.popup = screen.popup
        /\ screen'.dialog = screen.dialog /\ screen'.deaf = screen.deaf
        /\ screen'.shown = screen.shown /\ screen'.managerUp = screen.managerUp
        /\ screen'.locked = screen.locked
    BY <1>0, <1>15 DEF WindowDeactivated, Screens
  <2>2. QED
    BY <1>0, <2>1, SameDialog
<1>16. ASSUME NEW c \in Causes, ManagerDeactivated(c)
       PROVE  DialogFits(screen')
  BY <1>16, ListenerDialog DEF ManagerDeactivated
<1>17. ASSUME NEW w \in Monitors, PopupDialogIdle(w)
       PROVE  DialogFits(screen')
  BY <1>0, <1>17, PopupDialogFits DEF PopupDialogIdle
<1>18. ASSUME NEW e \in Monitors, NEW w \in Monitors, Activity(e, w)
       PROVE  DialogFits(screen')
  BY <1>18, <1>5 DEF Activity
<1>19. ASSUME NEW w \in Monitors, NEW atPointer \in BOOLEAN,
              MapEvent(w, atPointer)
       PROVE  DialogFits(screen')
  <2>1. /\ screen'.up = screen.up /\ screen'.popup = screen.popup
        /\ screen'.dialog = screen.dialog /\ screen'.deaf = screen.deaf
        /\ screen'.shown = screen.shown /\ screen'.managerUp = screen.managerUp
        /\ screen'.locked = screen.locked
    BY <1>0, <1>19 DEF MapEvent, Screens
  <2>2. QED
    BY <1>0, <2>1, SameDialog
<1>20. ASSUME NEW w \in Monitors, NEW accepted \in BOOLEAN,
              DialogDone(w, accepted)
       PROVE  DialogFits(screen')
  BY <1>0, <1>20, ResponseDialog DEF DialogDone
<1>21. ASSUME NEW m \in Monitors, NEW w \in Monitors, MonitorAdded(m, w)
       PROVE  DialogFits(screen')
  <2>1. CASE manager.active
    <3> DEFINE s == CancelAll(screen)
               t == AddWindows(s, {m}, manager.lock)
    <3>1. s \in Screens /\ NoDialog(s)
      BY <1>0, CancelAllType, CancelAllDialog
    <3>2. w \in t.shown /\ screen' = RequestUnlock(t, w)
      BY <1>21, <2>1 DEF MonitorAdded
    <3> HIDE DEF s
    <3>3. t \in Screens /\ NoDialog(t)
      BY <1>0, <3>1, AddWindowsType, NewWindowsDialog
    <3> HIDE DEF t
    <3>4. QED
      BY <3>2, <3>3, NoDialogFits, RequestUnlockDialog
  <2>2. CASE ~manager.active
    BY <1>21, <2>2 DEF MonitorAdded
  <2>3. QED
    BY <2>1, <2>2
<1>22. ASSUME NEW m \in Monitors, NEW w \in Monitors, MonitorRemoved(m, w)
       PROVE  DialogFits(screen')
  <2>1. CASE manager.active
    <3> DEFINE s == CancelAll(screen)
               t == DestroyWindow(s, m)
    <3>1. s \in Screens /\ NoDialog(s)
      BY <1>0, CancelAllType, CancelAllDialog
    <3>2. w \in t.shown /\ screen' = RequestUnlock(t, w)
      BY <1>22, <2>1 DEF MonitorRemoved
    <3> HIDE DEF s
    <3>3. t \in Screens /\ NoDialog(t)
      BY <1>0, <3>1, WindowType, DestroyDialog
    <3> HIDE DEF t
    <3>4. QED
      BY <3>2, <3>3, NoDialogFits, RequestUnlockDialog
  <2>2. CASE ~manager.active
    BY <1>22, <2>2 DEF MonitorRemoved
  <2>3. QED
    BY <2>1, <2>2
<1>23. CASE UNCHANGED vars
  BY <1>23 DEF vars, code
<1>24. QED
  BY <1>2, <1>3, <1>4, <1>5, <1>6, <1>7, <1>8, <1>9, <1>10, <1>11,
     <1>13, <1>14, <1>15, <1>16, <1>17, <1>18, <1>19, <1>20, <1>21, <1>22, <1>23
  DEF Next, Bus, Settings, Timers, Events, PrepareForSleep

(* At most one window has the unlock dialog or is about to, only under a   *)
(* lock, and exactly the other windows are deaf.                           *)
THEOREM AlwaysOneDialog == Spec => []OneDialog
<1>1. Init => OneDialog
  BY BareDialog DEF Init, OneDialog, DialogFits
<1>2. TypeOK /\ InSync /\ OneDialog /\ [Next]_vars => OneDialog'
  BY DialogStep DEF OneDialog, DialogFits
<1>3. QED
  BY <1>1, <1>2, TypeCorrect, AlwaysInSync, PTL DEF Spec
-----------------------------------------------------------------------------
(* An active screensaver holds the keyboard.                               *)

(* From the screen s to t no window goes, the grab stays where it is or    *)
(* moves to a window, and no deactivation is withdrawn.                    *)
KeepsGrab(s, t) ==
    /\ s.shown \subseteq t.shown
    /\ t.grab = s.grab \/ t.grab \in t.shown
    /\ s.deact \subseteq t.deact

LEMMA GrabStays ==
    ASSUME GrabHeld, KeepsGrab(screen, screen'),
           manager'.active = manager.active, passes' = passes
    PROVE  GrabHeld'
BY DEF GrabHeld, KeepsGrab, Queued

LEMMA KeepsGrabTransitive ==
    ASSUME NEW s, NEW t, NEW u, t.shown \subseteq u.shown,
           KeepsGrab(s, t), KeepsGrab(t, u)
    PROVE  KeepsGrab(s, u)
BY DEF KeepsGrab

(* gf_window_cancel_unlock_request, create_window_for_monitor,             *)
(* gf_manager_set_lock_active and popup_dialog                             *)
LEMMA WindowsKeepGrab ==
    ASSUME NEW s \in Screens, NEW lock \in BOOLEAN
    PROVE  /\ KeepsGrab(s, CancelAll(s))
           /\ KeepsGrab(s, LockWindows(s, lock))
           /\ \A ms \in SUBSET Monitors : KeepsGrab(s, AddWindows(s, ms, lock))
           /\ \A w \in Monitors : KeepsGrab(s, PopupDialog(s, w))
<1>1. KeepsGrab(s, CancelAll(s))
  BY DEF KeepsGrab, CancelAll, DialogDown, Screens
<1>2. \A ms \in SUBSET Monitors : KeepsGrab(s, AddWindows(s, ms, lock))
  BY DEF KeepsGrab, AddWindows, Screens
<1>3. KeepsGrab(s, LockWindows(s, lock))
  BY DEF KeepsGrab, LockWindows, Screens
<1>4. \A w \in Monitors : KeepsGrab(s, PopupDialog(s, w))
  BY DEF KeepsGrab, PopupDialog, Screens
<1>5. QED
  BY <1>1, <1>2, <1>3, <1>4

(* unlock_dialog_response_cb                                               *)
LEMMA ResponseKeepsGrab ==
    ASSUME NEW s \in Screens, NEW w \in Monitors, NEW accepted \in BOOLEAN
    PROVE  KeepsGrab(s, DialogResponse(s, w, accepted))
<1> DEFINE d == IF w \in s.up THEN DialogDown(s) ELSE s
           t == Popdown(s, w)
<1>1. /\ d \in Screens /\ d.shown = s.shown /\ d.grab = s.grab
      /\ d.deact = s.deact
  BY DEF DialogDown, Screens
<1>2. t = [d EXCEPT !.up = @ \ {w}, !.dialog = @ \ {w}]
  BY DEF Popdown
<1> HIDE DEF d
<1>3. /\ t.shown = s.shown /\ t.grab = s.grab /\ t.deact = s.deact
  BY <1>1, <1>2 DEF Screens
<1>4. t \in Screens
  BY <1>1, <1>2, ZenonT(60) DEF Screens
<1> DEFINE u == [t EXCEPT !.deact = @ \cup {w},
                          !.vouched = IF w \in s.deact THEN @ ELSE @ \cup {w}]
<1>5. DialogResponse(s, w, accepted) = IF accepted THEN u ELSE t
  BY DEF DialogResponse
<1> HIDE DEF t
<1>6. u.shown = t.shown /\ u.grab = t.grab /\ u.deact = t.deact \cup {w}
  BY <1>4 DEF Screens
<1> HIDE DEF u
<1>7. QED
  BY <1>3, <1>5, <1>6 DEF KeepsGrab

(* gf_manager_request_unlock: where no dialog is, the window asked has the *)
(* grab afterwards, or is about to deactivate the screensaver.             *)
LEMMA RequestKeepsGrab ==
    ASSUME NEW s \in Screens, NEW w \in s.shown
    PROVE  /\ KeepsGrab(s, RequestUnlock(s, w))
           /\ RequestUnlock(s, w).shown = s.shown
           /\ NoDialog(s) => \/ RequestUnlock(s, w).grab = w
                             \/ w \in RequestUnlock(s, w).deact
<1> DEFINE r == RequestUnlock(s, w)
<1>1. CASE s.managerUp \/ s.shown = {}
  <2>1. r = s
    BY <1>1 DEF RequestUnlock
  <2>2. ~NoDialog(s)
    BY <1>1 DEF NoDialog
  <2>3. QED
    BY <2>1, <2>2 DEF KeepsGrab
<1>2. CASE ~s.managerUp /\ w \notin s.locked
  <2>1. r = [s EXCEPT !.deact = @ \cup {w}]
    BY <1>2 DEF RequestUnlock, WindowRequestUnlock
  <2> HIDE DEF r
  <2>2. r.shown = s.shown /\ r.grab = s.grab /\ r.deact = s.deact \cup {w}
    BY <2>1 DEF Screens
  <2>3. QED
    BY <2>2 DEF KeepsGrab, r
<1>3. CASE ~s.managerUp /\ w \in s.locked /\ w \in s.up \cup s.popup
  <2>1. r = s
    BY <1>3 DEF RequestUnlock, WindowRequestUnlock
  <2>2. ~NoDialog(s)
    BY <1>3 DEF NoDialog
  <2>3. QED
    BY <2>1, <2>2 DEF KeepsGrab
<1>4. CASE ~s.managerUp /\ w \in s.locked /\ w \notin s.up \cup s.popup
  <2> DEFINE d == DialogUp(s, w)
  <2>1. d \in Screens
    BY DialogUpType DEF Screens
  <2>2. d.shown = s.shown /\ d.grab = w /\ d.deact = s.deact
    BY DEF DialogUp, Screens
  <2>3. r = [d EXCEPT !.popup = @ \cup {w}, !.up = @ \cup {w}]
    BY <1>4 DEF RequestUnlock, WindowRequestUnlock
  <2> HIDE DEF d, r
  <2>4. r.shown = s.shown /\ r.grab = w /\ r.deact = s.deact
    BY <2>1, <2>2, <2>3 DEF Screens
  <2>5. QED
    BY <2>4 DEF KeepsGrab, r
<1>5. QED
  BY <1>1, <1>2, <1>3, <1>4 DEF Screens

(* gf_manager_set_active: the root grab comes before the windows.          *)
LEMMA RaiseHoldsGrab ==
    ASSUME TypeOK, NEW lock \in BOOLEAN, Raise(lock)
    PROVE  GrabHeld'
<1> DEFINE s == [screen EXCEPT !.grab = RootGrab]
<1>1. s \in Screens /\ s.grab = RootGrab
  BY DEF TypeOK, Screens, Grabs
<1>2. screen' = AddWindows(s, monitors, lock)
  BY DEF Raise
<1> HIDE DEF s
<1>3. screen'.grab = RootGrab
  BY <1>1, <1>2 DEF AddWindows, Screens
<1>4. QED
  BY <1>3 DEF GrabHeld

LEMMA ListenerHoldsGrab ==
    ASSUME TypeOK, InSync, GrabHeld
    PROVE  /\ \A lock \in BOOLEAN : ListenerRaise(lock) => GrabHeld'
           /\ ListenerNotRaised /\ passes' = passes => GrabHeld'
           /\ ListenerLower /\ passes' = passes => GrabHeld'
           /\ ListenerLower /\ manager.active => GrabHeld'
<1>1. \A lock \in BOOLEAN : ListenerRaise(lock) => GrabHeld'
  BY RaiseHoldsGrab DEF ListenerRaise
<1>2. ListenerNotRaised /\ passes' = passes => GrabHeld'
  BY DEF ListenerNotRaised, GrabHeld, Queued
<1>3. ASSUME ListenerLower, manager.active
      PROVE  GrabHeld'
  <2>1. ~manager'.active
    BY <1>3 DEF ListenerLower, InSync, Lower, TypeOK, Managers
  <2>2. QED
    BY <2>1 DEF GrabHeld
<1>4. ASSUME ListenerLower, ~manager.active, passes' = passes
      PROVE  GrabHeld'
  BY <1>4 DEF ListenerLower, GrabHeld, Queued
<1>5. QED
  BY <1>1, <1>2, <1>3, <1>4

LEMMA GrabStep ==
    TypeOK /\ InSync /\ DialogFits(screen) /\ GrabHeld /\ [Next]_vars => GrabHeld'
<1> SUFFICES ASSUME TypeOK, InSync, DialogFits(screen), GrabHeld, [Next]_vars
             PROVE  GrabHeld'
  OBVIOUS
<1>0. screen \in Screens /\ OnlyOfWindows(screen) /\ manager.lock \in BOOLEAN
      /\ monitors \in SUBSET Monitors
  BY DEF TypeOK, InSync, Managers
<1>1. ASSUME screen' = screen, manager'.active = manager.active, passes' = passes
      PROVE  GrabHeld'
  BY <1>1 DEF GrabHeld, Queued
<1>2. ASSUME screen' \in {screen, LockWindows(screen, TRUE)},
             manager'.active = manager.active, passes' = passes
      PROVE  GrabHeld'
  <2>1. KeepsGrab(screen, LockWindows(screen, TRUE))
    BY <1>0, WindowsKeepGrab
  <2>2. KeepsGrab(screen, screen)
    BY DEF KeepsGrab
  <2>3. KeepsGrab(screen, screen')
    BY <1>2, <2>1, <2>2
  <2>4. QED
    BY <1>2, <2>3, GrabStays
<1>3. CASE LockCall
  <2>1. PICK grabbed \in BOOLEAN :
          IF MayLock THEN Lock(grabbed)
          ELSE UNCHANGED <<listener, watcher, manager, screen, fade, clean>>
    BY <1>3 DEF LockCall
  <2>2. passes' = passes
    BY <1>3 DEF LockCall
  <2>3. CASE MayLock /\ manager.active
    <3>1. screen' \in {screen, LockWindows(screen, TRUE)}
      BY <2>1, <2>3 DEF Lock
    <3>2. manager'.active = manager.active
      BY <2>1, <2>3 DEF Lock, TypeOK, Managers
    <3>3. QED
      BY <2>2, <3>1, <3>2, <1>2
  <2>4. CASE MayLock /\ ~manager.active
    BY <2>1, <2>2, <2>4, ListenerHoldsGrab DEF Lock
  <2>5. CASE ~MayLock
    BY <2>1, <2>2, <2>5, <1>1
  <2>6. QED
    BY <2>3, <2>4, <2>5
<1>4. CASE SetActiveCall
  BY <1>0, <1>4, ListenerHoldsGrab DEF SetActiveCall
<1>5. CASE SetInactiveCall
  BY <1>5, ListenerHoldsGrab DEF SetInactiveCall
<1>6. ASSUME NEW w \in Monitors, AskToUnlock(w)
      PROVE  GrabHeld'
  BY <1>0, <1>6, RequestKeepsGrab, GrabStays DEF AskToUnlock
<1>7. ASSUME NEW status \in Presences, StatusChanged(status)
      PROVE  GrabHeld'
  <2>1. PICK grabbed \in BOOLEAN, faded \in BOOLEAN :
          StatusChangedCb(status = "idle", grabbed, faded)
    BY <1>7 DEF StatusChanged
  <2>2. CASE manager.active
    <3>1. screen' = screen
      BY <2>1, <2>2 DEF StatusChangedCb, InSync
    <3>2. QED
      BY <1>7, <3>1, <1>1 DEF StatusChanged
  <2>3. CASE ~manager.active
    BY <1>7, <2>3 DEF StatusChanged, GrabHeld
  <2>4. QED
    BY <2>2, <2>3
<1>8. CASE PresenceVanished \/ PamChanged
  BY <1>8, <1>1 DEF PresenceVanished, PamChanged, code
<1>9. CASE PrefsChanged
  <2>1. PICK late \in BOOLEAN, p \in PrefChoices : UpdateFromPrefs(p, late)
    BY <1>9 DEF PrefsChanged
  <2>2. screen' \in {screen, LockWindows(screen, TRUE)}
    BY <2>1 DEF UpdateFromPrefs
  <2>3. manager'.active = manager.active
    BY <2>1 DEF UpdateFromPrefs, TypeOK, Managers
  <2>4. QED
    BY <1>9, <2>2, <2>3, <1>2 DEF PrefsChanged
<1>10. CASE IdleCb
  <2>1. Raise(manager.lock) \/ UNCHANGED <<manager, screen>>
    BY <1>10 DEF IdleCb
  <2>2. QED
    BY <1>0, <1>10, <2>1, <1>1, RaiseHoldsGrab DEF IdleCb
<1>11. CASE FadeOut \/ Unfade
  BY <1>11, <1>1 DEF FadeOut, Unfade, TypeOK, Managers
<1>12. CASE LockTimeout
  <2>1. screen' \in {screen, LockWindows(screen, TRUE)}
    BY <1>12 DEF LockTimeout
  <2>2. manager'.active = manager.active
    BY <1>12 DEF LockTimeout, TypeOK, Managers
  <2>3. QED
    BY <1>12, <2>1, <2>2, <1>2 DEF LockTimeout
<1>13. CASE ReleaseGrab
  BY <1>13 DEF ReleaseGrab, GrabHeld, Queued
<1>14. ASSUME NEW w \in Monitors, WindowDeactivated(w)
       PROVE  GrabHeld'
  <2>1. screen'.shown = screen.shown /\ screen'.grab = screen.grab
    BY <1>0, <1>14 DEF WindowDeactivated, Screens
  <2>2. PICK c \in Causes : passes' = [passes EXCEPT ![c] = @ + 1]
    BY <1>14 DEF WindowDeactivated, Causes
  <2>3. passes'[c] > 0
    BY <2>2 DEF TypeOK
  <2>4. manager' = manager
    BY <1>14 DEF WindowDeactivated
  <2>5. QED
    BY <2>1, <2>3, <2>4 DEF GrabHeld, Queued
<1>15. ASSUME NEW c \in Causes, ManagerDeactivated(c)
       PROVE  GrabHeld'
  <2>1. CASE manager.active
    BY <1>15, <2>1, ListenerHoldsGrab DEF ManagerDeactivated
  <2>2. CASE ~manager.active
    BY <1>15, <2>2 DEF ManagerDeactivated, ListenerLower, GrabHeld
  <2>3. QED
    BY <2>1, <2>2
<1>16. ASSUME NEW w \in Monitors, PopupDialogIdle(w)
       PROVE  GrabHeld'
  BY <1>0, <1>16, WindowsKeepGrab, GrabStays DEF PopupDialogIdle
<1>17. ASSUME NEW e \in Monitors, NEW w \in Monitors, Activity(e, w)
       PROVE  GrabHeld'
  BY <1>17, <1>6 DEF Activity
<1>18. ASSUME NEW w \in Monitors, NEW atPointer \in BOOLEAN,
              MapEvent(w, atPointer)
       PROVE  GrabHeld'
  <2>1. w \in screen.shown
    BY <1>0, <1>18 DEF MapEvent, OnlyOfWindows
  <2>2. KeepsGrab(screen, screen')
    BY <1>0, <1>18, <2>1 DEF MapEvent, KeepsGrab, Screens
  <2>3. QED
    BY <1>18, <2>2, GrabStays DEF MapEvent
<1>19. ASSUME NEW w \in Monitors, NEW accepted \in BOOLEAN,
              DialogDone(w, accepted)
       PROVE  GrabHeld'
  BY <1>0, <1>19, ResponseKeepsGrab, GrabStays DEF DialogDone
<1>20. ASSUME NEW m \in Monitors, NEW w \in Monitors, MonitorAdded(m, w)
       PROVE  GrabHeld'
  <2>1. CASE manager.active
    <3> DEFINE s == CancelAll(screen)
               t == AddWindows(s, {m}, manager.lock)
    <3>1. s \in Screens /\ KeepsGrab(screen, s)
      BY <1>0, CancelAllType, WindowsKeepGrab
    <3>2. w \in t.shown /\ screen' = RequestUnlock(t, w)
      BY <1>20, <2>1 DEF MonitorAdded
    <3> HIDE DEF s
    <3>3. t \in Screens /\ KeepsGrab(s, t)
      BY <1>0, <3>1, AddWindowsType, WindowsKeepGrab
    <3> HIDE DEF t
    <3>4. KeepsGrab(screen, t)
      BY <3>1, <3>3, KeepsGrabTransitive DEF KeepsGrab
    <3>5. KeepsGrab(t, screen') /\ screen'.shown = t.shown
      BY <3>2, <3>3, RequestKeepsGrab
    <3>6. KeepsGrab(screen, screen')
      BY <3>4, <3>5 DEF KeepsGrab
    <3>7. manager'.active = manager.active
      BY <1>20, <2>1 DEF MonitorAdded, TypeOK, Managers
    <3>8. QED
      BY <1>20, <3>6, <3>7, GrabStays DEF MonitorAdded
  <2>2. CASE ~manager.active
    BY <1>20, <2>2 DEF MonitorAdded, GrabHeld
  <2>3. QED
    BY <2>1, <2>2
<1>21. ASSUME NEW m \in Monitors, NEW w \in Monitors, MonitorRemoved(m, w)
       PROVE  GrabHeld'
  <2>1. CASE manager.active
    <3> DEFINE s == CancelAll(screen)
               t == DestroyWindow(s, m)
    <3>1. s \in Screens /\ NoDialog(s) /\ KeepsGrab(screen, s)
      BY <1>0, CancelAllType, CancelAllDialog, WindowsKeepGrab
    <3>2. w \in t.shown /\ screen' = RequestUnlock(t, w)
      BY <1>21, <2>1 DEF MonitorRemoved
    <3>3. s.shown = screen.shown
      BY <1>0, WindowsEffect
    <3> HIDE DEF s
    <3>4. t \in Screens /\ NoDialog(t)
      BY <1>0, <3>1, WindowType, DestroyDialog
    <3>5. /\ t.shown = s.shown \ {m} /\ t.deact = s.deact \ {m}
          /\ t.grab = IF s.grab = m THEN NoGrab ELSE s.grab
      BY <3>1 DEF DestroyWindow, Screens
    <3> HIDE DEF t
    <3>6. KeepsGrab(t, screen') /\ screen'.shown = t.shown
      BY <3>2, <3>4, RequestKeepsGrab
    <3>7. screen'.grab = w \/ w \in screen'.deact
      BY <3>2, <3>4, RequestKeepsGrab
    <3>8. screen.grab \in screen.shown \cup {RootGrab, NoGrab}
      BY <2>1 DEF GrabHeld
    <3>9. t.grab \in t.shown \cup {RootGrab, NoGrab}
      BY <3>1, <3>3, <3>5, <3>8 DEF KeepsGrab
    <3>10. screen'.grab \in screen'.shown \cup {RootGrab, NoGrab}
      BY <3>6, <3>9 DEF KeepsGrab
    <3>11. QED
      BY <3>2, <3>6, <3>7, <3>10 DEF GrabHeld, Queued
  <2>2. CASE ~manager.active
    BY <1>21, <2>2 DEF MonitorRemoved, GrabHeld
  <2>3. QED
    BY <2>1, <2>2
<1>22. CASE UNCHANGED vars
  BY <1>22, <1>1 DEF vars, code
<1>23. QED
  BY <1>3, <1>4, <1>5, <1>6, <1>7, <1>8, <1>9, <1>10, <1>11, <1>12, <1>13,
     <1>14, <1>15, <1>16, <1>17, <1>18, <1>19, <1>20, <1>21, <1>22
  DEF Next, Bus, Settings, Timers, Events, PrepareForSleep

(* While the screensaver is active the keyboard is grabbed by the root     *)
(* window or by a shield; the removal of the monitor that has the grab     *)
(* moves it to the window under the pointer, or the screensaver, unlocked, *)
(* is about to end.                                                        *)
THEOREM AlwaysGrabHeld == Spec => []GrabHeld
<1>1. Init => GrabHeld
  BY DEF Init, GrabHeld
<1>2. TypeOK /\ InSync /\ OneDialog /\ GrabHeld /\ [Next]_vars => GrabHeld'
  BY GrabStep DEF OneDialog, DialogFits
<1>3. QED
  BY <1>1, <1>2, TypeCorrect, AlwaysInSync, AlwaysOneDialog, PTL DEF Spec

-----------------------------------------------------------------------------
(***************************************************************************)
(* Module Screensaver implements ScreenLock                                *)
(***************************************************************************)

(* What the mapping reads *)
LEMMA Stutter ==
    ASSUME manager'.active = manager.active, manager'.lock = manager.lock,
           clean' = clean, passes' = passes
    PROVE  UNCHANGED Abstract!vars
BY DEF Abstract!vars

(* gf_manager_set_active (TRUE) of an unlocked manager shields, with the   *)
(* lock flag it locks.                                                     *)
LEMMA RaiseMaps ==
    ASSUME TypeOK, InSync, NEW lock \in BOOLEAN, Raise(lock), ~manager.active,
           clean' \in BOOLEAN, passes' = passes,
           IF lock THEN clean' => NothingQueued(screen) ELSE clean' = clean
    PROVE  Abstract!Next
<1>1. manager'.active = TRUE /\ manager'.lock = lock
  BY DEF Raise, TypeOK, Managers
<1>2. CASE lock
  BY <1>1, <1>2 DEF Abstract!Next, Abstract!Lock, NothingQueued, Causes
<1>3. CASE ~lock
  BY <1>1, <1>3 DEF Abstract!Next, Abstract!Shield
<1>4. QED
  BY <1>2, <1>3

(* gf_manager_set_lock_active (TRUE) of an unlocked shield                 *)
LEMMA LockMaps ==
    ASSUME TypeOK, manager.active, ~manager.lock, manager'.active = TRUE,
           manager'.lock = TRUE, clean' = NothingQueued(screen),
           passes' = passes
    PROVE  Abstract!Next
<1>1. clean' \in BOOLEAN /\ (clean' => /\ passes["password"] = 0
                                       /\ passes["unlocked"] = 0)
  BY DEF NothingQueued, Causes
<1>2. QED
  BY <1>1 DEF Abstract!Next, Abstract!Lock

(* Every callback is a step of the abstract screen lock, or none.          *)
LEMMA RefinementStep ==
    TypeOK /\ InSync /\ EveryMonitorShielded /\ OnlyPasswordsQueued
        /\ [Next]_vars => [Abstract!Next]_(Abstract!vars)
<1> SUFFICES ASSUME TypeOK, InSync, EveryMonitorShielded, OnlyPasswordsQueued,
                    [Next]_vars
             PROVE  Abstract!Next \/ UNCHANGED Abstract!vars
  OBVIOUS
<1>0. /\ manager.active \in BOOLEAN /\ manager.lock \in BOOLEAN
      /\ clean \in BOOLEAN
      /\ passes["password"] \in Nat /\ passes["unlocked"] \in Nat
  BY DEF TypeOK, Managers, Causes
<1>a. /\ ~manager.active => ~manager.lock /\ ~clean
      /\ clean => manager.lock /\ passes["unlocked"] = 0
      /\ listener.active = manager.active
  BY <1>0 DEF InSync, Down, OnlyPasswordsQueued
<1>1. ASSUME manager' = manager, clean' = clean, passes' = passes
      PROVE  UNCHANGED Abstract!vars
  BY <1>1, Stutter
<1>2. CASE LockCall
  <2>1. PICK grabbed \in BOOLEAN :
          IF MayLock THEN Lock(grabbed)
          ELSE UNCHANGED <<listener, watcher, manager, screen, fade, clean>>
    BY <1>2 DEF LockCall
  <2>2. passes' = passes
    BY <1>2 DEF LockCall
  <2>3. CASE MayLock /\ manager.active /\ manager.lock
    BY <2>1, <2>2, <2>3, Stutter DEF Lock, TypeOK, Managers
  <2>4. CASE MayLock /\ manager.active /\ ~manager.lock
    <3>1. manager'.active = TRUE /\ manager'.lock = TRUE
          /\ clean' = NothingQueued(screen)
      BY <2>1, <2>4 DEF Lock, TypeOK, Managers
    <3>2. QED
      BY <2>2, <2>4, <3>1, LockMaps
  <2>5. CASE MayLock /\ ~manager.active /\ CanRaise(grabbed)
    <3>1. Raise(TRUE) /\ clean' = NothingQueued(screen)
      BY <2>1, <2>5 DEF Lock, ListenerRaise
    <3>2. NothingQueued(screen) \in BOOLEAN
      BY DEF NothingQueued
    <3>3. QED
      BY <2>2, <2>5, <3>1, <3>2, RaiseMaps
  <2>6. CASE ~MayLock \/ (~manager.active /\ ~CanRaise(grabbed))
    BY <2>1, <2>2, <2>6, <1>1 DEF Lock, ListenerNotRaised
  <2>7. QED
    BY <2>3, <2>4, <2>5, <2>6
<1>3. CASE SetActiveCall
  <2>1. PICK grabbed \in BOOLEAN :
          IF CanRaise(grabbed) THEN ListenerRaise(manager.lock)
          ELSE ListenerNotRaised
    BY <1>3 DEF SetActiveCall
  <2>2. passes' = passes /\ clean' = clean
    BY <1>3 DEF SetActiveCall
  <2>3. CASE CanRaise(grabbed)
    <3>1. Raise(manager.lock) /\ ~manager.active
      BY <2>1, <2>3 DEF ListenerRaise, CanRaise
    <3>2. QED
      BY <1>0, <1>a, <2>2, <3>1, RaiseMaps
  <2>4. CASE ~CanRaise(grabbed)
    BY <2>1, <2>2, <2>4, <1>1 DEF ListenerNotRaised
  <2>5. QED
    BY <2>3, <2>4
<1>4. CASE SetInactiveCall
  <2>1. CASE manager.active
    <3>1. manager'.active = FALSE /\ clean' = FALSE /\ passes' = passes
      BY <1>4, <1>a, <2>1 DEF SetInactiveCall, ListenerLower, Lower, TypeOK, Managers
    <3>2. QED
      BY <2>1, <3>1 DEF Abstract!Next, Abstract!EndByCall
  <2>2. CASE ~manager.active
    BY <1>4, <2>2, <1>1 DEF SetInactiveCall, ListenerLower
  <2>3. QED
    BY <2>1, <2>2
<1>5. CASE PrefsChanged
  <2>1. PICK late \in BOOLEAN, p \in Prefs : UpdateFromPrefs(p, late)
    BY <1>5, PrefChoicesAssumption DEF PrefsChanged
  <2> DEFINE lockNow == /\ manager.lockTimeout # p.lockDelay
                        /\ manager.active /\ ~manager.lock /\ late
                        /\ p.lockEnabled /\ ~p.lockDisabled /\ pam
  <2>2. passes' = passes
    BY <1>5 DEF PrefsChanged
  <2>3. manager'.active = manager.active /\ manager'.lock = (manager.lock \/ lockNow)
    BY <2>1 DEF UpdateFromPrefs, TypeOK, Managers
  <2>4. CASE lockNow
    <3>1. clean' = NothingQueued(screen) /\ manager'.active = TRUE
          /\ manager'.lock = TRUE
      BY <2>1, <2>3, <2>4 DEF UpdateFromPrefs
    <3>2. QED
      BY <2>2, <2>4, <3>1, LockMaps
  <2>5. CASE ~lockNow
    <3>1. clean' = clean
      BY <2>1, <2>5 DEF UpdateFromPrefs
    <3>2. QED
      BY <1>0, <2>2, <2>3, <2>5, <3>1, Stutter
  <2>6. QED
    BY <2>4, <2>5
<1>6. CASE IdleCb
  <2>1. PICK grabbed \in BOOLEAN :
          IF ~watcher.idle /\ ~listener.idle /\ CanRaise(grabbed)
          THEN Raise(manager.lock) ELSE manager' = manager
    BY <1>6 DEF IdleCb
  <2>2. passes' = passes /\ clean' = clean
    BY <1>6 DEF IdleCb
  <2>3. CASE ~watcher.idle /\ ~listener.idle /\ CanRaise(grabbed)
    <3>1. Raise(manager.lock) /\ ~manager.active
      BY <2>1, <2>3 DEF CanRaise
    <3>2. QED
      BY <1>0, <1>a, <2>2, <3>1, RaiseMaps
  <2>4. CASE ~(~watcher.idle /\ ~listener.idle /\ CanRaise(grabbed))
    <3>1. manager' = manager
      BY <2>1, <2>4
    <3>2. QED
      BY <2>2, <3>1, <1>1
  <2>5. QED
    BY <2>3, <2>4
<1>7. CASE Unfade
  <2>1. manager'.active = manager.active /\ manager'.lock = manager.lock
        /\ passes' = passes /\ clean' = clean
    BY <1>7 DEF Unfade, TypeOK, Managers
  <2>2. QED
    BY <2>1, Stutter
<1>8. CASE LockTimeout
  <2> DEFINE lockNow == manager.lockEnabled /\ ~manager.lock
  <2>1. /\ manager'.active = manager.active
        /\ manager'.lock = (manager.lock \/ lockNow)
        /\ passes' = passes /\ manager.active = TRUE
        /\ clean' = IF lockNow THEN NothingQueued(screen) ELSE clean
    BY <1>8 DEF LockTimeout, TypeOK, Managers, InSync, Down
  <2>2. CASE lockNow
    BY <2>1, <2>2, LockMaps
  <2>3. CASE ~lockNow
    BY <1>0, <2>1, <2>3, Stutter
  <2>4. QED
    BY <2>2, <2>3
<1>9. ASSUME NEW w \in Monitors, WindowDeactivated(w)
      PROVE  Abstract!Next
  <2>1. manager' = manager /\ clean' = clean
    BY <1>9 DEF WindowDeactivated
  <2>2. CASE w \in screen.vouched
    <3>1. passes'["password"] = passes["password"] + 1
          /\ passes'["unlocked"] = passes["unlocked"]
      BY <1>9, <2>2 DEF WindowDeactivated, TypeOK, Causes
    <3>2. QED
      BY <2>1, <3>1 DEF Abstract!Next, Abstract!AcceptPassword
  <2>3. CASE w \notin screen.vouched
    <3>1. passes'["unlocked"] = passes["unlocked"] + 1
          /\ passes'["password"] = passes["password"]
      BY <1>9, <2>3 DEF WindowDeactivated, TypeOK, Causes
    <3>2. ~clean
      BY <1>9, <2>3 DEF WindowDeactivated, OnlyPasswordsQueued
    <3>3. QED
      BY <2>1, <3>1, <3>2 DEF Abstract!Next, Abstract!AskToEnd
  <2>4. QED
    BY <2>2, <2>3
<1>10. ASSUME NEW c \in Causes, ManagerDeactivated(c)
       PROVE  Abstract!Next
  <2>1. manager'.active = FALSE /\ clean' = FALSE
    <3>1. ListenerLower
      BY <1>10 DEF ManagerDeactivated
    <3>2. CASE manager.active
      BY <1>a, <3>1, <3>2 DEF ListenerLower, Lower, TypeOK, Managers
    <3>3. CASE ~manager.active
      BY <1>0, <1>a, <3>1, <3>3 DEF ListenerLower
    <3>4. QED
      BY <3>2, <3>3
  <2>2. passes[c] > 0 /\ passes' = [passes EXCEPT ![c] = @ - 1]
    BY <1>10 DEF ManagerDeactivated
  <2>3. CASE c = "password"
    <3>1. passes'["password"] = passes["password"] - 1
          /\ passes'["unlocked"] = passes["unlocked"]
      BY <2>2, <2>3 DEF TypeOK, Causes
    <3>2. QED
      BY <2>1, <2>2, <2>3, <3>1 DEF Abstract!Next, Abstract!End
  <2>4. CASE c = "unlocked"
    <3>1. passes'["unlocked"] = passes["unlocked"] - 1
          /\ passes'["password"] = passes["password"]
      BY <2>2, <2>4 DEF TypeOK, Causes
    <3>2. QED
      BY <2>1, <2>2, <2>4, <3>1 DEF Abstract!Next, Abstract!End
  <2>5. QED
    BY <2>3, <2>4 DEF Causes
<1>11. ASSUME NEW m \in Monitors, NEW w \in Monitors, MonitorAdded(m, w)
       PROVE  UNCHANGED Abstract!vars
  <2>1. manager'.active = manager.active /\ manager'.lock = manager.lock
        /\ passes' = passes /\ clean' = clean
    BY <1>11 DEF MonitorAdded, TypeOK, Managers
  <2>2. QED
    BY <2>1, Stutter
<1>12. CASE UNCHANGED <<manager, clean, passes>>
  BY <1>12, <1>1
<1>13. QED
  <2>1. \/ LockCall \/ SetActiveCall \/ SetInactiveCall \/ PrefsChanged
        \/ IdleCb \/ Unfade \/ LockTimeout
        \/ \E w \in Monitors : WindowDeactivated(w)
        \/ \E c \in Causes : ManagerDeactivated(c)
        \/ \E m, w \in Monitors : MonitorAdded(m, w)
        \/ UNCHANGED <<manager, clean, passes>>
    BY DEF Next, Bus, Settings, Timers, Events, PrepareForSleep, AskToUnlock,
           StatusChanged, PresenceVanished, PamChanged, FadeOut, ReleaseGrab,
           PopupDialogIdle, Activity, MapEvent, DialogDone, MonitorRemoved,
           code, vars
  <2>2. QED
    BY <2>1, <1>2, <1>3, <1>4, <1>5, <1>6, <1>7, <1>8, <1>9, <1>10, <1>11, <1>12

(* Every behaviour of the screensaver is one of the abstract screen lock:  *)
(* a sealed lock is ended by a password or a call and by nothing else.     *)
THEOREM Implements == Spec => ImplementsScreenLock
<1>1. Init => Abstract!Init
  BY DEF Init, Abstract!Init, Causes
<1>2. QED
  BY <1>1, RefinementStep, TypeCorrect, AlwaysInSync, AlwaysShielded,
     AlwaysOnlyPasswords, PTL
  DEF Spec, ImplementsScreenLock, Abstract!Spec
=============================================================================
