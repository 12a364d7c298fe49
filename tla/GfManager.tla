------------------------------ MODULE GfManager ------------------------------
(***************************************************************************)
(* What the methods of GfManager and GfWindow (libscreensaver) do to the   *)
(* screen: the shield windows, one per monitor, the unlock dialog on one   *)
(* of them, and the grab of keyboard and pointer.                          *)
(*                                                                         *)
(* The methods call each other through synchronous GObject signals, so     *)
(* each one is a function from screen to screen, and a handler of the main *)
(* loop (an action of module Screensaver) is a composition of them.  A     *)
(* boolean field of GfWindow is the set of monitors whose window has it.   *)
(***************************************************************************)
EXTENDS FiniteSets

CONSTANTS
    Monitors,       \* every GdkMonitor that may be connected
    NoGrab,         \* self->grab_window == NULL
    RootGrab,       \* grabbed on the root window
    OffscreenGrab   \* grabbed on the invisible widget

(* The three grabs without a shield window are told apart and are no       *)
(* monitors.                                                               *)
ASSUME GrabAssumption ==
    /\ NoGrab \notin Monitors
    /\ RootGrab \notin Monitors
    /\ OffscreenGrab \notin Monitors
    /\ NoGrab # RootGrab
    /\ NoGrab # OffscreenGrab
    /\ RootGrab # OffscreenGrab

Grabs == Monitors \cup {NoGrab, RootGrab, OffscreenGrab}

(* shown    : monitors with a shield window (self->windows);               *)
(* locked   : GfWindow.lock_enabled;       up    : GfWindow.dialog_up;     *)
(* popup    : popup_dialog_idle_id # 0;    dialog: unlock_dialog # NULL;   *)
(* deact    : emit_deactivated_idle_id # 0;                                *)
(* deaf     : the widget is insensitive;                                   *)
(* unmapped : its map-event has not arrived yet;                           *)
(* managerUp: GfManager.dialog_up;         grab  : GfGrab.grab_window.     *)
(* vouched is history: the members of deact queued by an accepted password.*)
Screens ==
    [shown : SUBSET Monitors, locked : SUBSET Monitors, up : SUBSET Monitors,
     popup : SUBSET Monitors, dialog : SUBSET Monitors,
     deact : SUBSET Monitors, vouched : SUBSET Monitors,
     deaf : SUBSET Monitors, unmapped : SUBSET Monitors,
     managerUp : BOOLEAN, grab : Grabs]

(* Only a window that exists has any state: what is left of a destroyed    *)
(* one would turn up again with the next window of that monitor.           *)
OnlyOfWindows(s) ==
    /\ s.locked \subseteq s.shown /\ s.up \subseteq s.shown
    /\ s.popup \subseteq s.shown  /\ s.dialog \subseteq s.shown
    /\ s.deact \subseteq s.shown  /\ s.vouched \subseteq s.deact
    /\ s.deaf \subseteq s.shown   /\ s.unmapped \subseteq s.shown

(* One dialog at most, shown or scheduled, never both on a window          *)
(* (g_assert in popup_dialog); the manager knows of it, and exactly the    *)
(* other windows are deaf.                                                 *)
SingleDialog(s) ==
    /\ s.up = s.popup \cup s.dialog
    /\ s.popup \cap s.dialog = {}
    /\ \A v, w \in s.up : v = w
    /\ s.managerUp = (s.up # {})
    /\ s.deaf = IF s.up = {} THEN {} ELSE s.shown \ s.up

(* No shield windows: before the first activation and after destroy_windows *)
Bare(grab) ==
    [shown |-> {}, locked |-> {}, up |-> {}, popup |-> {}, dialog |-> {},
     deact |-> {}, vouched |-> {}, deaf |-> {}, unmapped |-> {},
     managerUp |-> FALSE, grab |-> grab]

-----------------------------------------------------------------------------
(* window_dialog_up_cb with up = TRUE: every other window goes deaf, the   *)
(* grab moves to w.  gf_grab_move_to_window loops until the grab succeeds. *)
DialogUp(s, w) ==
    [s EXCEPT !.managerUp = TRUE,
              !.deaf = @ \cup (s.shown \ {w}),
              !.grab = w]

(* window_dialog_up_cb with up = FALSE                                     *)
DialogDown(s) == [s EXCEPT !.managerUp = FALSE, !.deaf = {}]

(* Mutant: the test of lock_enabled is gone.                               *)
WindowRequestUnlockUnasked(s, w) == [s EXCEPT !.deact = @ \cup {w}]

(* gf_window_request_unlock: without a lock the window asks to be          *)
(* deactivated, with one it schedules the dialog, once.                    *)
WindowRequestUnlock(s, w) ==
    IF w \notin s.locked
    THEN [s EXCEPT !.deact = @ \cup {w}]
    ELSE IF w \in s.up \cup s.popup
         THEN s
         ELSE [DialogUp(s, w) EXCEPT !.popup = @ \cup {w},
                                     !.up = @ \cup {w}]

(* gf_manager_request_unlock; w is the window find_window_at_pointer       *)
(* returns (any window: when the pointer is on none, the first one)        *)
RequestUnlock(s, w) ==
    IF s.managerUp \/ s.shown = {} THEN s ELSE WindowRequestUnlock(s, w)

(* popdown_dialog                                                          *)
Popdown(s, w) ==
    LET t == IF w \in s.up THEN DialogDown(s) ELSE s
    IN [t EXCEPT !.up = @ \ {w}, !.dialog = @ \ {w}]

(* Mutant: a scheduled popup survives the cancel.                          *)
CancelAllKeepingPopups(s) ==
    LET t == IF s.up # {} THEN DialogDown(s) ELSE s
    IN [t EXCEPT !.up = {}, !.dialog = {}]

(* gf_window_cancel_unlock_request on every window, as the monitor         *)
(* handlers do                                                             *)
CancelAll(s) ==
    LET t == IF s.up # {} THEN DialogDown(s) ELSE s
    IN [t EXCEPT !.popup = {}, !.up = {}, !.dialog = {}]

(* popup_dialog_idle_cb and popup_dialog                                   *)
PopupDialog(s, w) ==
    [s EXCEPT !.popup = @ \ {w}, !.dialog = @ \cup {w}]

(* Mutant: new windows do not take over lock_active.                       *)
AddWindowsUnlocked(s, ms, lockActive) ==
    [s EXCEPT !.shown = @ \cup ms, !.unmapped = @ \cup ms]

(* create_window_for_monitor for every m in ms, and the insertion into the *)
(* list; the windows take over the manager's lock_active                   *)
AddWindows(s, ms, lockActive) ==
    [s EXCEPT !.shown = @ \cup ms,
              !.locked = IF lockActive THEN @ \cup ms ELSE @,
              !.unmapped = @ \cup ms]

(* gtk_widget_destroy of one window: gf_window_finalize removes its idle   *)
(* sources, and the weak pointer of GfGrab resets a grab on it             *)
DestroyWindow(s, m) ==
    [s EXCEPT !.shown = @ \ {m}, !.locked = @ \ {m}, !.up = @ \ {m},
              !.popup = @ \ {m}, !.dialog = @ \ {m}, !.deact = @ \ {m},
              !.vouched = @ \ {m}, !.deaf = @ \ {m}, !.unmapped = @ \ {m},
              !.grab = IF @ = m THEN NoGrab ELSE @]

(* gf_manager_set_lock_active on the windows                               *)
LockWindows(s, lockActive) ==
    [s EXCEPT !.locked = IF lockActive THEN s.shown ELSE {}]

(* Mutant: any response deactivates.                                       *)
AnyDialogResponse(s, w, accepted) ==
    LET t == Popdown(s, w)
    IN [t EXCEPT !.deact = @ \cup {w},
                 !.vouched = IF accepted THEN @ \cup {w} ELSE @]

(* unlock_dialog_response_cb and unlock_dialog_close_cb                    *)
DialogResponse(s, w, accepted) ==
    LET t == Popdown(s, w)
    IN IF accepted
       THEN [t EXCEPT !.deact = @ \cup {w},
                      !.vouched = IF w \in s.deact THEN @ ELSE @ \cup {w}]
       ELSE t
=============================================================================
