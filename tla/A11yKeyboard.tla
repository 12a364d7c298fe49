---------------------------- MODULE A11yKeyboard ----------------------------
(* Accessible keyboard: settings are written to the X server, a shortcut of   *)
(* the keyboard (Shift held, Shift five times) changes the server and is      *)
(* written back to the settings, with a bubble that lets the user revert it.  *)
(* Two features stand for all; a delay is only written while its feature is   *)
(* on, cut to what the server bears.                                          *)
EXTENDS Integers, Sequences, FiniteSets

CONSTANTS
    Delays, Cap,            \* of slow keys; the largest the server bears
    MaxChanges, MaxPresses  \* bounds

Features == {"slow", "sticky"}

VARIABLES
    settings,   \* the master flag, the features and the delay
    server,     \* the same of the X server
    start,      \* what the server had when the program came
    phase,      \* "idle", "runs" or "gone"
    controls,   \* XkbControlsNotify events that are due
    changed,    \* "changed" signals that are due
    bubbles,    \* those shown or asked for: feature, what it says, the reply
    shortcut,   \* slowkeys_shortcut_val, stickykeys_shortcut_val
    id,         \* slowkeys_id, stickykeys_id: 0 or the number of a bubble
    changes, presses
user == <<changes, presses>>
vars == <<settings, server, start, phase, controls, changed, bubbles, shortcut, id, user>>

AtLeastOne(n) == IF n <= 0 THEN 1 ELSE n
Lesser(a, b) == IF a < b THEN a ELSE b

(* Only the flags that are on are written.                                    *)
ServerRaised(s) ==
    [s EXCEPT !.on = @ \cup settings.on, !.master = settings.master,
              !.delay = IF "slow" \in settings.on THEN Lesser(AtLeastOne(settings.delay), Cap) ELSE @]
(* set_server_from_gsettings                                                  *)
SetServer(s) ==
    [s EXCEPT !.on = settings.on, !.master = settings.master,
              !.delay = IF "slow" \in settings.on THEN Lesser(AtLeastOne(settings.delay), Cap) ELSE @]

(* start_a11y_keyboard_idle_cb, and the server may lack the extension         *)
Start ==
    /\ phase = "idle"
    /\ \/ phase' = "runs" /\ start' = server /\ server' = SetServer(server)
       \/ phase' = "gone" /\ UNCHANGED <<start, server>>
    /\ controls' = 0
    /\ UNCHANGED <<settings, changed, bubbles, shortcut, id, user>>

(* keyboard_settings_changed_cb, and device_added_cb for another keyboard     *)
SettingsChanged ==
    /\ phase = "runs" /\ changed > 0 /\ changed' = changed - 1
    /\ server' = SetServer(server)
    /\ UNCHANGED <<settings, start, phase, controls, bubbles, shortcut, id, user>>

DeviceAdded ==
    /\ phase = "runs" /\ server' = SetServer(server)
    /\ UNCHANGED <<settings, start, phase, controls, changed, bubbles, shortcut, id, user>>

(* set_gsettings_from_server: everything is written; a single feature that    *)
(* differs, and nothing else, is taken for a shortcut and announced.          *)
Differ == {f \in Features : (f \in settings.on) # (f \in server.on)}
Announced == settings.master = server.master /\ settings.delay = server.delay
             /\ Cardinality(Differ) = 1 /\ server.master
PostBubble(f) == bubbles' = Append(bubbles, [of |-> f, on |-> f \in server.on, state |-> "asked"])
Post(f) ==
    /\ shortcut' = [shortcut EXCEPT ![f] = f \in server.on]
    /\ PostBubble(f)
SetGsettings ==
    /\ IF Announced THEN \E f \in Differ : Post(f) ELSE UNCHANGED <<shortcut, bubbles>>
    /\ settings' = server
    /\ changed' = IF settings' # settings THEN changed + 1 ELSE changed
(* xkb_event_filter_cb                                                        *)
ControlsNotify ==
    /\ phase = "runs" /\ controls > 0 /\ controls' = controls - 1
    /\ SetGsettings
    /\ UNCHANGED <<server, start, phase, id, user>>

(* slowkeys_notify_cb, stickykeys_notify_cb: the bubble's number, or an error *)
Answered(b) ==
    \/ bubbles' = [bubbles EXCEPT ![b].state = "shown"] /\ id' = [id EXCEPT ![bubbles[b].of] = b]
    \/ bubbles' = [bubbles EXCEPT ![b].state = "closed"] /\ UNCHANGED id
Notified ==
    /\ phase = "runs"
    /\ \E b \in DOMAIN bubbles : bubbles[b].state = "asked" /\ Answered(b)
    /\ UNCHANGED <<settings, server, start, phase, controls, changed, shortcut, user>>

(* action_invoked_cb and ax_response_callback: "reject" writes the opposite   *)
(* of what the shortcut did; the server is set at once. The bubble then goes. *)
ActionInvoked ==
    /\ phase = "runs"
    /\ \E b \in DOMAIN bubbles, reject \in BOOLEAN :
          /\ bubbles[b].state = "shown"
          /\ bubbles' = [bubbles EXCEPT ![b].state = "closing"]
          /\ IF reject /\ id[bubbles[b].of] = b
             THEN LET f == bubbles[b].of
                      s == [settings EXCEPT !.on = IF shortcut[f] THEN @ \ {f} ELSE @ \cup {f}]
                  IN /\ settings' = s
                     /\ changed' = IF s # settings THEN changed + 1 ELSE changed
                     /\ server' = [server EXCEPT !.on = s.on, !.master = s.master,
                                      !.delay = IF "slow" \in s.on
                                                THEN Lesser(AtLeastOne(s.delay), Cap) ELSE @]
             ELSE UNCHANGED <<settings, changed, server>>
    /\ UNCHANGED <<start, phase, controls, shortcut, id, user>>

(* notification_closed_cb                                                     *)
NotificationClosed ==
    /\ phase = "runs"
    /\ \E b \in DOMAIN bubbles :
          /\ bubbles[b].state \in {"shown", "closing"}
          /\ bubbles' = [bubbles EXCEPT ![b].state = "closed"]
          /\ id' = [f \in Features |-> IF id[f] = b THEN 0 ELSE id[f]]
    /\ UNCHANGED <<settings, server, start, phase, controls, changed, shortcut, user>>

(* gf_a11y_keyboard_finalize: the server gets back what it had.               *)
Finalize ==
    /\ phase = "runs" /\ phase' = "gone"
    /\ server' = IF server.on # start.on \/ server.master # start.master THEN start ELSE server
    /\ bubbles' = [b \in DOMAIN bubbles |->
          IF \E f \in Features : id[f] = b THEN [bubbles[b] EXCEPT !.state = "closed"] ELSE bubbles[b]]
    /\ id' = [f \in Features |-> 0]
    /\ UNCHANGED <<settings, start, controls, changed, shortcut, user>>

(* ---------------------------------------------------------------- user ---- *)
UserSets ==
    /\ changes < MaxChanges /\ changes' = changes + 1
    /\ \/ \E f \in Features : settings' = [settings EXCEPT !.on = IF f \in @ THEN @ \ {f} ELSE @ \cup {f}]
       \/ settings' = [settings EXCEPT !.master = ~@]
       \/ \E n \in Delays \ {settings.delay} : settings' = [settings EXCEPT !.delay = n]
    /\ changed' = IF phase = "runs" THEN changed + 1 ELSE changed
    /\ UNCHANGED <<server, start, phase, controls, bubbles, shortcut, id, presses>>

Press ==
    /\ server.master /\ presses < MaxPresses /\ presses' = presses + 1
    /\ \E f \in Features : server' = [server EXCEPT !.on = IF f \in @ THEN @ \ {f} ELSE @ \cup {f}]
    /\ controls' = controls + 1
    /\ UNCHANGED <<settings, start, phase, changed, bubbles, shortcut, id, changes>>

Init ==
    /\ settings \in [on : {{}, {"slow"}}, master : BOOLEAN, delay : Delays]
    /\ server = [on |-> {}, master |-> FALSE, delay |-> 1]
    /\ start = server /\ phase = "idle" /\ controls = 0 /\ changed = 0
    /\ bubbles = <<>> /\ shortcut = [f \in Features |-> FALSE] /\ id = [f \in Features |-> 0]
    /\ changes = 0 /\ presses = 0

Next ==
    \/ Start \/ SettingsChanged \/ DeviceAdded \/ ControlsNotify \/ Notified \/ ActionInvoked
    \/ NotificationClosed \/ Finalize \/ UserSets \/ Press
Spec == Init /\ [][Next]_vars

(* ---------------------------------------------------------- properties ---- *)
TypeOK ==
    /\ settings.on \subseteq Features /\ server.on \subseteq Features
    /\ settings.delay \in Delays \cup 1..Cap /\ server.delay \in 1..Cap
    /\ controls \in 0..MaxPresses /\ Len(bubbles) <= MaxPresses
    /\ \A f \in Features : id[f] \in 0..Len(bubbles)

(* Settings and keyboard agree once every event was handled, whoever changed  *)
(* them in which order: neither a shortcut nor a setting is lost in the echo  *)
(* of the other.                                                              *)
SettingsMatchKeyboard ==
    phase = "runs" /\ controls = 0 /\ changed = 0 =>
        settings.on = server.on /\ settings.master = server.master

(* Every bubble needed a press of its shortcut.                               *)
Levels == [on : SUBSET Features, master : BOOLEAN, delay : Int]
Bubbles == [of : Features, on : BOOLEAN, state : {"asked", "shown", "closing", "closed"}]
KeyboardInv ==
    /\ settings \in Levels /\ server \in Levels /\ start \in Levels
    /\ settings.delay \in Delays \cup 1..Cap /\ server.delay \in 1..Cap /\ start.delay \in 1..Cap
    /\ controls \in Nat /\ changed \in Nat /\ presses \in 0..MaxPresses
    /\ bubbles \in Seq(Bubbles) /\ Len(bubbles) + controls <= presses
    /\ shortcut \in [Features -> BOOLEAN]
    /\ id \in [Features -> Nat] /\ \A f \in Features : id[f] <= Len(bubbles)
    /\ SettingsMatchKeyboard

=============================================================================
