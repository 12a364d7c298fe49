--------------------------- MODULE InputSettings ---------------------------
(* GfInputSettings: the settings of mice, touchpads, trackballs, touchscreens *)
(* and of the keyboard, brought to the devices of the X server. A setting is  *)
(* read when its notification is handled, which may be after later writes.    *)
(* The X server has the XKB extension.                                        *)
EXTENDS Integers, Sequences

CONSTANTS
    Devices,
    Source,       \* gdk_device_get_source, of each
    Trackballs,   \* the devices with "trackball" in their name
    Drivers,      \* the devices as their drivers may start them, by device
    Used,         \* keys and touchscreens a user touches
    Monitors, None,
    Places,       \* where a monitor can be
    MaxChanges    \* bound

Mice == {d \in Devices : Source[d] = "mouse"}
Pointers == {d \in Devices : Source[d] \in {"mouse", "trackpoint"}}
Touchpads == {d \in Devices : Source[d] = "touchpad"}
Touchscreens == {d \in Devices : Source[d] = "touchscreen"}

(* The keys, with their schema, and their values; two speeds, two delays and  *)
(* two buttons stand for the numbers.                                         *)
MouseKeys == {"mouse speed", "mouse natural-scroll", "mouse accel-profile"}
TouchpadKeys ==
    {"touchpad speed", "touchpad natural-scroll", "touchpad tap-to-click", "touchpad disable-while-typing",
     "touchpad send-events", "touchpad click-method"}
TrackballKeys == {"trackball button", "trackball accel-profile"}
RepeatKeys == {"keyboard repeat", "keyboard delay", "keyboard repeat-interval"}
Keys ==
    MouseKeys \cup TouchpadKeys \cup TrackballKeys \cup RepeatKeys
    \cup {"mouse left-handed", "touchpad left-handed", "touchpad edge", "touchpad two-finger", "remember-numlock-state"}
Values(k) ==
    CASE k = "touchpad left-handed" -> {"off", "on", "mouse"}
      [] k = "touchpad send-events" -> {"enabled", "disabled", "disabled-on-external-mouse"}
      [] k = "touchpad click-method" -> {"default", "none", "areas", "fingers"}
      [] k \in {"mouse accel-profile", "trackball accel-profile"} -> {"default", "flat", "adaptive"}
      [] k \in {"mouse speed", "touchpad speed", "trackball button", "keyboard delay", "keyboard repeat-interval"} ->
            {"low", "high"}
      [] OTHER -> {"off", "on"}
Settings == {s \in [Keys -> UNION {Values(k) : k \in Keys}] : \A k \in Keys : s[k] \in Values(k)}

(* The defaults of the schemas                                                *)
Defaults ==
    [k \in Keys |->
        CASE k = "touchpad left-handed" -> "mouse"
          [] k = "touchpad send-events" -> "enabled"
          [] k \in {"touchpad click-method", "mouse accel-profile", "trackball accel-profile"} -> "default"
          [] k \in {"mouse speed", "touchpad speed", "trackball button", "keyboard delay", "keyboard repeat-interval"} -> "low"
          [] k \in {"touchpad natural-scroll", "touchpad two-finger", "touchpad disable-while-typing", "keyboard repeat",
                    "remember-numlock-state"} -> "on"
          [] OTHER -> "off"]

(* A device in the X server: the properties it has, the modes it supports,    *)
(* the defaults of its driver and the values of the properties.               *)
Props == {"left", "speed", "natural", "profile", "tap", "typing", "send", "click", "button", "two", "edge"}
Modes == {"disabled", "disabled-on-external-mouse", "areas", "fingers"}
PropValues == UNION {Values(k) : k \in Keys}
Device == [has : SUBSET Props, modes : SUBSET Modes, profile : {"flat", "adaptive"},
           click : {"none", "areas", "fingers"}, at : [Props -> PropValues]]

VARIABLES
    settings,   \* by key
    output,     \* "output" of each touchscreen: a monitor or None
    notified,   \* keys, or touchscreens for "output", whose "changed" is still to come
    plugged,
    device,     \* by device, in the X server
    mappable,   \* mappable_devices
    matrix,     \* "Coordinate Transformation Matrix": a place or None, all of the screen
    places,     \* where each monitor is lit, or None
    repeat,     \* of the X server: [on, rate]
    lock,       \* Num Lock: [on, events, saved, kept], see Locks
    changes
vars == <<settings, output, notified, plugged, device, mappable, matrix, places, repeat, lock, changes>>

(* on: it is lit; events: the XkbStateNotify to come; saved: "numlock-state"; *)
(* kept: history: the last one that was handled, or lit, was remembered.      *)
Locks == [on : BOOLEAN, events : Seq(BOOLEAN), saved : BOOLEAN, kept : BOOLEAN]

-----------------------------------------------------------------------------
(* Setting a property of a device: r is the device                            *)

(* change_property: a property that a device does not have is left alone.     *)
ChangeProperty(r, p, v) == IF p \in r.has THEN [r EXCEPT !.at[p] = v] ELSE r

Profile(r, v) == IF v = "default" THEN r.profile ELSE v
SetAccelProfile(r, v) == ChangeProperty(r, "profile", Profile(r, v))

(* Modes that a device does not support are left alone, with a warning.       *)
Supports(r, v) == v \in r.modes \cup {"enabled", "none"}
SetSendEvents(r, v) == IF Supports(r, v) THEN ChangeProperty(r, "send", v) ELSE r
ClickMethod(r, v) == IF v = "default" THEN r.click ELSE v
SetClickMethod(r, v) == IF Supports(r, ClickMethod(r, v)) THEN ChangeProperty(r, "click", ClickMethod(r, v)) ELSE r

(* set_edge_scroll, set_two_finger_scroll: the methods are flags of one       *)
(* property, each sets its own if it is available and keeps the other.        *)
SetScroll(r, method, on) == ChangeProperty(r, method, on)

(* The property that a key sets as it is: set_speed, set_invert_scroll ...    *)
PropOf(k) ==
    CASE k \in {"mouse speed", "touchpad speed"} -> "speed"
      [] k \in {"mouse natural-scroll", "touchpad natural-scroll"} -> "natural"
      [] k = "touchpad tap-to-click" -> "tap"
      [] k = "touchpad disable-while-typing" -> "typing"
      [] k = "trackball button" -> "button"

(* The function that each of the update_* functions hands over                *)
Write(r, k, v) ==
    CASE k \in {"mouse accel-profile", "trackball accel-profile"} -> SetAccelProfile(r, v)
      [] k = "touchpad send-events" -> SetSendEvents(r, v)
      [] k = "touchpad click-method" -> SetClickMethod(r, v)
      [] OTHER -> ChangeProperty(r, PropOf(k), v)

-----------------------------------------------------------------------------
(* The update_* functions: what they make of device d, which is r. They are   *)
(* called for one device, or for all of them (device == NULL).                *)

UpdateMouse(k, r, d, s) ==
    IF d \in (IF k = "mouse accel-profile" THEN Mice ELSE Pointers) THEN Write(r, k, s[k]) ELSE r
UpdateTouchpad(k, r, d, s) == IF d \in Touchpads THEN Write(r, k, s[k]) ELSE r
UpdateTrackball(k, r, d, s) == IF d \in Trackballs THEN Write(r, k, s[k]) ELSE r

TouchpadHand(s) == IF s["touchpad left-handed"] = "mouse" THEN s["mouse left-handed"] ELSE s["touchpad left-handed"]
UpdateTouchpadLeftHanded(r, d, s) == IF d \in Touchpads THEN ChangeProperty(r, "left", TouchpadHand(s)) ELSE r

(* Mutant: touchpads that follow the mouse are not updated.                   *)
UpdateMouseLeftHandedAlone(r, d, s, all) == IF d \in Mice THEN ChangeProperty(r, "left", s["mouse left-handed"]) ELSE r

(* "Also update touchpads if they're following mouse settings", when it is    *)
(* called for all devices.                                                    *)
UpdateMouseLeftHanded(r, d, s, all) ==
    IF d \in Mice THEN ChangeProperty(r, "left", s["mouse left-handed"])
    ELSE IF all /\ s["touchpad left-handed"] = "mouse" THEN UpdateTouchpadLeftHanded(r, d, s)
    ELSE r

(* Two fingers come before the edge.                                          *)
Edge(s) == IF s["touchpad two-finger"] = "on" THEN "off" ELSE s["touchpad edge"]
UpdateEdgeScroll(r, d, s) == IF d \in Touchpads THEN SetScroll(r, "edge", Edge(s)) ELSE r
UpdateTwoFingerScroll(r, d, s) ==
    IF d \notin Touchpads THEN r
    ELSE IF s["touchpad two-finger"] = "on" THEN SetScroll(UpdateEdgeScroll(r, d, s), "two", "on")
    ELSE UpdateEdgeScroll(SetScroll(r, "two", "off"), d, s)

(* settings_changed_cb: the function of a key                                 *)
Update(k, r, d, s) ==
    CASE k \in MouseKeys -> UpdateMouse(k, r, d, s)
      [] k \in TouchpadKeys -> UpdateTouchpad(k, r, d, s)
      [] k \in TrackballKeys -> UpdateTrackball(k, r, d, s)
      [] k = "mouse left-handed" -> UpdateMouseLeftHanded(r, d, s, TRUE)
      [] k = "touchpad left-handed" -> UpdateTouchpadLeftHanded(r, d, s)
      [] k = "touchpad edge" -> UpdateEdgeScroll(r, d, s)
      [] k = "touchpad two-finger" -> UpdateTwoFingerScroll(r, d, s)
      [] OTHER -> r

(* update_keyboard_repeat                                                     *)
UpdateKeyboardRepeat(s) ==
    IF s["keyboard repeat"] = "on" THEN [on |-> TRUE, rate |-> <<s["keyboard delay"], s["keyboard repeat-interval"]>>]
    ELSE [repeat EXCEPT !.on = FALSE]

(* apply_device_settings                                                      *)
ApplyMouse(r, d, s, all) ==
    LET hand == UpdateMouseLeftHanded(r, d, s, all)
        speed == UpdateMouse("mouse speed", hand, d, s)
        natural == UpdateMouse("mouse natural-scroll", speed, d, s)
    IN  UpdateMouse("mouse accel-profile", natural, d, s)
ApplyTouchpad(r, d, s) ==
    LET hand == UpdateTouchpadLeftHanded(r, d, s)
        speed == UpdateTouchpad("touchpad speed", hand, d, s)
        natural == UpdateTouchpad("touchpad natural-scroll", speed, d, s)
        tap == UpdateTouchpad("touchpad tap-to-click", natural, d, s)
        typing == UpdateTouchpad("touchpad disable-while-typing", tap, d, s)
        send == UpdateTouchpad("touchpad send-events", typing, d, s)
        scroll == UpdateEdgeScroll(UpdateTwoFingerScroll(send, d, s), d, s)
    IN  UpdateTouchpad("touchpad click-method", scroll, d, s)
ApplyTrackball(r, d, s) == UpdateTrackball("trackball accel-profile", UpdateTrackball("trackball button", r, d, s), d, s)
ApplyDeviceSettings(r, d, s, all) == ApplyTrackball(ApplyTouchpad(ApplyMouse(r, d, s, all), d, s), d, s)

-----------------------------------------------------------------------------
(* Mapping devices to monitors                                                *)

(* find_monitor, update_device_display: a touchscreen follows the monitor its *)
(* setting names, if that is lit; other devices have all of the screen.       *)
Display(d, where) == IF d \in Touchscreens /\ output[d] # None THEN where[output[d]] ELSE None

(* lookup_device_settings                                                     *)
Mappable(d) == Source[d] \in {"touchscreen", "pen", "eraser", "cursor"}

(* update_device_display changes nothing of a cursor.                         *)
Displayed(d) == Source[d] # "cursor"

(* monitors_changed_cb: every mapped device is placed again.                  *)
Placed(S, where) ==
    [d \in Devices |-> IF d \in S /\ Displayed(d) THEN Display(d, where) ELSE matrix[d]]

-----------------------------------------------------------------------------
(* set_bool_setting and the like: the devices of the kind that are there      *)
SetSetting(k) ==
    device' = [d \in Devices |-> IF d \in plugged THEN Update(k, device[d], d, settings) ELSE device[d]]

SettingsChanged ==
    /\ notified # <<>> /\ Head(notified) \in Keys
    /\ SetSetting(Head(notified))
    /\ repeat' = IF Head(notified) \in RepeatKeys THEN UpdateKeyboardRepeat(settings) ELSE repeat
    /\ notified' = Tail(notified)
    /\ UNCHANGED <<settings, output, plugged, mappable, matrix, places, lock, changes>>

(* mapped_device_changed_cb, of a device that is still mapped                 *)
MappedDeviceChanged ==
    /\ notified # <<>> /\ Head(notified) \in Devices
    /\ matrix' = Placed({Head(notified)} \cap mappable, places)
    /\ notified' = Tail(notified)
    /\ UNCHANGED <<settings, output, plugged, device, mappable, places, repeat, lock, changes>>

UserChanges ==
    /\ changes < MaxChanges /\ changes' = changes + 1
    /\ \/ /\ \E k \in Used \cap Keys : \E v \in Values(k) \ {settings[k]} :
                settings' = [settings EXCEPT ![k] = v] /\ notified' = Append(notified, k)
          /\ UNCHANGED output
       \/ /\ \E d \in Used \cap Devices : \E m \in (Monitors \cup {None}) \ {output[d]} :
                output' = [output EXCEPT ![d] = m] /\ notified' = Append(notified, d)
          /\ UNCHANGED settings
    /\ UNCHANGED <<plugged, device, mappable, matrix, places, repeat, lock>>

CheckAddMappable(d) ==
    /\ mappable' = IF Mappable(d) THEN mappable \cup {d} ELSE mappable
    /\ matrix' = [matrix EXCEPT ![d] = IF Mappable(d) /\ Displayed(d) THEN Display(d, places) ELSE None]

(* device_added_cb: a device comes as its driver starts it.                   *)
DeviceAdded ==
    /\ changes < MaxChanges /\ changes' = changes + 1
    /\ \E d \in Devices \ plugged : \E r \in Drivers[d] :
          /\ plugged' = plugged \cup {d}
          /\ device' = [device EXCEPT ![d] = ApplyDeviceSettings(r, d, settings, FALSE)]
          /\ CheckAddMappable(d)
    /\ UNCHANGED <<settings, output, notified, places, repeat, lock>>

(* device_removed_cb                                                          *)
DeviceRemoved ==
    /\ \E d \in plugged : plugged' = plugged \ {d} /\ mappable' = mappable \ {d}
    /\ UNCHANGED <<settings, output, notified, device, matrix, places, repeat, lock, changes>>

MonitorsChanged ==
    /\ changes < MaxChanges /\ changes' = changes + 1
    /\ places' \in [Monitors -> Places \cup {None}]
    /\ matrix' = Placed(mappable, places')
    /\ UNCHANGED <<settings, output, notified, plugged, device, mappable, repeat, lock>>

Remembers == settings["remember-numlock-state"] = "on"
MaybeSave(l, on) == [l EXCEPT !.kept = Remembers, !.saved = IF Remembers THEN on ELSE @]

(* The X server tells of the lock it was asked for, if that is a change.      *)
MaybeRestore(l) ==
    [l EXCEPT !.kept = Remembers, !.on = IF Remembers THEN l.saved ELSE @,
              !.events = IF Remembers /\ l.saved # l.on THEN <<l.saved>> ELSE <<>>]

(* Num Lock or another lock key is pressed.                                   *)
LockKey ==
    /\ changes < MaxChanges /\ changes' = changes + 1
    /\ \E on \in BOOLEAN : lock' = [lock EXCEPT !.on = on, !.events = Append(@, on)]
    /\ UNCHANGED <<settings, output, notified, plugged, device, mappable, matrix, places, repeat>>
XkbEvent ==
    /\ lock.events # <<>>
    /\ lock' = MaybeSave([lock EXCEPT !.events = Tail(@)], Head(lock.events))
    /\ UNCHANGED <<settings, output, notified, plugged, device, mappable, matrix, places, repeat, changes>>

(* gf_input_settings_constructed after the program ended and started again,   *)
(* and gf_input_settings_set_monitor_manager, which comes at once: every      *)
(* device is set and placed, Num Lock is restored.                            *)
Restart ==
    /\ changes < MaxChanges /\ changes' = changes + 1
    /\ notified' = <<>>
    /\ device' = [d \in Devices |-> IF d \in plugged THEN ApplyDeviceSettings(device[d], d, settings, TRUE)
                                    ELSE device[d]]
    /\ repeat' = UpdateKeyboardRepeat(settings)
    /\ lock' = MaybeRestore(lock)
    /\ mappable' = {d \in plugged : Mappable(d)} /\ matrix' = Placed(mappable', places)
    /\ UNCHANGED <<settings, output, plugged, places>>

(* The first start, with Num Lock as it was left                              *)
Init ==
    /\ settings = Defaults /\ output = [d \in Devices |-> None] /\ notified = <<>> /\ plugged = Devices
    /\ \E r \in [Devices -> UNION {Drivers[d] : d \in Devices}] :
          /\ \A d \in Devices : r[d] \in Drivers[d]
          /\ device = [d \in Devices |-> ApplyDeviceSettings(r[d], d, Defaults, TRUE)]
    /\ mappable = {d \in Devices : Mappable(d)} /\ matrix = [d \in Devices |-> None]
    /\ places \in [Monitors -> Places \cup {None}]
    /\ repeat = [on |-> Defaults["keyboard repeat"] = "on",
                 rate |-> <<Defaults["keyboard delay"], Defaults["keyboard repeat-interval"]>>]
    /\ lock = [on |-> FALSE, events |-> <<>>, saved |-> FALSE, kept |-> Remembers] /\ changes = 0

Next ==
    \/ SettingsChanged \/ MappedDeviceChanged \/ UserChanges \/ DeviceAdded \/ DeviceRemoved \/ MonitorsChanged
    \/ LockKey \/ XkbEvent \/ Restart
Spec == Init /\ [][Next]_vars

-----------------------------------------------------------------------------
TypeOK ==
    /\ settings \in Settings /\ output \in [Devices -> Monitors \cup {None}]
    /\ notified \in Seq(Keys \cup Touchscreens) /\ plugged \subseteq Devices
    /\ device \in [Devices -> Device] /\ mappable = {d \in plugged : Mappable(d)}
    /\ matrix \in [Devices -> Places \cup {None}] /\ places \in [Monitors -> Places \cup {None}]
    /\ repeat \in [on : BOOLEAN, rate : Values("keyboard delay") \X Values("keyboard repeat-interval")]
    /\ lock \in Locks /\ changes \in 0..MaxChanges

(* A property that the device r, which is d, has is as the settings s say, as *)
(* far as the keys P do not hold it up: the hand, also of touchpads that      *)
(* follow the mouse; one method of scrolling, two fingers before the edge;    *)
(* and what one key sets, as far as the device supports it.                   *)
Has(r, p, v) == p \in r.has => r.at[p] = v
HandAgrees(r, d, s, P) ==
    /\ d \in Mice /\ "mouse left-handed" \notin P => Has(r, "left", s["mouse left-handed"])
    /\ /\ d \in Touchpads /\ "touchpad left-handed" \notin P
       /\ s["touchpad left-handed"] = "mouse" => "mouse left-handed" \notin P
       => Has(r, "left", TouchpadHand(s))
MethodAgrees(r, d, s, P) ==
    d \in Touchpads /\ "touchpad two-finger" \notin P =>
        /\ Has(r, "two", s["touchpad two-finger"])
        /\ "touchpad edge" \notin P => Has(r, "edge", Edge(s))
TouchpadAgrees(r, d, s, P) ==
    LET send == s["touchpad send-events"]
        click == ClickMethod(r, s["touchpad click-method"])
    IN  d \in Touchpads =>
            /\ \A k \in TouchpadKeys \ ({"touchpad send-events", "touchpad click-method"} \cup P) : Has(r, PropOf(k), s[k])
            /\ Supports(r, send) /\ "touchpad send-events" \notin P => Has(r, "send", send)
            /\ Supports(r, click) /\ "touchpad click-method" \notin P => Has(r, "click", click)
PointerAgrees(r, d, s, P) ==
    /\ d \in Pointers => \A k \in {"mouse speed", "mouse natural-scroll"} \ P : Has(r, PropOf(k), s[k])
    /\ d \in Trackballs /\ "trackball button" \notin P => Has(r, "button", s["trackball button"])

(* The profile of a trackball that is a mouse is its own or the mouse's,      *)
(* whichever was changed last.                                                *)
ProfileAgrees(r, d, s, P) ==
    LET own == (IF d \in Mice THEN {"mouse accel-profile"} ELSE {})
               \cup (IF d \in Trackballs THEN {"trackball accel-profile"} ELSE {})
    IN  own # {} /\ own \cap P = {} => \E k \in own : Has(r, "profile", Profile(r, s[k]))

DeviceAgrees(r, d, s, P) ==
    /\ HandAgrees(r, d, s, P) /\ MethodAgrees(r, d, s, P) /\ TouchpadAgrees(r, d, s, P)
    /\ PointerAgrees(r, d, s, P) /\ ProfileAgrees(r, d, s, P)

RepeatAgrees ==
    /\ repeat.on <=> settings["keyboard repeat"] = "on"
    /\ repeat.on => repeat.rate = <<settings["keyboard delay"], settings["keyboard repeat-interval"]>>
PlaceAgrees(d) == matrix[d] = IF Displayed(d) THEN Display(d, places) ELSE None

(* Once every notification is handled, the devices that are there and the     *)
(* keyboard are as the settings say, whatever was changed in which order,     *)
(* touchscreens are on the monitor they are mapped to, wherever it is by now, *)
(* and Num Lock is remembered as it is.                                       *)
DevicesAgree ==
    /\ notified = <<>> =>
          /\ \A d \in plugged : DeviceAgrees(device[d], d, settings, {}) /\ (d \in mappable => PlaceAgrees(d))
          /\ RepeatAgrees
    /\ lock.kept /\ lock.events = <<>> => lock.saved = lock.on

(* The inductive invariant: each device agrees up to the keys whose           *)
(* notification is still to come; the last event of the lock is what it is.   *)
Pending == {notified[i] : i \in DOMAIN notified}
Agreeing ==
    /\ \A d \in plugged : DeviceAgrees(device[d], d, settings, Pending)
    /\ \A d \in mappable \ Pending : PlaceAgrees(d)
    /\ Pending \cap RepeatKeys = {} => RepeatAgrees
    /\ lock.events # <<>> => lock.events[Len(lock.events)] = lock.on
    /\ lock.kept /\ lock.events = <<>> => lock.saved = lock.on
Inv == TypeOK /\ Agreeing
=============================================================================
