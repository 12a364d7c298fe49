----------------------------- MODULE IdleMonitor -----------------------------
(***************************************************************************)
(* The idle monitor daemon: MetaIdleMonitor with its watches, the bus      *)
(* object org.gnome.Mutter.IdleMonitor and the events that reset the idle  *)
(* time (the X alarm, the lid, the power line, the session's inhibitors).  *)
(*                                                                         *)
(* One main loop.  GLib polls, marks every source that is ready and then   *)
(* dispatches the marked ones in the order in which they were attached:    *)
(* the X connection, the timeouts of the watches, the messages of the bus. *)
(* A message that arrived while a watch was being made comes before that   *)
(* watch.  What a dispatch changes about a marked source is not looked at  *)
(* again, except by idle_monitor_dispatch_timeout itself.                  *)
(***************************************************************************)
EXTENDS Integers, FiniteSets

CONSTANTS
    Clients,     \* peers on the session bus
    Intervals,   \* interval_msec of AddIdleWatch
    Usec,        \* the microseconds of a millisecond
    Width,       \* bits of guint64
    MayInhibit,  \* whether the session ever inhibits idleness
    MaxWatches,  \* bound: watches made
    MaxTime      \* bound: microseconds

ASSUME UsecAssumption == Usec \in Nat \ {0}
ASSUME WidthAssumption == Width \in Nat \ {0} /\ MaxTime < 2 ^ (Width - 1)
ASSUME IntervalAssumption == Intervals \subseteq 0 .. 2 ^ Width - 1
ASSUME BoundAssumption == MaxWatches \in Nat /\ MaxTime \in Nat
ASSUME InhibitAssumption == MayInhibit \in BOOLEAN

Ids == 1 .. MaxWatches
Never == -1
Signed == -(2 ^ (Width - 1)) .. 2 ^ (Width - 1) - 1

VARIABLES
    now,        \* g_get_monotonic_time ()
    lastEvent,  \* last_event_time
    inhibited,
    watches,    \* the hash table: id -> watch
    serial,     \* of get_next_watch_serial
    leaked,     \* clients with a DBusWatch that no watch owns
    marked,     \* watches whose sources are marked ready
    young,      \* serial when this iteration, and the last one, began
    activity,   \* the X server has sent an alarm that is not read
    session,    \* the proxy of the session manager
    upower,     \* lid_is_closed and on_battery
    connected,  \* clients on the bus
    fired       \* history: idle watches fired since the idle time was reset

monitor == <<lastEvent, inhibited, watches, fired>>
vars == <<now, lastEvent, inhibited, watches, serial, leaked, marked, young,
          activity, session, upower, connected, fired>>

Watches == [client : Clients, timeout : 0 .. 2 ^ Width - 1, ready : Signed]

(* an id that is in the table                                              *)
Known == DOMAIN watches
IsIdle(w) == w.timeout # 0

-----------------------------------------------------------------------------
(* MetaIdleMonitor                                                         *)

AsSigned(n) ==
    IF n % (2 ^ Width) < 2 ^ (Width - 1)
    THEN n % (2 ^ Width) ELSE (n % (2 ^ Width)) - 2 ^ Width

(* last_event_time + timeout_msec * 1000, unsigned, stored in a gint64     *)
ReadyTime(last, timeout) == AsSigned(last + timeout * Usec)

(* update_inhibited_watch for every watch                                  *)
Rearmed(ws, last, off) ==
    [id \in DOMAIN ws |->
        IF IsIdle(ws[id])
        THEN [ws[id] EXCEPT !.ready =
                IF off THEN Never ELSE ReadyTime(last, ws[id].timeout)]
        ELSE ws[id]]

Without(ws, ids) == [id \in DOMAIN ws \ ids |-> ws[id]]

(* meta_idle_monitor_reset_idletime: user-active watches fire once and are *)
(* removed, idle watches start again                                       *)
ResetIdletime ==
    /\ lastEvent' = now
    /\ watches' = Rearmed(Without(watches, {id \in Known : ~IsIdle(watches[id])}),
                          now, inhibited)
    /\ fired' = {}
    /\ UNCHANGED inhibited

(* inhibited_actions_changed_cb: any change of the inhibitors that leaves  *)
(* idleness allowed counts as activity                                     *)
InhibitedActionsChanged(idle) ==
    /\ inhibited' = idle
    /\ lastEvent' = IF idle THEN lastEvent ELSE now
    /\ fired' = IF idle THEN fired ELSE {}
    /\ watches' = Rearmed(watches, lastEvent', idle)

-----------------------------------------------------------------------------
(* The main loop                                                           *)

Due == {id \in Known : IsIdle(watches[id]) /\ watches[id].ready # Never
                       /\ watches[id].ready <= now}

(* GLib polls.  The X connection is the oldest source: if it is marked its *)
(* events are read (handle_alarm_notify) before any timeout is dispatched. *)
Iterate ==
    /\ marked = {}
    /\ Due # {} \/ activity \/ young.this # serial
    /\ marked' = Due
    /\ young' = [this |-> serial, last |-> young.this]
    /\ activity' = FALSE
    /\ IF activity THEN ResetIdletime ELSE UNCHANGED monitor
    /\ UNCHANGED <<now, serial, leaked, session, upower, connected>>

(* the oldest marked watch                                                 *)
Marked(id) == id \in marked /\ \A other \in marked : id <= other

(* Mutant: the ready time is not compared again.                           *)
FiresMarked(id) == id \in Known

(* the test of idle_monitor_dispatch_timeout; a watch that was removed has *)
(* a destroyed source, which GLib skips                                    *)
Fires(id) == id \in Known /\ watches[id].ready <= now

(* g_source_set_ready_time (-1)                                            *)
Disarm(id) == [watches EXCEPT ![id].ready = Never]

(* idle_monitor_dispatch_timeout with meta_idle_monitor_watch_fire and     *)
(* dbus_idle_callback                                                      *)
DispatchTimeout(id) ==
    /\ Marked(id)
    /\ marked' = marked \ {id}
    /\ IF Fires(id)
       THEN watches' = Disarm(id) /\ fired' = fired \cup {id}
       ELSE UNCHANGED <<watches, fired>>
    /\ UNCHANGED <<now, lastEvent, inhibited, serial, leaked, young, activity,
                   session, upower, connected>>

(* A message of the bus is dispatched: after the timeouts that are marked, *)
(* but for those of watches made while it waited                           *)
Message == \A id \in marked : id > young.last

-----------------------------------------------------------------------------
(* The bus object                                                          *)

(* handle_add_idle_watch and handle_add_user_active_watch.  An interval of *)
(* 0 is refused by meta_idle_monitor_add_idle_watch, which leaves the      *)
(* DBusWatch to nobody.  The caller may be gone already.                   *)
MakeWatch(c, timeout) ==
    /\ serial < MaxWatches
    /\ serial' = serial + 1
    /\ watches' = [id \in Known \cup {serial + 1} |->
            IF id # serial + 1 THEN watches[id]
            ELSE [client |-> c, timeout |-> timeout,
                  ready |-> IF timeout = 0 \/ inhibited THEN Never
                            ELSE ReadyTime(lastEvent, timeout)]]
    /\ UNCHANGED leaked

AddIdleWatch(c) ==
    /\ Message
    /\ \E interval \in Intervals :
         IF interval = 0
         THEN leaked' = leaked \cup {c} /\ UNCHANGED <<serial, watches>>
         ELSE MakeWatch(c, interval)
    /\ UNCHANGED <<now, lastEvent, inhibited, marked, young, activity, session,
                   upower, connected, fired>>

AddUserActiveWatch(c) ==
    /\ Message
    /\ MakeWatch(c, 0)
    /\ UNCHANGED <<now, lastEvent, inhibited, marked, young, activity, session,
                   upower, connected, fired>>

(* meta_idle_monitor_remove_watch                                          *)
Remove(id) ==
    /\ id \in Known
    /\ watches' = Without(watches, {id})
    /\ fired' = fired \ {id}
    /\ UNCHANGED <<now, lastEvent, inhibited, serial, leaked, marked, young,
                   activity, session, upower, connected>>

(* handle_remove_watch: whoever asks                                       *)
RemoveWatch(id) == Message /\ Remove(id)

(* handle_reset_idletime, with MUTTER_DEBUG_RESET_IDLETIME set             *)
HandleResetIdletime ==
    /\ Message
    /\ ResetIdletime
    /\ UNCHANGED <<now, serial, leaked, marked, young, activity, session,
                   upower, connected>>

(* name_vanished_callback, also for a name that had vanished before the    *)
(* watch was made                                                          *)
NameVanished(id) ==
    /\ Message
    /\ id \in Known /\ watches[id].client \notin connected
    /\ Remove(id)

(* session_manager_ready_cb                                                *)
SessionManagerReady ==
    /\ Message
    /\ session = "connecting"
    /\ session' \in {"ready", "failed"}
    /\ IF session' = "ready"
       THEN \E idle \in {FALSE, MayInhibit} : InhibitedActionsChanged(idle)
       ELSE UNCHANGED monitor
    /\ UNCHANGED <<now, serial, leaked, marked, young, activity, upower,
                   connected>>

(* notify::inhibited-actions                                               *)
InhibitorsChanged ==
    /\ Message
    /\ session = "ready"
    /\ \E idle \in {FALSE, MayInhibit} : InhibitedActionsChanged(idle)
    /\ UNCHANGED <<now, serial, leaked, marked, young, activity, session,
                   upower, connected>>

(* upower_properties_changed_cb: opening the lid and any change of the     *)
(* power line reset the idle time, closing the lid does not                *)
UpowerChanged ==
    /\ Message
    /\ upower' \in [lidClosed : BOOLEAN, onBattery : BOOLEAN] \ {upower}
    /\ IF (upower.lidClosed /\ ~upower'.lidClosed)
          \/ upower'.onBattery # upower.onBattery
       THEN ResetIdletime
       ELSE UNCHANGED monitor
    /\ UNCHANGED <<now, serial, leaked, marked, young, activity, session,
                   connected>>

-----------------------------------------------------------------------------
(* The environment                                                         *)

Tick ==
    /\ now < MaxTime
    /\ now' = now + 1
    /\ UNCHANGED <<lastEvent, inhibited, watches, serial, leaked, marked,
                   young, activity, session, upower, connected, fired>>

UserActive ==
    /\ ~activity
    /\ activity' = TRUE
    /\ UNCHANGED <<now, lastEvent, inhibited, watches, serial, leaked, marked,
                   young, session, upower, connected, fired>>

Disconnect(c) ==
    /\ c \in connected
    /\ connected' = connected \ {c}
    /\ UNCHANGED <<now, lastEvent, inhibited, watches, serial, leaked, marked,
                   young, activity, session, upower, fired>>

Init ==
    /\ now = 0
    /\ lastEvent = 0
    /\ inhibited = FALSE
    /\ watches = [id \in {} |-> 0]
    /\ serial = 0
    /\ leaked = {}
    /\ marked = {}
    /\ young = [this |-> 0, last |-> 0]
    /\ activity = FALSE
    /\ session = "connecting"
    /\ upower \in [lidClosed : BOOLEAN, onBattery : {FALSE}]
    /\ connected = Clients
    /\ fired = {}

Next ==
    \/ Iterate
    \/ \E id \in Ids : \/ DispatchTimeout(id)
                       \/ RemoveWatch(id)
                       \/ NameVanished(id)
    \/ \E c \in Clients : \/ AddIdleWatch(c)
                          \/ AddUserActiveWatch(c)
                          \/ Disconnect(c)
    \/ HandleResetIdletime
    \/ SessionManagerReady
    \/ InhibitorsChanged
    \/ UpowerChanged
    \/ Tick
    \/ UserActive

Ready == marked = {} /\ (Due # {} \/ activity \/ young.this # serial)
Orphan(id) == id \in Known /\ watches[id].client \notin connected

(* The loop iterates and dispatches; the bus daemon reports lost peers.    *)
(* The disjunctions are weak fairness too: these actions are enabled by    *)
(* the guards given and always change something.                           *)
Fairness ==
    /\ []<>~Ready \/ []<><<Iterate>>_vars
    /\ \A id \in Ids :
         /\ []<>~Marked(id) \/ []<><<DispatchTimeout(id)>>_vars
         /\ WF_vars(NameVanished(id))

Spec == Init /\ [][Next]_vars /\ Fairness

-----------------------------------------------------------------------------
(* Properties                                                              *)

(* Types of the idle monitor.                                              *)
TypeOK ==
    /\ now \in 0 .. MaxTime
    /\ lastEvent \in 0 .. now
    /\ inhibited \in BOOLEAN
    /\ Known \subseteq 1 .. serial
    /\ \A id \in Known : watches[id] \in Watches
    /\ serial \in 0 .. MaxWatches
    /\ leaked \subseteq Clients
    /\ marked \subseteq 1 .. serial
    /\ young \in [this : 0 .. serial, last : 0 .. serial]
    /\ activity \in BOOLEAN
    /\ session \in {"connecting", "ready", "failed"}
    /\ upower \in [lidClosed : BOOLEAN, onBattery : BOOLEAN]
    /\ connected \subseteq Clients
    /\ fired \subseteq Known

(* Every idle watch counts from the last reset, in whatever order watches, *)
(* resets and inhibitors came: it is armed for its time exactly unless     *)
(* idleness is inhibited or it has fired since.                            *)
ArmedUnlessFired ==
    \A id \in Known :
        IsIdle(watches[id]) =>
            watches[id].ready = IF inhibited \/ id \in fired THEN Never
                                ELSE ReadyTime(lastEvent, watches[id].timeout)

(* While idleness is not inhibited, a watch fires only after as much idle  *)
(* time as it asks for, of what GetIdletime reports, although activity,    *)
(* resets and new inhibitors meet sources that are marked already.         *)
FiresWhenIdle ==
    [][ \A id \in Ids : DispatchTimeout(id) /\ Fires(id) /\ ~inhibited =>
            now - lastEvent >= watches[id].timeout * Usec ]_vars

(* meta-idle-monitor.c:319: a watch cares about positive transitions only, *)
(* it does not fire again before the idle time was reset.                  *)
FiresOnce ==
    [][ \A id \in Ids : DispatchTimeout(id) /\ Fires(id) => id \notin fired ]_vars

(* A watch that is due fires, unless it is reset, removed or inhibited.    *)
DueFires ==
    \A id \in Ids : (id \in Due) ~> (id \in fired \/ id \notin Due)

(* No watch outlives its client, not even one made after the client went.  *)
NoOrphans ==
    \A id \in Ids :
        Orphan(id) ~> (id \notin Known)

(* meta-idle-monitor.c: a watch is armed unless it has fired, and fires    *)
(* once for each time of idleness, never early, always when it is due, and *)
(* never for a client that left.                                           *)
WatchesFire ==
    /\ [](TypeOK /\ ArmedUnlessFired)
    /\ FiresWhenIdle /\ FiresOnce /\ DueFires /\ NoOrphans
=============================================================================
