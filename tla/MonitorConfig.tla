---------------------------- MODULE MonitorConfig ----------------------------
(***************************************************************************)
(* Monitor configuration: GfMonitorManager with its XRandR backend,        *)
(* GfMonitorConfigManager, GfBackend (the lid), GfOrientationManager (the  *)
(* accelerometer) and the dialog of GfApplication that asks whether to     *)
(* keep a new configuration.                                               *)
(*                                                                         *)
(* The process is one GLib main loop: an action is one callback, with      *)
(* everything it calls.  The X server runs beside it: its state changes    *)
(* when monitors come and go, and what it reports is read only when the    *)
(* main loop gets to its RRScreenChangeNotify event.                       *)
(***************************************************************************)
EXTENDS Integers, Sequences, FiniteSets

CONSTANTS
    Monitors,        \* monitor specs
    NoMonitor,       \* a GfMonitor that is NULL
    Panel,           \* the built-in panel, NoMonitor on a desktop
    PanelTransform,  \* how the panel is built in
    Area,            \* preferred resolution of a monitor
    Virtual,         \* monitors with hotplug_mode_update and a position
    Crtcs,           \* number of CRTCs, each can drive any output
    Tilts,           \* orientations the sensor reports, as transforms
    HistoryMax,      \* CONFIG_HISTORY_MAX_SIZE
    Methods,         \* ApplyMonitorsConfig: "temporary", "persistent"
    Mirrors,         \* whether clients ask for mirrored monitors
    Inputs,          \* what the environment of this instance does
    MaxInputs,       \* bound: how often it does it
    MaxEvents        \* bound: unread events, later ones coalesce

NoTilt == -1        \* GF_ORIENTATION_UNDEFINED

ASSUME MonitorsAssumption == IsFiniteSet(Monitors)
ASSUME MirrorsAssumption == Mirrors \subseteq BOOLEAN
ASSUME PanelAssumption == Panel \in Monitors \cup {NoMonitor}
ASSUME NoMonitorAssumption == NoMonitor \notin Monitors
ASSUME TransformAssumption == PanelTransform \in 0 .. 3 /\ Tilts \subseteq 0 .. 3
ASSUME AreaAssumption == Area \in [Monitors -> Nat \ {0}]
ASSUME VirtualAssumption == Virtual \subseteq Monitors \ {Panel}
ASSUME BoundAssumption ==
    /\ Crtcs \in Nat \ {0}
    /\ HistoryMax \in Nat \ {0}
    /\ MaxInputs \in Nat
    /\ MaxEvents \in Nat \ {0}

(* GfMonitorsConfig.  on and off make up the key; mirror: all monitors of  *)
(* on share one logical monitor; turn is the transform of the panel;       *)
(* usable: the modes it names exist; root identifies get_root_config (),   *)
(* 0 is no configuration.                                                  *)
Roots == 0 .. 2 ^ Cardinality(Monitors) + HistoryMax + 4
Configs == [on : SUBSET Monitors, off : SUBSET Monitors,
            primary : Monitors \cup {NoMonitor}, turn : 0 .. 3,
            mirror : BOOLEAN, usable : BOOLEAN, root : Roots]
NoConfig == [on |-> {}, off |-> {}, primary |-> NoMonitor, turn |-> 0,
             mirror |-> FALSE, usable |-> FALSE, root |-> 0]
Exists(c) == c.root # 0
KeyOf(c) == c.on \cup c.off

(* What the CRTCs and outputs are set to, in X and in the manager's copy   *)
Layouts == [on : SUBSET Monitors, primary : Monitors \cup {NoMonitor},
            turn : 0 .. 3, mirror : BOOLEAN]
LayoutOf(c) == [on |-> c.on, primary |-> c.primary, turn |-> c.turn,
                mirror |-> c.mirror]

VARIABLES
    world,      \* the X server, the lid, the sensor and GfMonitorManager
    timerId,    \* persistent_timeout_id # 0
    timers,     \* armed save_config_timeout sources
    dialog,     \* display_change_dialog # NULL
    asked,      \* history: the configuration the dialog was opened for
    before,     \* history: the current one before that was applied
    inputs      \* bound: inputs so far

vars == <<world, timerId, timers, dialog, asked, before, inputs>>

Worlds == [
    connected : SUBSET Monitors,     \* X: connected outputs
    lit : Layouts,                   \* X: CRTCs and outputs
    configNewer : BOOLEAN,           \* X: timestamp < configTimestamp
    foreign : BOOLEAN,               \* X: timestamp # last_xrandr_set_timestamp
    events : 0 .. MaxEvents,         \* unread RRScreenChangeNotify
    lid : BOOLEAN,                   \* GfBackend.lid_is_closed
    accel : BOOLEAN,                 \* has_accel
    tilt : Tilts \cup {NoTilt},      \* curr_orientation
    init : BOOLEAN,                  \* in_init
    known : SUBSET Monitors,         \* monitors
    believed : Layouts,              \* crtc configs and output assignments
    active : SUBSET Monitors,        \* monitors with a current_mode
    placed : SUBSET Monitors,        \* monitors with a logical_monitor
    placedTurn : 0 .. 3,             \* transform of the panel's
    managed : BOOLEAN,               \* panel_orientation_managed
    current : Configs,               \* current_config
    history : Seq(Configs),          \* config_history, head first
    store : [SUBSET Monitors -> Configs],  \* GfMonitorConfigStore.configs
    missed : BOOLEAN,    \* history: an own change hid an unread hotplug
    crashed : {"no", "missing monitor", "no logical monitor"}]

-----------------------------------------------------------------------------
(* gf-monitor-transform.c and the two conversions of gf-output.c between   *)
(* the transform a configuration names (logical) and the one the CRTC gets *)
(* (a panel that is built in turned adds its own).  Numbers are those of   *)
(* GfMonitorTransform: 0..3 turn by 90 degrees, 4..7 also flip.            *)
Transforms == 0 .. 7

Flipped(t) == t >= 4

(* gf_monitor_transform_flip *)
Flip(t) == IF Flipped(t) THEN (8 - t) % 4 ELSE 4 + ((4 - t) % 4)

(* gf_monitor_transform_invert *)
Invert(t) == IF t \in {1, 3} THEN 4 - t ELSE t

(* gf_monitor_transform_transform: first t, then other                     *)
Compose(t, other) ==
    LET turned == IF Flipped(other) THEN Flip(t) ELSE t
    IN ((turned + other) % 4) + (IF Flipped(turned) THEN 4 ELSE 0)

(* gf_output_logical_to_crtc_transform, gf_output_crtc_to_logical_transform;*)
(* p is the transform of the panel                                         *)
LogicalToCrtc(t, p) == Compose(t, p)
CrtcToLogical(t, p) == Compose(t, Invert(p))

-----------------------------------------------------------------------------
(* The monitors a configuration is made for                                *)

(* Mutant: the lid is forgotten.                                           *)
VisibleMonitorsAll(w) == w.known

(* MONITOR_MATCH_VISIBLE *)
VisibleMonitors(w) == {m \in w.known : ~(m = Panel /\ w.lid)}

(* gf_create_monitors_config_key_for_current_state: a closed panel counts  *)
(* only when it is alone.  {} is NULL.                                     *)
CurrentKey(w) ==
    IF VisibleMonitors(w) # {} THEN VisibleMonitors(w) ELSE w.known

(* gf_monitor_manager_is_config_applicable *)
IsConfigApplicable(w, c) ==
    c.on \subseteq w.known /\ c.usable /\ ~(Panel \in c.on /\ w.lid)

(* gf_monitor_manager_is_config_complete *)
IsConfigComplete(w, c) ==
    w.known # {} /\ KeyOf(c) = CurrentKey(w) /\ IsConfigApplicable(w, c)

(* a GObject address that is not in use                                    *)
UsedRoots(w) ==
    {w.current.root, asked.root, before.root}
    \cup {w.history[i].root : i \in DOMAIN w.history}
    \cup {w.store[k].root : k \in SUBSET Monitors}
FreshRoot(w) ==
    CHOOSE r \in Roots \ ({0} \cup UsedRoots(w)) :
        1 .. r - 1 \subseteq UsedRoots(w)

-----------------------------------------------------------------------------
(* GfMonitorConfigManager: making configurations                           *)

TiltTransform(w) == IF w.tilt = NoTilt THEN 0 ELSE w.tilt

(* get_monitor_transform *)
PanelTurn(w) == IF w.managed THEN TiltTransform(w) ELSE 0

(* gf_monitors_config_new with create_preferred_logical_monitor_config for *)
(* every monitor of on                                                     *)
NewConfig(w, on, primary) ==
    [on |-> on, off |-> VisibleMonitors(w) \ on, primary |-> primary,
     turn |-> IF Panel \in on THEN PanelTurn(w) ELSE 0,
     mirror |-> FALSE, usable |-> TRUE, root |-> FreshRoot(w)]

(* find_monitor_with_highest_preferred_resolution *)
Largest(S) == CHOOSE m \in S : \A n \in S : Area[n] <= Area[m]

(* find_primary_monitor among the monitors S that match the rule           *)
FindPrimary(w, S) ==
    CASE w.believed.primary \in S -> w.believed.primary
      [] w.believed.primary \notin S /\ Panel \in S -> Panel
      [] w.believed.primary \notin S /\ Panel \notin S /\ S # {} -> Largest(S)
      [] OTHER -> NoMonitor

(* the same with MONITOR_MATCH_ALLOW_FALLBACK                              *)
FindPrimaryOrAny(w) ==
    IF VisibleMonitors(w) = {} /\ w.known # {}
    THEN Largest(w.known)
    ELSE FindPrimary(w, VisibleMonitors(w))

CreateLinear(w) ==
    LET p == FindPrimaryOrAny(w)
    IN IF p = NoMonitor THEN NoConfig
       ELSE NewConfig(w, {p} \cup VisibleMonitors(w), p)

CreateFallback(w) ==
    LET p == FindPrimaryOrAny(w)
    IN IF p = NoMonitor THEN NoConfig ELSE NewConfig(w, {p}, p)

CreateSuggested(w) ==
    LET p == FindPrimary(w, VisibleMonitors(w) \cap Virtual)
    IN IF p = NoMonitor THEN NoConfig
       ELSE NewConfig(w, {p} \cup (w.known \cap Virtual), p)

(* create_for_builtin_display_rotation with rotate = FALSE: only a panel   *)
(* that is configured on its own, and only if something changes.  The      *)
(* result is a child of c.                                                 *)
Rotated(w, c, transform) ==
    LET turn == CrtcToLogical(transform, PanelTransform)
    IN IF /\ Panel \in c.on \cap w.known
          /\ c.mirror => c.on = {Panel}
          /\ c.turn # turn
       THEN [c EXCEPT !.turn = turn, !.off = VisibleMonitors(w) \ c.on]
       ELSE NoConfig

(* gf_monitor_config_manager_create_for_builtin_orientation                *)
Oriented(w, c) ==
    IF w.managed /\ Exists(c) THEN Rotated(w, c, PanelTurn(w)) ELSE NoConfig

OrientedOrSame(w, c) == IF Exists(Oriented(w, c)) THEN Oriented(w, c) ELSE c

-----------------------------------------------------------------------------
(* Applying a configuration                                                *)

(* gf_monitor_config_manager_set_current: a rotation of the current one    *)
(* replaces it, anything else pushes it on the history                     *)
SetCurrent(w, c) ==
    LET overrides == /\ Exists(c) /\ c.root = w.current.root
                     /\ KeyOf(c) = KeyOf(w.current)
        pushed == <<w.current>> \o w.history
    IN [w EXCEPT !.current = c,
                 !.history = IF Exists(w.current) /\ ~overrides
                             THEN SubSeq(pushed, 1, IF Len(pushed) > HistoryMax
                                                    THEN HistoryMax
                                                    ELSE Len(pushed))
                             ELSE @]

(* gf_monitor_manager_rebuild_derived *)
RebuildDerived(w) ==
    LET modes == [w EXCEPT !.active = w.known \cap w.believed.on]
    IN IF w.init THEN modes
       ELSE [modes EXCEPT !.placed = w.known \cap w.believed.on,
                          !.placedTurn = w.believed.turn]

(* the X server tells its clients                                          *)
Notified(w) == [w EXCEPT !.events = IF @ = MaxEvents THEN @ ELSE @ + 1]

(* apply_crtc_assignments, save_timestamp = TRUE                           *)
ApplyCrtcAssignments(w, layout) ==
    Notified([w EXCEPT !.lit = layout, !.believed = layout,
                       !.configNewer = FALSE, !.foreign = FALSE,
                       !.missed = @ \/ (w.configNewer /\ w.known # w.connected)])

(* gf_monitor_config_manager_assign does not return an error               *)
Assignable(c) == Exists(c) /\ c.usable /\ Cardinality(c.on) <= Crtcs

(* gf_monitor_manager_xrandr_apply_monitors_config with NULL               *)
TurnOff(w) ==
    RebuildDerived(IF w.init \/ w.believed.on = {} THEN w
                   ELSE ApplyCrtcAssignments(w, [w.believed EXCEPT !.on = {},
                                                   !.turn = 0, !.mirror = FALSE]))

(* is_assignments_changed: X notifies only of changes, what did not change *)
(* there is rebuilt at once                                                *)
SetLayout(w, c) ==
    IF w.believed # LayoutOf(c)
    THEN ApplyCrtcAssignments(w, LayoutOf(c))
    ELSE RebuildDerived(w)

(* gf_monitor_manager_apply_monitors_config, TEMPORARY or PERSISTENT.  The *)
(* loop over the outputs of c in gf_monitor_config_manager_assign comes    *)
(* before any check.                                                       *)
ApplyMonitorsConfig(w, c) ==
    IF ~(c.on \subseteq w.known) THEN [w EXCEPT !.crashed = "missing monitor"]
    ELSE IF ~Exists(c) THEN SetCurrent(TurnOff(w), NoConfig)
    ELSE IF Assignable(c) THEN SetCurrent(SetLayout(w, c), c)
    ELSE w

(* gf_monitor_manager_ensure_configured, the steps in its order            *)
UseStored(w) == w.init \/ w.known \cap Virtual = {}

Candidates(w) ==
    LET stored == IF UseStored(w) /\ w.known # {}
                  THEN OrientedOrSame(w, w.store[CurrentKey(w)]) ELSE NoConfig
        oriented == Oriented(w, w.current)
        previous == IF w.history = <<>> THEN NoConfig
                    ELSE OrientedOrSame(w, Head(w.history))
        IfComplete(c) == IF IsConfigComplete(w, c) THEN c ELSE NoConfig
    IN <<stored, IfComplete(oriented), CreateSuggested(w),
         IfComplete(previous), CreateLinear(w), CreateFallback(w)>>

EnsureConfigured(w) ==
    LET cs == Candidates(w)
        working == {i \in DOMAIN cs : Assignable(cs[i])}
    IN ApplyMonitorsConfig(w, IF working = {} THEN NoConfig
                              ELSE cs[CHOOSE i \in working : \A j \in working : i <= j])

(* restore_previous_config *)
RestorePrevious(w) ==
    IF w.history = <<>> THEN EnsureConfigured(w)
    ELSE LET popped == [w EXCEPT !.history = Tail(@)]
             c == OrientedOrSame(w, Head(w.history))
         IN IF Assignable(c) \/ ~(c.on \subseteq w.known)
            THEN ApplyMonitorsConfig(popped, c)
            ELSE EnsureConfigured(popped)

-----------------------------------------------------------------------------
(* Orientation, reading the X server                                       *)

(* handle_orientation_change; the logical monitor of the panel is used     *)
(* without a test                                                          *)
HandleOrientation(w) ==
    LET turn == CrtcToLogical(TiltTransform(w), PanelTransform)
        c == Rotated(w, w.current, TiltTransform(w))
    IN IF Panel \notin w.active THEN w
       ELSE IF Panel \notin w.placed
            THEN [w EXCEPT !.crashed = "no logical monitor"]
       ELSE IF w.placedTurn = turn \/ ~Exists(w.current) \/ ~Exists(c) THEN w
       ELSE ApplyMonitorsConfig(w, c)

(* update_panel_orientation_managed *)
UpdateManaged(w) ==
    LET managed == w.accel /\ Panel \in w.known
        updated == [w EXCEPT !.managed = managed]
    IN IF managed /\ ~w.managed THEN HandleOrientation(updated) ELSE updated

(* gf_monitor_manager_read_current_state with rebuild_monitors: the new    *)
(* GfMonitor objects have modes but no logical monitors                    *)
ReadCurrentState(w) ==
    UpdateManaged([w EXCEPT !.known = w.connected, !.believed = w.lit,
                            !.active = w.connected \cap w.lit.on,
                            !.placed = {}])

(* gf_monitor_manager_xrandr_handle_xevent *)
HandleXevent(w) ==
    LET read == ReadCurrentState([w EXCEPT !.events = @ - 1])
    IN IF read.crashed # "no" THEN read
       ELSE IF read.configNewer
            THEN EnsureConfigured([read EXCEPT !.missed = FALSE])
            ELSE RebuildDerived(read)

(* gf_monitor_manager_setup *)
Setup(w) ==
    LET configured == EnsureConfigured(ReadCurrentState(w))
    IN RebuildDerived([ReadCurrentState(configured) EXCEPT !.init = FALSE])

Bare(connected, lit, lid, store) ==
    [connected |-> connected, lit |-> lit, configNewer |-> FALSE,
     foreign |-> FALSE, events |-> 0, lid |-> lid, accel |-> FALSE,
     tilt |-> NoTilt, init |-> TRUE, known |-> {}, believed |-> lit,
     active |-> {}, placed |-> {}, placedTurn |-> 0, managed |-> FALSE,
     current |-> NoConfig, history |-> <<>>, store |-> store,
     missed |-> FALSE, crashed |-> "no"]

(* monitors.xml: nothing, or the panel turned off beside another monitor,  *)
(* with modes that still exist or not                                      *)
EmptyStore == [k \in SUBSET Monitors |-> NoConfig]
Stores ==
    {EmptyStore} \cup
    {[EmptyStore EXCEPT ![Monitors] =
        [on |-> {m}, off |-> Monitors \ {m}, primary |-> m, turn |-> 0,
         mirror |-> FALSE, usable |-> usable, root |-> 1]]
     : m \in Monitors \ {Panel}, usable \in BOOLEAN}

(* X lit the connected monitors before the session started.  UPower is     *)
(* asked for the lid only later.                                           *)
Init ==
    /\ timerId = FALSE
    /\ timers = 0
    /\ dialog = FALSE
    /\ asked = NoConfig
    /\ before = NoConfig
    /\ inputs = 0
    /\ \E connected \in (SUBSET Monitors) \ {{}}, store \in Stores :
         world = Setup(Bare(connected,
                            [on |-> connected, primary |-> NoMonitor,
                             turn |-> 0, mirror |-> FALSE],
                            FALSE, store))

-----------------------------------------------------------------------------
(* The environment                                                         *)

Running == world.crashed = "no"

Input(kind) ==
    /\ Running
    /\ kind \in Inputs
    /\ inputs < MaxInputs
    /\ inputs' = inputs + 1

confirmation == <<timerId, timers, dialog, asked, before>>

(* Outputs are plugged and unplugged, or only probed again                 *)
Hotplug ==
    /\ Input("hotplug")
    /\ \E S \in SUBSET Monitors :
         world' = Notified([world EXCEPT !.connected = S, !.configNewer = TRUE])
    /\ UNCHANGED confirmation

(* Another client of the X server, the xrandr tool for one, sets CRTCs     *)
OtherClient ==
    /\ Input("other client")
    /\ \E S \in (SUBSET world.connected) \ {{}} :
         /\ S # world.lit.on
         /\ world' = Notified([world EXCEPT !.lit.on = S,
                                 !.configNewer = FALSE, !.foreign = TRUE,
                                 !.missed = @ \/ (world.configNewer /\
                                    world.known # world.connected)])
    /\ UNCHANGED confirmation

(* upower_properties_changed_cb with lid_is_closed_changed_cb              *)
LidChanged ==
    /\ Input("lid")
    /\ Panel # NoMonitor
    /\ world' = EnsureConfigured([world EXCEPT !.lid = ~@])
    /\ UNCHANGED confirmation

(* sync_state: read_iio_proxy, the notification of has-accelerometer and,  *)
(* unless the orientation is locked (emit), orientation-changed            *)
SensorRead(w, accel, tilt) ==
    LET read == [w EXCEPT !.accel = accel,
                          !.tilt = IF accel THEN tilt ELSE NoTilt]
    IN IF accel # w.accel THEN UpdateManaged(read) ELSE read

(* orientation_changed *)
OrientationChanged(w) ==
    IF w.crashed = "no" /\ w.managed THEN HandleOrientation(w) ELSE w

SyncState ==
    /\ Input("sensor")
    /\ \E accel \in BOOLEAN, tilt \in Tilts \cup {NoTilt}, emit \in BOOLEAN :
         LET read == SensorRead(world, accel, tilt)
         IN /\ read.accel # world.accel \/ read.tilt # world.tilt
            /\ emit => read.tilt # NoTilt
            /\ world' = IF emit THEN OrientationChanged(read) ELSE read
    /\ UNCHANGED confirmation

(* the orientation lock is released                                        *)
Unlocked ==
    /\ Input("sensor")
    /\ world.tilt # NoTilt
    /\ world' = OrientationChanged(world)
    /\ UNCHANGED confirmation

(* what a client can ask for and gf_verify_monitors_config lets pass       *)
Requests(w) ==
    {[on |-> S, off |-> VisibleMonitors(w) \ S, primary |-> p, turn |-> t,
      mirror |-> b, usable |-> TRUE, root |-> FreshRoot(w)]
     : S \in SUBSET w.known, p \in w.known, t \in Tilts \cup {0},
       b \in Mirrors}

IsRequest(c) ==
    /\ c.primary \in c.on
    /\ Panel \notin c.on => c.turn = 0
    /\ c.mirror => Cardinality(c.on) > 1

(* cancel_persistent_confirmation, then request_persistent_confirmation    *)
Cancelled == IF timerId THEN timers - 1 ELSE timers
Armed == Cancelled + 1

(* no configuration is on trial any more                                   *)
Decided == asked' = NoConfig /\ before' = NoConfig

(* gf_monitor_manager_handle_apply_monitors_config.  A request that is     *)
(* refused (stale serial, verify only, not applicable) changes nothing.    *)
HandleApply ==
    /\ Input("request")
    /\ \E c \in Requests(world), method \in Methods :
         /\ IsRequest(c)
         /\ IsConfigApplicable(world, c)
         /\ world' = ApplyMonitorsConfig(world, c)
         /\ IF method = "persistent" /\ Assignable(c)
            THEN /\ timerId' = TRUE
                 /\ timers' = Armed
                 /\ dialog' = TRUE
                 /\ asked' = c
                 /\ before' = world.current
            ELSE /\ timerId' = FALSE
                 /\ timers' = Cancelled
                 /\ Decided
                 /\ UNCHANGED dialog

-----------------------------------------------------------------------------
(* The main loop                                                           *)

ScreenChangeNotify ==
    /\ Running
    /\ world.events > 0
    /\ world' = HandleXevent(world)
    /\ UNCHANGED <<confirmation, inputs>>

(* save_config_timeout, 20 s after the request                             *)
SaveConfigTimeout ==
    /\ Running
    /\ timers > 0
    /\ timers' = timers - 1
    /\ timerId' = FALSE
    /\ world' = RestorePrevious(world)
    /\ Decided
    /\ UNCHANGED <<dialog, inputs>>

(* Mutant: what is stored is the configuration before the one on trial.    *)
SaveCurrentPrevious(w) ==
    IF w.history # <<>>
    THEN [w EXCEPT !.store[KeyOf(Head(w.history))] = Head(w.history)] ELSE w

(* confirm_configuration with gf_monitor_config_manager_save_current       *)
SaveCurrent(w) ==
    IF Exists(w.current)
    THEN [w EXCEPT !.store[KeyOf(w.current)] = w.current] ELSE w

(* keep_changes_cb: a button, Escape, the window manager, or the countdown *)
(* of the dialog; too late when the timer is gone                          *)
KeepChanges(keep) ==
    /\ Running
    /\ dialog
    /\ dialog' = FALSE
    /\ timerId' = FALSE
    /\ timers' = Cancelled
    /\ world' = IF ~timerId THEN world
                ELSE IF keep THEN SaveCurrent(world) ELSE RestorePrevious(world)
    /\ Decided
    /\ UNCHANGED inputs

Next ==
    \/ Hotplug
    \/ OtherClient
    \/ LidChanged
    \/ SyncState
    \/ Unlocked
    \/ HandleApply
    \/ ScreenChangeNotify
    \/ SaveConfigTimeout
    \/ \E keep \in BOOLEAN : KeepChanges(keep)

(* GLib dispatches X events and timers; nobody need touch the dialog.      *)
(* These are WF_vars (ScreenChangeNotify) and WF_vars (SaveConfigTimeout): *)
(* both actions are enabled exactly by their guards, because the first     *)
(* consumes an event unless it changes X, and the second a timer.          *)
Fairness ==
    /\ \/ []<>(world.events = 0 \/ ~Running)
       \/ []<><<ScreenChangeNotify>>_vars
    /\ \/ []<>(timers = 0 \/ ~Running)
       \/ []<><<SaveConfigTimeout>>_vars

Spec == Init /\ [][Next]_vars /\ Fairness

-----------------------------------------------------------------------------
(* Properties                                                              *)

(* Types of the monitor manager and of the confirmation.                   *)
TypeOK ==
    /\ world \in Worlds
    /\ timerId \in BOOLEAN
    /\ timers \in Nat
    /\ dialog \in BOOLEAN
    /\ asked \in Configs
    /\ before \in Configs
    /\ inputs \in 0 .. MaxInputs

(* everything X reported has been read, and no change of our own has made  *)
(* an unread hotplug look old                                              *)
Settled == Running /\ world.events = 0 /\ ~world.missed

(* Once settled, the current configuration was made for exactly the        *)
(* monitors that are there, a closed panel left out: neither hotplugs nor  *)
(* the lid, rotations or requests in any order leave one forgotten.        *)
CoversMonitors ==
    Settled => IF Exists(world.current)
               THEN KeyOf(world.current) = CurrentKey(world)
               ELSE world.known = {}

(* Once settled, a user with a visible monitor sees a picture on one,      *)
(* unless another client of the X server has set the CRTCs since.          *)
PictureSomewhere ==
    Settled /\ ~world.foreign /\ VisibleMonitors(world) # {} =>
        world.lit.on \cap VisibleMonitors(world) # {}

(* Once settled, the closed panel is off unless it is alone or another     *)
(* client has set the CRTCs since.                                         *)
ClosedPanelStaysOff ==
    Settled /\ ~world.foreign /\ world.lid /\ Panel \in world.lit.on =>
        world.known = {Panel}

(* Once settled, the logical monitors are those that X lights, turned as   *)
(* X turns them, whoever changed X and whether X notified or not.          *)
PlacedAsLit ==
    Running /\ world.events = 0 =>
        /\ world.placed = world.lit.on \cap world.known
        /\ Panel \in world.placed => world.placedTurn = world.lit.turn

(* One timer at most decides on a pending configuration, and it can be     *)
(* cancelled: persistent_timeout_id is its id.                             *)
NoLeakedTimer == timers = IF timerId THEN 1 ELSE 0

Reverts == SaveConfigTimeout \/ (timerId /\ KeepChanges(FALSE))

(* Reverting a configuration that is still in force brings back the one    *)
(* before it, turned as the panel now is.                                  *)
RestoresBefore ==
    Reverts /\ world.current.root = asked.root /\ Exists(before) =>
        /\ world'.current.root = before.root
        /\ world'.current.on = before.on

(* What the dialog keeps is the configuration it was opened for.           *)
KeepsAsked == world'.store # world.store => world'.store[KeyOf(asked)].root = asked.root

-----------------------------------------------------------------------------
(* What the proofs need of every world besides, also of one that a part of *)
(* a callback has made.                                                    *)

(* A configuration that is kept lights something, and a stored one is      *)
(* found by its key.                                                       *)
Kept(w) ==
    /\ Len(w.history) <= HistoryMax
    /\ Exists(w.current) => w.current.on # {}
    /\ \A i \in DOMAIN w.history : Exists(w.history[i]) => w.history[i].on # {}
    /\ \A k \in SUBSET Monitors :
         Exists(w.store[k]) => w.store[k].on # {} /\ KeyOf(w.store[k]) = k

(* Unless another client has set the CRTCs, the manager knows what is lit, *)
(* and it is what the current configuration asks for.                      *)
LitAsAsked(w) ==
    ~w.foreign =>
        /\ w.believed = w.lit
        /\ IF Exists(w.current) THEN w.lit = LayoutOf(w.current) ELSE w.init \/ w.lit.on = {}

(* A monitor that has come or gone unnoticed is announced by an event, and *)
(* will be taken for a hotplug unless an own change hides it.              *)
Announced(w) == w.known # w.connected => w.events > 0 /\ (w.configNewer \/ w.missed)

(* The current configuration was made for the monitors that the manager     *)
(* knows of.                                                               *)
Covers(w) == IF Exists(w.current) THEN KeyOf(w.current) = CurrentKey(w) ELSE w.known = {}

(* Once all events are read, the manager knows what X lights and has placed *)
(* the logical monitors there.                                             *)
Placed(w) ==
    w.events = 0 => /\ w.believed = w.lit
                    /\ w.placed = w.known \cap w.believed.on
                    /\ w.placedTurn = w.believed.turn

(* What every world that a callback leaves behind is like, and Inv, as long *)
(* as no configuration is on trial.                                        *)
Sound(w) ==
    /\ w \in Worlds /\ Kept(w) /\ LitAsAsked(w) /\ ~w.init
    /\ w.crashed = "no" => Announced(w) /\ Placed(w) /\ (~w.missed => Covers(w))

Inv == TypeOK /\ ~timerId /\ timers = 0 /\ ~dialog /\ Sound(world)
=============================================================================
