--------------------------- MODULE CrtcAssignment ---------------------------
(***************************************************************************)
(* GfMonitorManagerXrandr: a configuration becomes requests to the X       *)
(* server, and what the server, another client or a plug changed comes     *)
(* back as RRScreenChangeNotify.  Module MonitorConfig chooses the         *)
(* configurations; here they are applied, CRTC by CRTC, to a screen that   *)
(* has one dimension.                                                      *)
(*                                                                         *)
(* The X server is external: it tells of what changed only, and refuses a  *)
(* screen that some CRTC reaches out of.                                   *)
(***************************************************************************)
EXTENDS Integers, FiniteSetsExt

CONSTANTS
    Crtcs, Outputs,
    Layouts,        \* what CRTCs may be set to: functions of some of Crtcs
    Scales,         \* scales of logical monitors
    NoCrtc,         \* an output that no CRTC drives
    MaxTime         \* bound: the server's clock

VARIABLE w       \* a record of the fields of World

Off == [x |-> 0, width |-> 0, outputs |-> {}]
Auto == 0           \* the scale of logical monitors without a configuration
NoConfig == [crtcs |-> <<>>, mark |-> FALSE, scale |-> Auto]
Configs == [crtcs : Layouts, mark : BOOLEAN, scale : Scales]
Placement == [x : Nat, width : Nat, outputs : SUBSET Outputs]

World == [
    \* the X server
    size : Nat,                     \* width of the screen
    lit : [Crtcs -> Placement],
    mark : BOOLEAN,                 \* _GNOME_FLASHBACK_PRESENTATION_OUTPUT of the outputs
    time : 1 .. MaxTime,            \* its clock
    stamp : 1 .. MaxTime,           \* of the last XRRSetCrtcConfig: resources->timestamp
    plugged : 0 .. MaxTime,         \* of the last hotplug: resources->configTimestamp
    events : Nat,                   \* RRScreenChangeNotify that were not read
    \* the manager
    read : [Crtcs -> Placement],    \* current_mode and rect of the GfCrtcs
    known : [Crtcs -> Placement],   \* GfCrtcConfig of the GfCrtcs
    assigned : [Outputs -> Crtcs \cup {NoCrtc}],
    marked : BOOLEAN,               \* is_presentation of the outputs
    lastSet : 1 .. MaxTime,         \* last_xrandr_set_timestamp
    current : Configs \cup {NoConfig},      \* of the configuration manager
    layout : SUBSET (Nat \X Nat),   \* the logical monitors
    scale : Scales \cup {Auto},
    tiles : BOOLEAN,                \* a group of tiled outputs is connected
    listed : BOOLEAN,               \* its GfMonitorTiled is in manager->monitors
    held : {"none", "listed", "old"},   \* the one that a logical monitor refers to
    atoms : Nat,                    \* tiled_monitor_atoms
    registered : BOOLEAN,           \* XRRSetMonitor
    \* history
    by : {"manager", "client"},     \* who made the last XRRSetCrtcConfig
    failed : BOOLEAN,               \* a request was refused and no event came since
    complained : BOOLEAN]           \* the server refused a size though all was known

End(c) == c.x + c.width
Ends(f) == Max({0} \cup {End(f[c]) : c \in DOMAIN f})
Lit(f) == {c \in DOMAIN f : f[c] # Off}
Driver(f, o) == LET cs == {c \in DOMAIN f : o \in f[c].outputs}
                IN  IF cs = {} THEN NoCrtc ELSE CHOOSE c \in cs : TRUE
Drivers(f) == [o \in Outputs |-> Driver(f, o)]

-----------------------------------------------------------------------------
(* A tiled monitor has a name in XRandR, which is counted: the old object  *)
(* lives on in the logical monitors when the new one is made.              *)
Added(v) == [v EXCEPT !.atoms = @ + 1, !.registered = TRUE, !.listed = TRUE]

Removed(v) == [v EXCEPT !.atoms = @ - 1, !.registered = @ /\ v.atoms > 1]

(* rebuild_monitors: the list is made again                                *)
RebuildMonitors(v) ==
    LET gone == [v EXCEPT !.listed = FALSE, !.held = IF @ = "listed" THEN "old" ELSE @]
        freed == IF v.listed /\ v.held # "listed" THEN Removed(gone) ELSE gone
    IN  IF v.tiles THEN Added(freed) ELSE freed

(* gf_monitor_manager_rebuild_derived: the layout is the one of the CRTCs, *)
(* of the configuration there is only the scale; the old logical monitors  *)
(* are freed, with the tiled monitor that only they refer to               *)
RebuildDerived(v, config) ==
    LET freed == IF v.held = "old" THEN Removed(v) ELSE v
    IN  [freed EXCEPT !.layout = {<<v.known[c].x, v.known[c].width>> : c \in Lit(v.known)},
                      !.scale = config.scale,
                      !.held = IF v.listed /\ Lit(v.known) # {} THEN "listed" ELSE "none"]

(* gf_monitor_manager_read_current_state, gf_gpu_xrandr_read_current       *)
ReadCurrentState(v) ==
    RebuildMonitors([v EXCEPT !.read = v.lit, !.known = v.lit, !.assigned = Drivers(v.lit),
                              !.marked = v.mark, !.failed = FALSE])

(* is_assignments_changed                                                  *)
Changed(v, config) ==
    \/ \E c \in Crtcs : IF c \in DOMAIN config.crtcs
                        THEN v.read[c].x # config.crtcs[c].x
                             \/ v.read[c].width # config.crtcs[c].width
                        ELSE v.read[c] # Off
    \/ v.assigned # Drivers(config.crtcs)
    \/ v.marked # config.mark

(* Mutant: only CRTCs that the configuration leaves out are turned off.    *)
TurnedOffUnused(v, crtcs) == Lit(v.known) \ DOMAIN crtcs

(* the CRTCs that are turned off before the screen gets its new size: they *)
(* are not used any longer, or reach out of it                             *)
TurnedOff(v, crtcs) ==
    {c \in Lit(v.known) : c \notin DOMAIN crtcs \/ End(v.known[c]) > Ends(crtcs)}

(* XRRSetCrtcConfig of some CRTCs: the outputs are taken from other ones   *)
Set(lit, crtcs, on) == [c \in Crtcs |->
    IF c \in on THEN crtcs[c]
    ELSE LET left == lit[c].outputs \ UNION {crtcs[d].outputs : d \in on}
         IN  IF left = {} THEN Off ELSE [lit[c] EXCEPT !.outputs = left]]

(* save_timestamp: whether a request that was granted has saved its time   *)
Saved(off, on) == off \cup on # {}

(* apply_crtc_assignments, when the driver refuses what is asked of some   *)
(* CRTCs; with no assignment at all the screen and the outputs stay        *)
ApplyCrtcAssignments(v, config, refused) ==
    LET crtcs == config.crtcs
        off   == TurnedOff(v, crtcs)
        lit1  == [c \in Crtcs |-> IF c \in off \ refused THEN Off ELSE v.lit[c]]
        fits  == crtcs # <<>> /\ Ends(lit1) <= Ends(crtcs)
        size1 == IF fits THEN Ends(crtcs) ELSE v.size
        on    == {c \in DOMAIN crtcs \ refused : End(crtcs[c]) <= size1}
        lit2  == Set(lit1, crtcs, on)
        now   == v.time + 1
        done  == (off \ refused) \cup on # {}
    IN  [v EXCEPT
            !.size = size1, !.lit = lit2, !.time = now,
            !.stamp = IF done THEN now ELSE @, !.by = IF done THEN "manager" ELSE @,
            !.lastSet = IF Saved(off \ refused, on) THEN now ELSE @,
            !.events = @ + (IF lit2 # v.lit \/ size1 # v.size THEN 1 ELSE 0),
            !.known = [c \in Crtcs |-> IF c \in on THEN crtcs[c] ELSE IF c \in off THEN Off ELSE @[c]],
            !.assigned = IF crtcs = <<>> THEN @ ELSE Drivers(crtcs),
            !.mark = IF crtcs = <<>> THEN @ ELSE config.mark,
            !.marked = IF crtcs = <<>> THEN @ ELSE config.mark,
            !.failed = @ \/ (off \cap refused # {} \/ on # DOMAIN crtcs),
            !.complained = @ \/ (crtcs # <<>> /\ ~fits /\ v.known = v.lit /\ refused = {})]

(* gf_monitor_manager_xrandr_apply_monitors_config                         *)
ApplyMonitorsConfig(v, config, refused) ==
    LET applied == IF config = NoConfig
                   THEN RebuildDerived(ApplyCrtcAssignments(v, config, refused), config)
                   ELSE IF Changed(v, config) THEN ApplyCrtcAssignments(v, config, refused)
                   ELSE RebuildDerived(v, config)
    IN  [applied EXCEPT !.current = config]

-----------------------------------------------------------------------------
(* A configuration is applied: a request, a rotation, the lid.             *)
Apply(config, refused) ==
    /\ w.time < MaxTime
    /\ w' = ApplyMonitorsConfig(w, config, refused)

(* gf_monitor_manager_xrandr_handle_xevent finds a hotplug: the monitors   *)
(* are configured again, possibly not at all                               *)
HandleHotplug(config, refused) ==
    /\ w.events > 0 /\ w.stamp < w.plugged /\ w.time < MaxTime
    /\ w' = ApplyMonitorsConfig(ReadCurrentState([w EXCEPT !.events = @ - 1]), config, refused)

(* the last XRRSetCrtcConfig is the one that was made here                 *)
Ours(v) == v.stamp = v.lastSet

(* gf_monitor_manager_xrandr_handle_xevent finds a change of the CRTCs     *)
HandleChange ==
    /\ w.events > 0 /\ w.stamp >= w.plugged
    /\ w' = LET v == ReadCurrentState([w EXCEPT !.events = @ - 1])
            IN  RebuildDerived(v, IF Ours(v) THEN v.current ELSE NoConfig)

(* Outputs are plugged in or out.                                          *)
Hotplug ==
    /\ w.time < MaxTime
    /\ \E t \in BOOLEAN :
         w' = [w EXCEPT !.time = @ + 1, !.plugged = w.time + 1, !.events = @ + 1, !.tiles = t]

(* Another client sets the CRTCs.                                          *)
ClientSets(crtcs) ==
    /\ w.time < MaxTime
    /\ w' = [w EXCEPT !.time = @ + 1, !.stamp = w.time + 1, !.by = "client", !.events = @ + 1,
                      !.size = Ends(crtcs), !.lit = Set([c \in Crtcs |-> Off], crtcs, DOMAIN crtcs)]

(* gf_monitor_manager_xrandr_ensure_initial_config                         *)
Start(config, tiles) ==
    LET lit == Set([c \in Crtcs |-> Off], config.crtcs, DOMAIN config.crtcs)
    IN  RebuildDerived(ReadCurrentState(
            [size |-> Ends(config.crtcs), lit |-> lit, mark |-> config.mark,
             time |-> 1, stamp |-> 1, plugged |-> 0, events |-> 0,
             read |-> lit, known |-> lit, assigned |-> Drivers(lit), marked |-> config.mark,
             lastSet |-> 1, current |-> config, layout |-> {}, scale |-> Auto,
             tiles |-> tiles, listed |-> FALSE, held |-> "none", atoms |-> 0,
             registered |-> FALSE, by |-> "manager", failed |-> FALSE, complained |-> FALSE]), config)

Init == \E config \in Configs, tiles \in BOOLEAN : w = Start(config, tiles)

Next ==
    \/ \E config \in Configs \cup {NoConfig}, refused \in SUBSET Crtcs :
         Apply(config, refused) \/ HandleHotplug(config, refused)
    \/ HandleChange
    \/ Hotplug
    \/ \E crtcs \in Layouts : ClientSets(crtcs)

Spec == Init /\ [][Next]_w

-----------------------------------------------------------------------------
(* v is w, or a World that a part of a step has made.                      *)

(* The type invariant; a CRTC that is lit is on the screen.                *)
Typed(v) == v \in World /\ Ends(v.lit) <= v.size

(* "Otherwise X complains loudly when resizing": when the manager has seen *)
(* what the CRTCs are and none of its requests is refused, no CRTC is in   *)
(* the way of the new size of the screen.                                  *)
Free(v) == ~v.complained

(* Once all events are read the manager knows what is lit and which CRTC   *)
(* drives which output, unless a request was refused and nothing changed.  *)
Synced(v) == v.events = 0 /\ ~v.failed => v.known = v.lit /\ v.assigned = Drivers(v.lit)

(* The times that are compared are those of requests, and tell whose the   *)
(* last one was.                                                           *)
Timed(v) ==
    /\ v.stamp <= v.time /\ v.lastSet <= v.time
    /\ v.by = "manager" <=> v.stamp = v.lastSet

(* XRandR knows the tiled monitor as long as a GfMonitorTiled of it lives: *)
(* an atom is held for the one in the list and for the one that only       *)
(* logical monitors refer to.                                              *)
Named(v) ==
    /\ v.held = "listed" => v.listed
    /\ v.atoms = (IF v.listed THEN 1 ELSE 0) + (IF v.held = "old" THEN 1 ELSE 0)
    /\ v.registered <=> v.listed \/ v.held = "old"

Good(v) == Typed(v) /\ Free(v) /\ Synced(v) /\ Timed(v) /\ Named(v)

Inv == Good(w)

(* A change of the CRTCs keeps the configuration exactly when it was made  *)
(* here: its timestamp was saved, through refused and granted requests.    *)
KeepsOurs == HandleChange => w'.scale = IF w.by = "manager" THEN w.current.scale ELSE Auto
=============================================================================
