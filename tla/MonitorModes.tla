----------------------------- MODULE MonitorModes -----------------------------
(***************************************************************************)
(* The modes of a GfMonitor, made of the CRTC modes of its outputs: one    *)
(* output for a GfMonitorNormal, one for each tile of a GfMonitorTiled.    *)
(* A mode has an id, of its size and of its refresh rate to three digits,  *)
(* and several CRTC modes may come to the same id.  Each round of the      *)
(* loops of generate_modes is a step.                                      *)
(***************************************************************************)
EXTENDS Integers, Sequences, SequencesExt, FiniteSetsExt

CONSTANTS
    Tile,        \* the size, in pixels, of a tile
    Sizes,       \* of other CRTC modes
    Rates,       \* refresh rates, as the id tells them apart
    Flags,       \* flags of a CRTC mode, which no id tells
    MaxModes     \* bound: CRTC modes of an output

VARIABLES
    outputs,     \* sequence of [modes, lit]: CRTC modes, the one that is lit or 0
    phase,       \* the loop that generate_modes is in
    next,        \* the CRTC mode it has come to
    pending,     \* tiled_modes
    best,        \* best_mode
    modes,       \* priv->modes
    preferred, current,
    freed,       \* history: modes that were freed
    aborted      \* history: g_assert (!current_mode) failed

vars == <<outputs, phase, next, pending, best, modes, preferred, current, freed, aborted>>



None == <<>>                          \* NULL
CrtcModes == [size : Sizes \cup {Tile}, rate : Rates, flags : Flags]

IsTiled == Len(outputs) > 1
Preferred == 1                        \* preferred_mode of an output: its first mode
CrtcMode(o, i) == outputs[o].modes[i]
TileModes(o) == {i \in DOMAIN outputs[o].modes : CrtcMode(o, i).size = Tile}

(* find_untiled_output: the output with the most untiled modes             *)
Untiled(o) == Len(outputs[o].modes) - Cardinality(TileModes(o))
Main == CHOOSE o \in DOMAIN outputs :
    /\ \A p \in DOMAIN outputs : Untiled(p) <= Untiled(o)
    /\ \A p \in 1 .. o - 1 : Untiled(p) < Untiled(o)

(* gf_monitor_mode_spec_generate_id                                        *)
Id(mode) == <<mode.size, mode.rate>>

(* gf_monitor_is_mode_assigned                                             *)
IsModeAssigned(mode) == \A o \in DOMAIN outputs : mode.crtcs[o] = outputs[o].lit

(* Mutant: a mode is added whether there is one of its id or not.          *)
Append1(mode, replace) == Append(modes, mode)

(* gf_monitor_add_mode                                                     *)
Exists(mode) == \E i \in DOMAIN modes : Id(modes[i]) = Id(mode)
Existing(mode) == CHOOSE i \in DOMAIN modes : Id(modes[i]) = Id(mode)
AddMode(mode, replace) ==
    IF ~Exists(mode) THEN Append(modes, mode)
    ELSE IF replace THEN Append(RemoveAt(modes, Existing(mode)), mode)
    ELSE modes

-----------------------------------------------------------------------------
(* generate_modes of a GfMonitorNormal                                     *)
NormalMode(i) == [size |-> CrtcMode(1, i).size, rate |-> CrtcMode(1, i).rate, ref |-> i, crtcs |-> <<i>>]

GenerateNormal ==
    /\ phase = "normal"
    /\ IF next > Len(outputs[1].modes)
       THEN /\ phase' = "derive"
            /\ UNCHANGED <<next, modes, preferred, current>>
       ELSE LET mode == NormalMode(next)
                replace == CrtcMode(1, next).flags = CrtcMode(1, Preferred).flags
                added == replace \/ ~Exists(mode)
            IN  /\ modes' = AddMode(mode, replace)
                /\ preferred' = IF added /\ next = Preferred THEN mode ELSE preferred
                /\ current' = IF added /\ outputs[1].lit = next THEN mode ELSE current
                /\ next' = next + 1
                /\ UNCHANGED phase
    /\ UNCHANGED <<outputs, pending, best, freed, aborted>>

-----------------------------------------------------------------------------
(* find_tiled_crtc_mode: the preferred mode if it is of the size of the    *)
(* tile, whatever the reference is                                         *)
FindTiledCrtcMode(o, ref) ==
    IF Preferred \in TileModes(o) THEN Preferred
    ELSE LET same == {i \in TileModes(o) : /\ CrtcMode(o, i).rate = CrtcMode(Main, ref).rate
                                            /\ CrtcMode(o, i).flags = CrtcMode(Main, ref).flags}
         IN  IF same = {} THEN 0 ELSE Min(same)

(* create_tiled_monitor_mode                                               *)
TiledMode(ref) ==
    [size |-> Tile * Len(outputs), rate |-> CrtcMode(Main, ref).rate, ref |-> ref,
     crtcs |-> [o \in DOMAIN outputs |-> FindTiledCrtcMode(o, ref)]]

(* generate_tiled_monitor_modes: the modes are made                        *)
GenerateTiled ==
    /\ phase = "tiled"
    /\ IF next > Len(outputs[Main].modes)
       THEN /\ phase' = "adding" /\ next' = 1
            /\ UNCHANGED <<pending, preferred, current>>
       ELSE LET mode == TiledMode(next)
                made == next \in TileModes(Main) /\ 0 \notin ToSet(mode.crtcs)
            IN  /\ pending' = IF made THEN Append(pending, mode) ELSE pending
                /\ current' = IF made /\ IsModeAssigned(mode) THEN mode ELSE current
                /\ preferred' = IF made /\ ToSet(mode.crtcs) = {Preferred} THEN mode ELSE preferred
                /\ next' = next + 1
                /\ UNCHANGED phase
    /\ UNCHANGED <<outputs, best, modes, freed, aborted>>

(* ... then they are added, and without a preferred mode the one with the  *)
(* highest refresh rate is                                                 *)
AddTiled ==
    /\ phase = "adding"
    /\ IF pending = <<>>
       THEN /\ phase' = "untiled"
            /\ preferred' = IF best # None THEN best ELSE preferred
            /\ UNCHANGED <<pending, best, modes, freed>>
       ELSE LET mode == Head(pending)
            IN  /\ pending' = Tail(pending)
                /\ modes' = AddMode(mode, FALSE)
                /\ freed' = IF Exists(mode) THEN freed \cup {mode} ELSE freed
                /\ best' = IF /\ ~Exists(mode) /\ preferred = None
                              /\ best = None \/ mode.rate > best.rate
                           THEN mode ELSE best
                /\ UNCHANGED <<phase, preferred>>
    /\ UNCHANGED <<outputs, next, current, aborted>>

(* create_untiled_monitor_mode: the other outputs are off                  *)
UntiledMode(i) ==
    [size |-> CrtcMode(Main, i).size, rate |-> CrtcMode(Main, i).rate, ref |-> i,
     crtcs |-> [o \in DOMAIN outputs |-> IF o = Main THEN i ELSE 0]]

(* generate_untiled_monitor_modes                                          *)
GenerateUntiled ==
    /\ phase = "untiled"
    /\ IF next > Len(outputs[Main].modes)
       THEN /\ phase' = "prefer"
            /\ UNCHANGED <<next, modes, preferred, current, freed, aborted>>
       ELSE LET mode == UntiledMode(next)
                made == next \notin TileModes(Main)
                added == made /\ ~Exists(mode)
            IN  /\ modes' = IF made THEN AddMode(mode, FALSE) ELSE modes
                /\ freed' = IF made /\ ~added THEN freed \cup {mode} ELSE freed
                /\ aborted' = (aborted \/ (added /\ IsModeAssigned(mode) /\ current # None))
                /\ current' = IF added /\ IsModeAssigned(mode) THEN mode ELSE current
                /\ preferred' = IF added /\ preferred = None /\ next = Preferred
                                THEN mode ELSE preferred
                /\ next' = next + 1
                /\ UNCHANGED phase
    /\ UNCHANGED <<outputs, pending, best>>

(* generate_modes of a GfMonitorTiled: without a preferred mode the best    *)
(* one is                                                                  *)
Prefer ==
    /\ phase = "prefer"
    /\ phase' = IF preferred = None THEN "best" ELSE "derive"
    /\ best' = None /\ next' = 1
    /\ UNCHANGED <<outputs, pending, modes, preferred, current, freed, aborted>>

(* find_best_mode                                                          *)
FindBestMode ==
    /\ phase = "best"
    /\ IF next > Len(modes)
       THEN /\ phase' = "derive" /\ preferred' = best
            /\ UNCHANGED <<next, best>>
       ELSE LET mode == modes[next]
            IN  /\ best' = IF best = None \/ mode.size > best.size \/ mode.rate > best.rate
                           THEN mode ELSE best
                /\ next' = next + 1
                /\ UNCHANGED <<phase, preferred>>
    /\ UNCHANGED <<outputs, pending, modes, current, freed, aborted>>

(* gf_monitor_derive_current_mode: the first mode that is lit              *)
DeriveCurrentMode ==
    /\ phase = "derive" /\ phase' = "done"
    /\ LET on == {i \in DOMAIN modes : IsModeAssigned(modes[i])}
       IN  current' = IF on = {} THEN None ELSE modes[Min(on)]
    /\ UNCHANGED <<outputs, next, pending, best, modes, preferred, freed, aborted>>

(* add_tiled_monitor_outputs: those of the tile group, two with both tiles. *)
AddTiledMonitorOutputs(n) ==
    outputs \in [1 .. n ->
        {o \in [modes : UNION {[1 .. k -> CrtcModes] : k \in 1 .. MaxModes}, lit : 0 .. MaxModes] :
            o.lit <= Len(o.modes)}]

Init ==
    /\ \E n \in 1 .. 2 : AddTiledMonitorOutputs(n)
    /\ phase = IF IsTiled THEN "tiled" ELSE "normal"
    /\ next = 1 /\ pending = <<>> /\ best = None /\ modes = <<>>
    /\ preferred = None /\ current = None /\ freed = {} /\ aborted = FALSE

Next == GenerateNormal \/ GenerateTiled \/ AddTiled \/ GenerateUntiled
        \/ Prefer \/ FindBestMode \/ DeriveCurrentMode

Spec == Init /\ [][Next]_vars

-----------------------------------------------------------------------------
(* An id names one mode: D-Bus clients ask for a mode by its id.           *)
OneModePerId == \A i, j \in DOMAIN modes : Id(modes[i]) = Id(modes[j]) => i = j

(* g_assert (!current_mode) holds: a monitor is not lit as a whole and by  *)
(* its main tile alone.                                                    *)
LitOneWay == ~aborted

(* A monitor with modes has a preferred one, through the five rules of     *)
(* generate_modes: gf_monitor_mode_should_be_advertised relies on it.      *)
HasPreferredMode == phase = "done" /\ modes # <<>> => preferred # None

-----------------------------------------------------------------------------
(* What the proofs need of every state besides.                            *)
Output == [modes : Seq(CrtcModes) \ {<<>>}, lit : Nat]
Mode == [size : Sizes \cup {Tile, Tile * 2}, rate : Rates, ref : Nat, crtcs : Seq(Nat)]

TypeOK ==
    /\ outputs \in [1 .. 1 -> Output] \cup [1 .. 2 -> Output]
    /\ phase \in {"normal", "tiled", "adding", "untiled", "prefer", "best", "derive", "done"}
    /\ phase = "normal" => ~IsTiled
    /\ phase \in {"tiled", "adding", "untiled"} => IsTiled
    /\ next \in Nat \ {0}
    /\ pending \in Seq(Mode) /\ modes \in Seq(Mode)
    /\ {best, preferred, current} \subseteq Mode \cup {None}

(* A mode is the current one while modes are made because all outputs are  *)
(* lit or because one alone is, by a mode that was met.                    *)
LitBy ==
    LET all == \A o \in DOMAIN outputs : outputs[o].lit # 0
        alone == \E o \in DOMAIN outputs :
                    /\ outputs[o].lit \in 1 .. next - 1
                    /\ \A p \in DOMAIN outputs \ {o} : outputs[p].lit = 0
    IN  current # None =>
            /\ phase \in {"tiled", "adding"} => all
            /\ phase = "untiled" => all \/ alone

(* The rule that finds the preferred mode has found one as soon as it has  *)
(* looked at a mode.                                                       *)
PreferredIsFound ==
    /\ phase = "normal" /\ next > 1 => preferred # None
    /\ phase = "best" /\ next > 1 => best # None
    /\ phase \in {"derive", "done"} /\ modes # <<>> => preferred # None

Inv == TypeOK /\ OneModePerId /\ LitOneWay /\ LitBy /\ PreferredIsFound
=============================================================================
