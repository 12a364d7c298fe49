--------------------------- MODULE MCMonitorConfig ---------------------------
(* Two environments for module MonitorConfig, a laptop in each. In one, the   *)
(* constants of the configuration file: monitors come and go, the lid, the    *)
(* accelerometer and another client of the X server change what is shown. In  *)
(* the other, a user tries configurations out, with the confirmation dialog,  *)
(* while the accelerometer turns the panel.                                   *)
EXTENDS MonitorConfig

CONSTANTS panel, external
VARIABLE environment

MCMonitors == {panel, external}
MCArea == [m \in MCMonitors |-> IF m = panel THEN 1 ELSE 2]

Trial == INSTANCE MonitorConfig WITH
    Methods <- {"temporary", "persistent"}, Mirrors <- {FALSE}, Inputs <- {"request", "sensor"}

BothInit == Init /\ environment \in {"hotplugs", "trial"}
BothNext ==
    \/ environment = "hotplugs" /\ Next /\ UNCHANGED environment
    \/ environment = "trial" /\ Trial!Next /\ UNCHANGED environment
BothSpec == BothInit /\ [][BothNext]_<<vars, environment>> /\ Fairness

-----------------------------------------------------------------------------
(* Once settled, the configuration is one for the monitors that are there,    *)
(* the user sees a picture, a closed panel is off and the logical monitors    *)
(* are what X lights (gf-monitor-config-manager.c, gf-monitor-manager.c). Inv *)
(* is what that rests on, see MonitorConfigProofs.                            *)
ConfigurationFits ==
    environment = "hotplugs" =>
        Inv /\ CoversMonitors /\ PictureSomewhere /\ ClosedPanelStaysOff /\ PlacedAsLit

(* A trial ends, by one timer; what is kept is what was asked for and what is *)
(* reverted is what was there before (gf-monitor-manager.c,                   *)
(* gf-confirm-display-change-dialog.c).                                       *)
TrialIsAnswered ==
    /\ [](environment = "trial" => NoLeakedTimer)
    /\ [][environment = "trial" => RestoresBefore /\ KeepsAsked]_vars
    /\ (environment = "trial" /\ timerId) ~> ~timerId
=============================================================================
