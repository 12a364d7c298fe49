---------------------------- MODULE ShellPopups -----------------------------
(* Windows the shell service shows over everything: the labels of the monitors*)
(* that one program at a time asks for, hidden 100 ms after it asks or when   *)
(* it leaves the bus; and the on-screen display, hidden by a timeout and a    *)
(* fade, with a window for each monitor.                                      *)
EXTENDS Integers, Sequences, FiniteSets

CONSTANTS
    Clients, None,
    MaxMonitors, MaxCalls  \* bounds

VARIABLES
    alive,    \* the programs on the bus
    client, watching, labels,  \* FlashbackMonitorLabeler: client, watch_id, windows
    timers,   \* the hide timeouts that run, by sender, in order
    hideId,   \* the position of the one hide_id names, 0 for none
    monitors, \* how many there are
    osd,      \* a window for each monitor: shown, hide_timeout_id, fade_id
    calls     \* how many were handled

labeler == <<client, watching, labels, timers, hideId>>
vars == <<alive, labeler, monitors, osd, calls>>

Called == calls < MaxCalls /\ calls' = calls + 1
Without(s, i) == SubSeq(s, 1, i - 1) \o SubSeq(s, i + 1, Len(s))

(* -------------------------------------------------------------- labels ---- *)
(* flashback_monitor_labeler_show: the last timeout is removed, an earlier one*)
(* is not; another program's labels stay.                                     *)
ShowLabels ==
    /\ Called
    /\ \E c \in alive :
          /\ timers' = IF hideId > 0 THEN Without(timers, hideId) ELSE timers
          /\ hideId' = 0
          /\ IF client \notin {None, c} THEN UNCHANGED <<client, watching, labels>>
             ELSE client' = c /\ watching' = TRUE /\ labels' = TRUE
    /\ UNCHANGED <<alive, monitors, osd>>

HideLabels ==
    /\ Called
    /\ \E c \in alive : timers' = Append(timers, c) /\ hideId' = Len(timers) + 1
    /\ UNCHANGED <<alive, client, watching, labels, monitors, osd>>

(* The client is forgotten, its labels stay.                                  *)
HideKeeping ==
    /\ \E i \in DOMAIN timers : timers' = Without(timers, i) /\ client' = None /\ watching' = FALSE
    /\ hideId' = 0 /\ UNCHANGED <<alive, labels, monitors, osd, calls>>
(* hide_cb and untrack_client                                                 *)
HideTimeout ==
    /\ \E i \in DOMAIN timers :
          /\ timers' = Without(timers, i)
          /\ IF client # timers[i] THEN UNCHANGED <<client, watching, labels>>
             ELSE client' = None /\ watching' = FALSE /\ labels' = FALSE
    /\ hideId' = 0
    /\ UNCHANGED <<alive, monitors, osd, calls>>

(* name_vanished_handler: the client stays, and keeps all others out.         *)
NameVanished ==
    /\ watching /\ client \notin alive /\ labels
    /\ labels' = FALSE
    /\ UNCHANGED <<alive, client, watching, timers, hideId, monitors, osd, calls>>

(* ----------------------------------------------------------------- OSD ---- *)
NoOsd == [shown |-> FALSE, timeout |-> FALSE, fade |-> FALSE]

(* gf_osd_window_show: a fade that runs is cancelled and the time starts anew.*)
Shown == [shown |-> TRUE, timeout |-> TRUE, fade |-> FALSE]
Hidden == NoOsd

(* flashback_osd_show: on one monitor or on all                               *)
ShowOsd ==
    /\ Called
    /\ \E on \in {DOMAIN osd} \cup {{i} : i \in DOMAIN osd} :
          osd' = [i \in DOMAIN osd |-> IF i \in on THEN Shown ELSE Hidden]
    /\ UNCHANGED <<alive, labeler, monitors>>

(* hide_timeout_cb and gf_popup_window_fade_start                             *)
TimedOut(w) == [w EXCEPT !.timeout = FALSE, !.fade = TRUE]

HideOsdTimeout ==
    /\ \E i \in DOMAIN osd : osd[i].timeout /\ osd' = [osd EXCEPT ![i] = TimedOut(@)]
    /\ UNCHANGED <<alive, labeler, monitors, calls>>

(* fade_out_cb when the window has faded, and fade_finished_cb                *)
FadeFinished ==
    /\ \E i \in DOMAIN osd : osd[i].fade /\ osd' = [osd EXCEPT ![i] = Hidden]
    /\ UNCHANGED <<alive, labeler, monitors, calls>>

(* monitors_changed: all windows are destroyed and made anew.                 *)
MonitorsChanged ==
    /\ Called
    /\ monitors' \in (0 .. MaxMonitors) \ {monitors}
    /\ osd' = [i \in 1 .. monitors' |-> NoOsd]
    /\ UNCHANGED <<alive, labeler>>

Leaves ==
    /\ \E c \in alive : alive' = alive \ {c}
    /\ UNCHANGED <<labeler, monitors, osd, calls>>

Init ==
    /\ alive = Clients /\ client = None /\ watching = FALSE /\ labels = FALSE /\ timers = <<>> /\ hideId = 0
    /\ monitors \in 1 .. MaxMonitors /\ osd = [i \in 1 .. monitors |-> NoOsd] /\ calls = 0

Next ==
    \/ ShowLabels \/ HideLabels \/ HideTimeout \/ NameVanished
    \/ ShowOsd \/ HideOsdTimeout \/ FadeFinished \/ MonitorsChanged \/ Leaves
Fairness == WF_vars(NameVanished) /\ WF_vars(HideTimeout) /\ WF_vars(HideOsdTimeout) /\ WF_vars(FadeFinished)
Spec == Init /\ [][Next]_vars /\ Fairness

(* ----------------------------------------------------------- properties --- *)
TypeOK ==
    /\ client \in Clients \cup {None} /\ hideId \in 0 .. Len(timers)
    /\ \A i \in DOMAIN timers : timers[i] \in Clients
    /\ DOMAIN osd = 1 .. monitors

(* Labels are some program's that is watched, and a window of the OSD is      *)
(* hidden by something that runs.                                             *)
SomethingHides ==
    /\ labels => client # None /\ watching
    /\ \A i \in DOMAIN osd : osd[i].shown => osd[i].timeout \/ osd[i].fade

(* What was shown over everything goes away: the OSD in time, the labels of a *)
(* program that left the bus as well, whatever it asked for before.           *)
Orphaned(c) == labels /\ client = c /\ c \notin alive
Covered(i) == i \in DOMAIN osd /\ osd[i].shown
=============================================================================
