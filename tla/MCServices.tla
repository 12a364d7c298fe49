----------------------------- MODULE MCServices -----------------------------
(* The services of the session that wait, with timers and with programs that  *)
(* come and go: notifications, labels and OSD, pictures, the end of the       *)
(* session. They share no state; "part" names the one that runs, x1 to x10    *)
(* are its variables; those of Notifications stay as they begin in the others.*)
EXTENDS Notifications

CONSTANTS m1, m2, None, a1, a2, logout, shutdown, i1
VARIABLES part, x1, x2, x3, x4, x5, x6, x7, x8, x9, x10

(* The hints of an ordinary notification, of one that stays on display until  *)
(* it is closed and is resident, and of one that is transient and resident.   *)
HintsOf(transient, resident, never) == [transient |-> transient, resident |-> resident, never |-> never]
MCHints == {HintsOf(FALSE, FALSE, FALSE), HintsOf(FALSE, TRUE, TRUE), HintsOf(TRUE, TRUE, FALSE)}

rest == <<x1, x2, x3, x4, x5, x6, x7, x8, x9, x10>>
all == <<part, vars, rest>>

Popups == INSTANCE ShellPopups WITH
    Clients <- {a1, a2}, MaxMonitors <- 2, MaxCalls <- 4,
    alive <- x1, client <- x2, watching <- x3, labels <- x4, timers <- x5, hideId <- x6, monitors <- x7, osd <- x8,
    calls <- x9

Pictures == INSTANCE Screenshot WITH
    Clients <- {a1, a2}, Width <- 1, MaxCalls <- 3, MaxFiles <- 1,
    alive <- x1, senders <- x2, flash <- x3, disk <- x4, selections <- x5, grab <- x6, pointer <- x7,
    pressed <- x8, area <- x9, calls <- x10

Ending == INSTANCE EndSession WITH
    Types <- {logout, shutdown}, Inhibitors <- {i1}, MaxSeconds <- 1, MaxDialogs <- 2, MaxOpens <- 3,
    dialogs <- x1, dialog <- x2, opens <- x3, heard <- x4

-----------------------------------------------------------------------------
From10 == x10 = 0
From5 == x5 = 0 /\ x6 = 0 /\ x7 = 0 /\ x8 = 0 /\ x9 = 0 /\ From10

In(name, A) == part = name /\ A /\ UNCHANGED <<part, vars>>
InNotifications(A) == part = "notifications" /\ A /\ UNCHANGED <<part, rest>>
InPopups(A) == In("popups", A) /\ UNCHANGED x10
InPictures(A) == In("pictures", A)
InEnding(A) == In("ending", A) /\ UNCHANGED <<x5, x6, x7, x8, x9, x10>>

NotificationsInit ==
    part = "notifications" /\ Init /\ x1 = 0 /\ x2 = 0 /\ x3 = 0 /\ x4 = 0 /\ From5
AllInit ==
    \/ NotificationsInit
    \/ /\ Init /\ DOMAIN nd.stacks = {m1}
       /\ \/ part = "popups" /\ Popups!Init /\ From10
          \/ part = "pictures" /\ Pictures!Init
          \/ part = "ending" /\ Ending!Init /\ From5
AllNext ==
    \/ InNotifications(Next) \/ InPopups(Popups!Next) \/ InPictures(Pictures!Next) \/ InEnding(Ending!Next)

(* The fairness of each part, as its module states it.                        *)
AllFairness ==
    /\ WF_all(InNotifications(UpdateIdle))
    /\ \A n \in 1 .. MaxNotes : WF_all(InNotifications(BubbleTimeout(n)))
    /\ WF_all(InPopups(Popups!NameVanished)) /\ WF_all(InPopups(Popups!HideTimeout))
    /\ WF_all(InPopups(Popups!HideOsdTimeout)) /\ WF_all(InPopups(Popups!FadeFinished))
    /\ WF_all(InPictures(Pictures!StartFade)) /\ WF_all(InPictures(Pictures!Fade))
    /\ WF_all(InEnding(Ending!Tick)) /\ WF_all(InEnding(Ending!Answer))
    /\ \A d \in 1..2 : WF_all(InEnding(x1[d].state = "closing" /\ Ending!Delete(d)))

AllSpec == AllInit /\ [][AllNext]_all /\ AllFairness
NotificationsSpec == NotificationsInit /\ [][InNotifications(Next)]_all /\ WF_all(InNotifications(UpdateIdle))

-----------------------------------------------------------------------------
(* The properties of the parts, each stated and explained in its module;      *)
(* NotificationsAgree is in Notifications.                                    *)

(* flashback-monitor-labeler.c, gf-osd-window.c: labels and OSD go away.      *)
NothingStays ==
    /\ [](part = "popups" => Popups!TypeOK /\ Popups!SomethingHides)
    /\ (part = "popups" /\ Popups!Orphaned(a1)) ~> (part = "popups" /\ ~x4)
    /\ \A i \in 1..2 : (part = "popups" /\ Popups!Covered(i)) ~> (part = "popups" /\ ~Popups!Covered(i))

(* gf-screenshot.c, gf-select-area.c, gf-flashspot.c: a call leaves nothing   *)
(* behind, no program is locked out for good and no picture is replaced but   *)
(* by a call that names it by its absolute path.                              *)
CallsCleanUp ==
    /\ [](part = "pictures" => Pictures!TypeOK /\ Pictures!CallsCleanUp)
    /\ [][part = "pictures" => Pictures!SavedAsNew]_all
    /\ (part = "pictures" /\ a1 \in x2) ~> (part = "pictures" /\ a1 \notin x2)

(* gf-inhibit-dialog.c: the clock runs exactly when nobody inhibits, and then *)
(* the dialog ends, unless asking for an inhibitor failed.                    *)
CountsWhenFree ==
    /\ [](part = "ending" => Ending!TypeOK /\ Ending!CountsWhenFree)
    /\ \A d \in 1..2 : (part = "ending" /\ Ending!Free(d)) ~> (part = "ending" /\ Ending!GoneOrListed(d))
=============================================================================
