---------------------------- MODULE Notifications ----------------------------
(***************************************************************************)
(* The notification daemon: NdDaemon (the org.freedesktop.Notifications    *)
(* service), NdQueue with its dock and status icon, one NdStack of         *)
(* GfBubbles per monitor.                                                  *)
(*                                                                         *)
(* One main loop: an action is one callback with every signal it emits,    *)
(* of which "closed" and "destroy" call back into the queue.               *)
(***************************************************************************)
EXTENDS Naturals, Sequences, FiniteSets

CONSTANTS
    Monitors,
    NoMonitor,  \* gdk_display_get_monitor_at_point finds no stack
    Hints,      \* what clients ask for
    MaxNotes    \* bound: notifications made (the serial of the code wraps)

AllHints == [transient : BOOLEAN, resident : BOOLEAN, never : BOOLEAN]

ASSUME HintsAssumption == Hints \subseteq AllHints
ASSUME NoMonitorAssumption == NoMonitor \notin Monitors
ASSUME MaxNotesAssumption == MaxNotes \in Nat

VARIABLES
    nd,       \* NdQueue, its notifications and its stacks
    dock,     \* the dock: visible, and the notifications it has a box for
    icon,     \* status_icon # NULL
    pointer,  \* the monitor under the pointer
    life      \* "running", "disposed", or "crashed"

vars == <<nd, dock, icon, pointer, life>>

(* A notification.  never is an expire_timeout of 0, listed says that the  *)
(* hash table has it, told that NotificationClosed was sent.  fate is      *)
(* history: whether the user has seen it since it was new or, unseen,      *)
(* it was taken off the queue for a dock that did not open.                *)
Notes == [transient : BOOLEAN, resident : BOOLEAN, never : BOOLEAN,
          queued : BOOLEAN, listed : BOOLEAN, told : BOOLEAN,
          fate : {"waiting", "seen", "dropped"}]

(* The oldest notification is first in queue (the code pops the tail).     *)
(* sources counts the idle sources that run update_idle, owned says that   *)
(* update_id is the id of the newest of them.                              *)
Nds == [notes : Seq(Notes), queue : Seq(1 .. MaxNotes),
        stacks : UNION {[S -> SUBSET (1 .. MaxNotes)] : S \in SUBSET Monitors},
        sources : Nat, owned : BOOLEAN]

Ids(s) == DOMAIN s.notes
Listed(s) == {id \in Ids(s) : s.notes[id].listed}
Queued(s) == {s.queue[i] : i \in DOMAIN s.queue}
Bubbles(s) == UNION {s.stacks[m] : m \in DOMAIN s.stacks}

Init ==
    /\ \E S \in (SUBSET Monitors) \ {{}} :
        /\ nd = [notes |-> <<>>, queue |-> <<>>, stacks |-> [m \in S |-> {}],
                 sources |-> 0, owned |-> FALSE]
        /\ pointer \in S
    /\ dock = [visible |-> FALSE, boxes |-> {}]
    /\ icon = FALSE
    /\ life = "running"

-----------------------------------------------------------------------------
(* What the callbacks are composed of *)

(* queue_update: a pending source that update_id knows is replaced         *)
QueueUpdate(s) ==
    IF s.owned THEN s
    ELSE [s EXCEPT !.sources = @ + 1, !.owned = TRUE]

(* The client is told that each of ids is closed.                          *)
Told(s, ids) ==
    [s EXCEPT !.notes =
        [id \in DOMAIN @ |-> [@[id] EXCEPT !.told = @ \/ id \in ids]]]

(* Mutant: a closed notification stays in the queue of bubbles.            *)
QueueRemoveListOnly(s, ids) ==
    [s EXCEPT !.notes =
        [id \in DOMAIN @ |-> [@[id] EXCEPT !.listed = @ /\ id \notin ids]]]

(* _nd_queue_remove.  An id is in the queue once (QueuedOnce).             *)
QueueRemove(s, ids) ==
    [s EXCEPT !.notes = [id \in DOMAIN @ |->
                            [@[id] EXCEPT !.listed = @ /\ id \notin ids]],
              !.queue = SelectSeq(@, LAMBDA id : id \notin ids)]

(* nd_notification_close of notifications whose bubbles do not listen: the *)
(* daemon tells the client, and on_notification_close is connected as long *)
(* as the notification is listed                                           *)
CloseQuietly(s, ids) ==
    LET t == Told(s, ids) IN
    IF ids \cap Listed(s) = {} THEN t
    ELSE QueueUpdate(QueueRemove(t, ids))

(* The user sees ids, as bubbles or in the dock.                           *)
See(s, ids) ==
    [s EXCEPT !.notes =
        [id \in DOMAIN @ |->
            IF id \in ids THEN [@[id] EXCEPT !.fate = "seen"] ELSE @[id]]]

(* gtk_widget_destroy of the bubbles of ids, with gf_bubble_dispose,       *)
(* nd_stack_remove_bubble and on_bubble_destroyed: a transient             *)
(* notification expires with its bubble                                    *)
DestroyBubbles(s, ids) ==
    LET t == [s EXCEPT
                !.stacks = [m \in DOMAIN @ |-> @[m] \ ids],
                !.notes = [id \in DOMAIN @ |->
                    [@[id] EXCEPT !.queued = @ /\ id \notin ids]]]
        expired == {id \in ids : s.notes[id].transient}
    IN IF ids = {} THEN s ELSE QueueUpdate(CloseQuietly(t, expired))

(* nd_notification_close: notification_closed_cb of a bubble destroys it   *)
(* only when a client has closed the notification                          *)
Close(s, id, reason) ==
    LET t == CloseQuietly(s, {id}) IN
    IF reason = "api" THEN DestroyBubbles(t, {id} \cap Bubbles(t)) ELSE t

(* action_invoked_cb                                                       *)
ActionInvoked(s, id) ==
    IF s.notes[id].resident THEN s ELSE Close(s, id, "user")

-----------------------------------------------------------------------------
(* The bus *)

(* nd_queue_add and nd_notification_set_is_queued (TRUE)                   *)
QueueAdd(s, id) ==
    QueueUpdate([s EXCEPT !.queue = Append(@, id), !.notes[id].queued = TRUE,
                          !.notes[id].listed = TRUE])

(* handle_notify_cb with a replaces_id that is 0 or not listed             *)
NotifyNew(h) ==
    /\ life = "running" /\ Len(nd.notes) < MaxNotes
    /\ LET note == [transient |-> h.transient, resident |-> h.resident,
                    never |-> h.never, queued |-> FALSE, listed |-> FALSE,
                    told |-> FALSE, fate |-> "waiting"]
           s == [nd EXCEPT !.notes = Append(@, note)]
       IN nd' = QueueAdd(s, Len(s.notes))
    /\ UNCHANGED <<dock, icon, pointer, life>>

Updated(s, id, h) ==
    [s EXCEPT !.notes[id].transient = h.transient,
              !.notes[id].resident = h.resident,
              !.notes[id].never = h.never]

(* handle_notify_cb with a listed replaces_id: a bubble on display starts  *)
(* its timeout again, and is_queued keeps the notification from being      *)
(* queued twice                                                            *)
NotifyReplace(id, h) ==
    /\ life = "running" /\ id \in Listed(nd)
    /\ LET s == Updated(nd, id, h)
       IN nd' = IF s.notes[id].queued THEN s ELSE QueueAdd(s, id)
    /\ UNCHANGED <<dock, icon, pointer, life>>

(* handle_close_notification_cb; other ids are answered with InvalidId     *)
CloseNotification(id) ==
    /\ life = "running" /\ id \in Listed(nd)
    /\ nd' = Close(nd, id, "api")
    /\ UNCHANGED <<dock, icon, pointer, life>>

-----------------------------------------------------------------------------
(* Bubbles *)

(* timeout_bubble                                                          *)
BubbleTimeout(id) ==
    /\ life = "running" /\ id \in Bubbles(nd) /\ ~nd.notes[id].never
    /\ nd' = DestroyBubbles(nd, {id})
    /\ UNCHANGED <<dock, icon, pointer, life>>

(* close_button_clicked_cb                                                 *)
BubbleClose(id) ==
    /\ life = "running" /\ id \in Bubbles(nd)
    /\ nd' = DestroyBubbles(Close(nd, id, "user"), {id})
    /\ UNCHANGED <<dock, icon, pointer, life>>

(* gf_bubble_button_release_event                                          *)
BubbleClick(id) ==
    /\ life = "running" /\ id \in Bubbles(nd)
    /\ nd' = DestroyBubbles(ActionInvoked(nd, id), {id})
    /\ UNCHANGED <<dock, icon, pointer, life>>

(* button_release_event_cb of a button of an action                        *)
BubbleAction(id) ==
    /\ life = "running" /\ id \in Bubbles(nd)
    /\ nd' = LET s == ActionInvoked(nd, id)
                 n == nd.notes[id]
             IN IF n.transient \/ ~n.resident THEN DestroyBubbles(s, {id})
                ELSE s
    /\ UNCHANGED <<dock, icon, pointer, life>>

-----------------------------------------------------------------------------
(* The dock and the idle source *)

Hidden == [dock EXCEPT !.visible = FALSE]

(* clear_stacks, then g_queue_clear: is_queued stays as it was             *)
ClearBubbles(s) == [DestroyBubbles(s, Bubbles(s)) EXCEPT !.queue = <<>>]

(* show_dock, from on_status_icon_activate or on_status_icon_popup_menu,   *)
(* which the grab of a visible dock keeps from happening                   *)
ShowDock ==
    /\ life = "running" /\ icon /\ ~dock.visible
    /\ LET s == ClearBubbles(nd)
       IN /\ dock' = [visible |-> TRUE, boxes |-> Listed(s)]
          /\ nd' = See(s, Listed(s))
    /\ UNCHANGED <<icon, pointer, life>>

(* show_dock when the icon has no geometry or the seat cannot be grabbed:  *)
(* what was queued has no bubble any more                                  *)
ShowDockFails ==
    /\ life = "running" /\ icon /\ ~dock.visible
    /\ LET s == ClearBubbles(nd)
           unseen == {id \in Queued(nd) : nd.notes[id].fate = "waiting"}
       IN nd' = [s EXCEPT !.notes = [id \in DOMAIN @ |->
                    IF id \in unseen THEN [@[id] EXCEPT !.fate = "dropped"]
                    ELSE @[id]]]
    /\ dock' = [visible |-> FALSE, boxes |-> Listed(nd')]
    /\ UNCHANGED <<icon, pointer, life>>

(* on_dock_button_press outside of the dock: release_grab                  *)
DockClickOutside ==
    /\ life = "running" /\ dock.visible
    /\ dock' = Hidden
    /\ UNCHANGED <<nd, icon, pointer, life>>

(* popdown_dock, from on_dock_key_release or grab_notify                   *)
PopdownDock ==
    /\ life = "running" /\ dock.visible
    /\ dock' = Hidden
    /\ nd' = QueueUpdate(nd)
    /\ UNCHANGED <<icon, pointer, life>>

(* on_close_button_clicked of a box, which may be closed already           *)
BoxClose(id) ==
    /\ life = "running" /\ dock.visible /\ id \in dock.boxes
    /\ nd' = Close(nd, id, "user")
    /\ UNCHANGED <<dock, icon, pointer, life>>

(* on_action_clicked and nd_notification_box_button_release_event          *)
BoxAction(id) ==
    /\ life = "running" /\ dock.visible /\ id \in dock.boxes
    /\ nd' = ActionInvoked(nd, id)
    /\ UNCHANGED <<dock, icon, pointer, life>>

(* on_clear_all_clicked: _nd_queue_remove_all                              *)
ClearAll ==
    /\ life = "running" /\ dock.visible
    /\ LET s == ClearBubbles(nd)
       IN nd' = QueueUpdate(QueueRemove(Told(s, Listed(s)), Listed(s)))
    /\ dock' = Hidden
    /\ UNCHANGED <<icon, pointer, life>>

(* maybe_show_notification gets as far as g_queue_pop_tail                 *)
MayShow(s) ==
    /\ ~dock.visible
    /\ pointer \in DOMAIN s.stacks /\ s.stacks[pointer] = {}
    /\ s.queue # <<>>

(* The end of maybe_show_notification, which asserts that the queue knows  *)
(* the notification                                                        *)
ShowNext(s) ==
    LET id == Head(s.queue) IN
    See([s EXCEPT !.queue = Tail(@), !.stacks[pointer] = @ \cup {id}], {id})

(* The source that runs is the oldest one.  Afterwards update_id is 0,     *)
(* whether or not another source is pending.                               *)
Dispatched(s) == [s EXCEPT !.sources = @ - 1, !.owned = @ /\ s.sources > 1]
Forgotten(s) == [s EXCEPT !.owned = FALSE]

(* update_idle with notifications on the list                              *)
UpdateListed(s) ==
    /\ Listed(s) # {}
    /\ icon' = TRUE
    /\ dock' = IF dock.visible THEN [dock EXCEPT !.boxes = Listed(s)]
               ELSE dock
    /\ nd' = Forgotten(IF MayShow(s) THEN ShowNext(s)
                       ELSE IF dock.visible THEN See(s, Listed(s)) ELSE s)
    /\ life' = IF MayShow(s) /\ Head(s.queue) \notin Listed(s)
               THEN "crashed" ELSE life

(* update_idle with an empty list                                          *)
UpdateEmpty(s) ==
    /\ Listed(s) = {}
    /\ icon' = FALSE
    /\ dock' = Hidden
    /\ nd' = Forgotten(IF dock.visible THEN QueueUpdate(s) ELSE s)
    /\ UNCHANGED life

(* update_idle *)
UpdateIdle ==
    /\ life = "running" /\ nd.sources > 0
    /\ UpdateListed(Dispatched(nd)) \/ UpdateEmpty(Dispatched(nd))
    /\ UNCHANGED pointer

-----------------------------------------------------------------------------
(* Monitors *)

(* monitor_added_cb                                                        *)
MonitorAdded(m) ==
    /\ life = "running" /\ m \notin DOMAIN nd.stacks
    /\ nd' = [nd EXCEPT !.stacks = [k \in DOMAIN @ \cup {m} |->
                                        IF k = m THEN {} ELSE @[k]]]
    /\ pointer' = IF pointer = NoMonitor THEN m ELSE pointer
    /\ UNCHANGED <<dock, icon, life>>

(* monitor_removed_cb: the bubbles of the stack are added to the one with  *)
(* the pointer, but they are still in the list of the old stack, and       *)
(* nd_stack_finalize destroys every bubble of that list                    *)
MonitorRemoved(m, focus) ==
    /\ life = "running" /\ m \in DOMAIN nd.stacks
    /\ LET left == DOMAIN nd.stacks \ {m}
           moved == [k \in left |-> IF k = focus
                                    THEN nd.stacks[k] \cup nd.stacks[m]
                                    ELSE nd.stacks[k]]
       IN /\ focus \in (IF left = {} THEN {NoMonitor} ELSE left)
          /\ pointer # m => focus = pointer
          /\ nd' = QueueUpdate(DestroyBubbles([nd EXCEPT !.stacks = moved],
                                              nd.stacks[m]))
    /\ pointer' = focus
    /\ UNCHANGED <<dock, icon, life>>

PointerMoves(m) ==
    /\ life = "running" /\ m \in DOMAIN nd.stacks \ {pointer}
    /\ pointer' = m
    /\ UNCHANGED <<nd, dock, icon, life>>

(* nd_daemon_dispose and nd_queue_finalize, when the user switches the     *)
(* component off.  A source that update_id has forgotten runs on the freed *)
(* queue; so does on_notification_close for the bubble of a transient      *)
(* notification, which is destroyed with its stack.                        *)
Dispose ==
    /\ life = "running"
    /\ life' \in IF \/ nd.sources > (IF nd.owned THEN 1 ELSE 0)
                    \/ \E id \in Bubbles(nd) : nd.notes[id].transient
                 THEN {"disposed", "crashed"} ELSE {"disposed"}
    /\ UNCHANGED <<nd, dock, icon, pointer>>

-----------------------------------------------------------------------------
Bus ==
    \/ \E h \in Hints : NotifyNew(h)
    \/ \E id \in 1 .. MaxNotes, h \in Hints : NotifyReplace(id, h)
    \/ \E id \in 1 .. MaxNotes : CloseNotification(id)

User ==
    \/ \E id \in 1 .. MaxNotes : \/ BubbleClose(id)
                                 \/ BubbleClick(id)
                                 \/ BubbleAction(id)
                                 \/ BoxClose(id)
                                 \/ BoxAction(id)
    \/ ShowDock \/ ShowDockFails
    \/ DockClickOutside \/ PopdownDock \/ ClearAll
    \/ \E m \in Monitors : PointerMoves(m)
    \/ Dispose

Display ==
    \E m \in Monitors :
        \/ MonitorAdded(m)
        \/ \E focus \in Monitors \cup {NoMonitor} : MonitorRemoved(m, focus)

Next ==
    \/ Bus \/ User \/ Display
    \/ UpdateIdle
    \/ \E id \in 1 .. MaxNotes : BubbleTimeout(id)

(* The main loop dispatches idle sources and timers.  Clients, the user    *)
(* and the monitors promise nothing.                                       *)
Fairness ==
    /\ WF_vars(UpdateIdle)
    /\ \A id \in 1 .. MaxNotes : WF_vars(BubbleTimeout(id))

Spec == Init /\ [][Next]_vars /\ Fairness

-----------------------------------------------------------------------------
(* Properties *)

TypeOK ==
    /\ nd \in Nds
    /\ Len(nd.notes) <= MaxNotes
    /\ Bubbles(nd) \cup Queued(nd) \cup dock.boxes \subseteq Ids(nd)
    /\ dock.visible \in BOOLEAN
    /\ icon \in BOOLEAN
    /\ pointer \in DOMAIN nd.stacks \cup {NoMonitor}
    /\ life \in {"running", "disposed", "crashed"}

(* "g_assert (notification != NULL)" (nd-queue.c:581): a notification that *)
(* is closed, by whoever, leaves the queue of those waiting for a bubble.  *)
NotificationKnown == Queued(nd) \subseteq Listed(nd)

(* is_queued keeps a notification from waiting twice, or waiting while it  *)
(* is on display, however often its client replaces it.                    *)
QueuedOnce ==
    /\ \A i, j \in DOMAIN nd.queue : nd.queue[i] = nd.queue[j] => i = j
    /\ Queued(nd) \cap Bubbles(nd) = {}
    /\ \A id \in Queued(nd) \cup Bubbles(nd) : nd.notes[id].queued

(* No bubble outlives its notification ("FIXME: withdraw currently showing *)
(* bubbles", nd-queue.c:917): who closes one destroys its bubble, by one   *)
(* of five ways.                                                           *)
BubblesAreListed == life = "running" => Bubbles(nd) \subseteq Listed(nd)

(* A client is told that its notification is closed if and only if the     *)
(* daemon has forgotten it, whichever of its ends it came to.              *)
ClientsKnow == \A id \in Ids(nd) : nd.notes[id].told <=> id \notin Listed(nd)

(* Every change of the list is followed by an update: when no source is    *)
(* pending, the icon is there for a list that is not empty and the dock    *)
(* shows the list.                                                         *)
UpToDate ==
    life = "running" /\ nd.sources = 0 =>
        /\ icon <=> Listed(nd) # {}
        /\ dock.visible => dock.boxes = Listed(nd) /\ Listed(nd) # {}

Waiting(id) == id \in Listed(nd) /\ nd.notes[id].fate = "waiting"

(* While there is a monitor, a new notification is shown, as a bubble or   *)
(* in the dock, unless it is closed or dropped for a dock that does not    *)
(* open; only a bubble that never expires can hold it up.                  *)
EveryNoteIsSeen ==
    [](pointer # NoMonitor) =>
        \A id \in 1 .. MaxNotes :
            (id \in Ids(nd) /\ Waiting(id)) ~>
                \/ ~Waiting(id)
                \/ \E b \in Bubbles(nd) : nd.notes[b].never
                \/ life # "running"

(* "transfer items before removing stack" (nd-queue.c:117): the bubbles of *)
(* a monitor that goes are on display where the pointer is.                *)
BubblesMove ==
    [][ \A m \in DOMAIN nd.stacks \ DOMAIN nd'.stacks :
            pointer' # NoMonitor => nd.stacks[m] \subseteq Bubbles(nd') ]_vars

(* nd-queue.c, nd-daemon.c: the list, the queue, the bubbles, the dock and *)
(* what the clients were told agree, and every notification is seen.       *)
NotificationsAgree ==
    /\ [](TypeOK /\ NotificationKnown /\ QueuedOnce /\ BubblesAreListed /\ ClientsKnow /\ UpToDate)
    /\ EveryNoteIsSeen
=============================================================================
