----------------------------- MODULE Automount ------------------------------
(* The automount manager and autorun.  A volume that appears is mounted, or,  *)
(* while the screen is locked, queued until it is not; the manager follows    *)
(* the screensaver over D-Bus.  A volume is marked while a mount of it may    *)
(* start an application; the mark ends 10 seconds after the mount call did.   *)
(* Autorun guesses the content type and may ask the user in a dialog.         *)
EXTENDS Integers, Sequences, FiniteSets, SequencesExt

CONSTANTS
    Volumes,
    MaxAdds, MaxChanges, MaxRestarts  \* bounds: volumes added, changes of the lock, times the screensaver starts

VARIABLES
    saver,      \* the screensaver: runs, active, and the events it and the bus sent, in order
    active,     \* screensaver_active
    proxy,      \* ss_proxy, a number, 0 for none
    proxies,    \* how many were made, how many are being made, which still exist
    calls,      \* GetActive calls that were not handled, by proxy, in order
    sessionActive,
    queue,      \* volume_queue
    idle,       \* automount_idle_id
    vol,        \* each volume: there, mounted, running mounts, gsd-allow-autorun, timers
    guess,      \* mounts whose content type is being guessed
    dialogs,    \* autorun dialogs: volume, what the chooser shows, remember, ignore, open, app
    prefs,      \* of the content type: start, ignore, open
    last,       \* history: what the last confirmed dialog showed and did
    count       \* history: volumes added, changes of the lock, starts of the screensaver

bus == <<saver, proxy, proxies, calls>>
autorun == <<guess, dialogs, prefs, last>>
vars == <<bus, active, sessionActive, queue, idle, vol, autorun, count>>

(* --------------------------------------------------------- screensaver ---- *)
Send(e) == saver' = [saver EXCEPT !.events = Append(@, e)]
Is(type) == saver.events # <<>> /\ saver.events[1].type = type
Handled == saver' = [saver EXCEPT !.events = Tail(@)]

Appeared ==
    /\ Is("appeared") /\ Handled
    /\ active' = FALSE
    /\ proxies' = [proxies EXCEPT !.making = @ + 1]
    /\ UNCHANGED <<proxy, calls, sessionActive, queue, idle, vol, autorun, count>>

Failed(p) == [type |-> "reply", by |-> p, ok |-> FALSE, active |-> FALSE]
(* screensaver_proxy_ready_cb; an older proxy is overwritten and stays.  The  *)
(* call reaches the bus at once: if nobody owns the name it fails.            *)
ProxyReady ==
    LET p == proxies.made + 1
    IN  /\ proxies.making > 0
        /\ proxy' = p
        /\ proxies' = [made |-> p, making |-> proxies.making - 1, live |-> proxies.live \cup {p}]
        /\ IF saver.runs THEN calls' = Append(calls, p) /\ saver' = saver
           ELSE calls' = calls /\ Send(Failed(p))
        /\ UNCHANGED <<active, sessionActive, queue, idle, vol, autorun, count>>

(* A proxy with a call that was not answered exists until it is.              *)
Called(p) == p \in Range(calls) \/ \E i \in DOMAIN saver.events : saver.events[i].type = "reply" /\ saver.events[i].by = p

(* What was known of the lock is kept.                                        *)
VanishedKeeping ==
    /\ Is("vanished") /\ Handled
    /\ proxy' = 0 /\ queue' = <<>> /\ active' = active
    /\ proxies' = [proxies EXCEPT !.live = IF Called(proxy) THEN @ ELSE @ \ {proxy}]
    /\ UNCHANGED <<calls, sessionActive, idle, vol, autorun, count>>
(* screensaver_vanished_callback: the queue is cleared without mounting.      *)
Vanished ==
    /\ Is("vanished") /\ Handled
    /\ active' = FALSE
    /\ proxy' = 0
    /\ proxies' = [proxies EXCEPT !.live = IF Called(proxy) THEN @ ELSE @ \ {proxy}]
    /\ queue' = <<>>
    /\ UNCHANGED <<calls, sessionActive, idle, vol, autorun, count>>

(* screensaver_get_active_ready_cb finishes the call of ss_proxy, whichever   *)
(* proxy made it: the answer to another is not taken.                         *)
GetActiveReady ==
    /\ Is("reply") /\ Handled
    /\ LET e == saver.events[1]
       IN  /\ active' = IF e.by = proxy /\ e.ok THEN e.active ELSE active
           /\ proxies' = [proxies EXCEPT !.live = IF e.by = proxy \/ e.by < proxy THEN @ ELSE @ \ {e.by}]
    /\ UNCHANGED <<proxy, calls, sessionActive, queue, idle, vol, autorun, count>>

(* do_mount_volume                                                            *)
DoMount(v) == [v EXCEPT !.mounting = @ + 1, !.mark = TRUE]

(* screensaver_signal_callback and check_volume_queue                         *)
ScreensaverSignal ==
    /\ Is("changed") /\ Handled
    /\ active' = IF proxies.live # {} THEN saver.events[1].active ELSE active
    /\ IF proxies.live = {} \/ active' THEN UNCHANGED <<vol, queue>>
       ELSE /\ vol' = [v \in Volumes |-> IF v \in Range(queue) THEN DoMount(vol[v]) ELSE vol[v]]
            /\ queue' = <<>>
    /\ UNCHANGED <<proxy, proxies, calls, sessionActive, idle, autorun, count>>

(* The screensaver answers in order.                                          *)
Answers ==
    /\ calls # <<>> /\ calls' = Tail(calls)
    /\ Send([type |-> "reply", by |-> calls[1], ok |-> TRUE, active |-> saver.active])
    /\ UNCHANGED <<active, proxy, proxies, sessionActive, queue, idle, vol, autorun, count>>

Locks ==
    /\ saver.runs /\ count.changes < MaxChanges
    /\ count' = [count EXCEPT !.changes = @ + 1]
    /\ saver' = [saver EXCEPT !.active = ~@, !.events = Append(@, [type |-> "changed", active |-> ~saver.active])]
    /\ UNCHANGED <<active, proxy, proxies, calls, sessionActive, queue, idle, vol, autorun>>

Starts ==
    /\ ~saver.runs /\ count.starts < MaxRestarts
    /\ count' = [count EXCEPT !.starts = @ + 1]
    /\ \E locked \in BOOLEAN :
          saver' = [runs |-> TRUE, active |-> locked, events |-> Append(saver.events, [type |-> "appeared"])]
    /\ UNCHANGED <<active, proxy, proxies, calls, sessionActive, queue, idle, vol, autorun>>

(* Calls it did not answer fail after its name is gone.                       *)
Stops ==
    /\ saver.runs
    /\ calls' = <<>>
    /\ saver' = [runs |-> FALSE, active |-> FALSE,
                 events |-> Append(saver.events, [type |-> "vanished"]) \o [i \in DOMAIN calls |-> Failed(calls[i])]]
    /\ UNCHANGED <<active, proxy, proxies, sessionActive, queue, idle, vol, autorun, count>>

(* ------------------------------------------------------------- volumes ---- *)
(* session_props_changed: an inactive session forgets what it queued.         *)
SessionChanges ==
    /\ count.changes < MaxChanges /\ count' = [count EXCEPT !.changes = @ + 1]
    /\ sessionActive' = ~sessionActive
    /\ queue' = IF sessionActive' THEN queue ELSE <<>>
    /\ UNCHANGED <<bus, active, idle, vol, autorun>>

(* automount_all_volumes_idle_cb: whatever the session and the lock are.      *)
AutomountAll ==
    /\ idle /\ idle' = FALSE
    /\ \E automounted \in SUBSET {v \in Volumes : vol[v].there /\ ~vol[v].mounted} :
          vol' = [v \in Volumes |-> IF v \in automounted THEN [vol[v] EXCEPT !.startup = TRUE] ELSE vol[v]]
    /\ UNCHANGED <<bus, active, sessionActive, queue, autorun, count>>

NoVolume == [there |-> FALSE, mounted |-> FALSE, mounting |-> 0, startup |-> FALSE, mark |-> FALSE, timers |-> 0]

(* gsd_allow_autorun_for_volume and gsd_allow_autorun_for_volume_finish       *)
Allow(v) == [v EXCEPT !.mark = TRUE, !.timers = @ + 1]

(* volume_added_callback and check_screen_lock_and_mount; automount: the      *)
(* setting, and whether the volume should and can be mounted.                 *)
VolumeAdded ==
    /\ count.adds < MaxAdds /\ count' = [count EXCEPT !.adds = @ + 1]
    /\ \E v \in {u \in Volumes : vol[u] = NoVolume /\ \A d \in dialogs : d.volume # u}, automount \in BOOLEAN :
          LET new == [NoVolume EXCEPT !.there = TRUE]
              waits == automount /\ sessionActive /\ active
          IN  /\ vol' = [vol EXCEPT ![v] = IF ~automount THEN Allow(new)
                                           ELSE IF sessionActive /\ ~active THEN DoMount(new) ELSE new]
              /\ queue' = IF waits THEN <<v>> \o queue ELSE queue
    /\ UNCHANGED <<bus, active, sessionActive, idle, autorun>>

(* volume_removed_callback; a mount of it goes as well.                       *)
VolumeRemoved ==
    \E v \in {u \in Volumes : vol[u].there} :
        /\ vol' = [vol EXCEPT ![v].there = FALSE, ![v].mounted = FALSE]
        /\ IF v \notin Range(queue) THEN queue' = queue
           ELSE \E i \in DOMAIN queue :
                   queue[i] = v /\ v \notin Range(SubSeq(queue, 1, i - 1)) /\ queue' = RemoveAt(queue, i)
        /\ dialogs' = IF vol[v].mounted THEN {d \in dialogs : d.volume # v} ELSE dialogs
        /\ UNCHANGED <<bus, active, sessionActive, idle, guess, prefs, last, count>>

(* should_autorun_mount takes the mark, also when the volume is not local.    *)
AutorunMount ==
    \E v \in {u \in Volumes : vol[u].there /\ ~vol[u].mounted} :
        /\ vol' = [vol EXCEPT ![v].mounted = TRUE, ![v].mark = IF sessionActive THEN FALSE ELSE @]
        /\ \E allowed \in BOOLEAN :
              guess' = IF sessionActive /\ vol[v].mark /\ allowed THEN guess \cup {v} ELSE guess
        /\ UNCHANGED <<bus, active, sessionActive, queue, idle, dialogs, prefs, last, count>>

(* volume_mount_cb and gsd_allow_autorun_for_volume_finish                    *)
VolumeMounted ==
    /\ \E v \in Volumes :
          /\ vol[v].mounting > 0
          /\ vol' = [vol EXCEPT ![v].mounting = @ - 1, ![v].timers = IF vol[v].mark THEN @ + 1 ELSE @]
    /\ UNCHANGED <<bus, active, sessionActive, queue, idle, autorun, count>>

StartupMounted ==
    /\ \E v \in Volumes : vol[v].startup /\ vol' = [vol EXCEPT ![v].startup = FALSE]
    /\ UNCHANGED <<bus, active, sessionActive, queue, idle, autorun, count>>

(* remove_allow_volume                                                        *)
MarkEnds ==
    /\ \E v \in Volumes : vol[v].timers > 0 /\ vol' = [vol EXCEPT ![v].timers = @ - 1, ![v].mark = FALSE]
    /\ UNCHANGED <<bus, active, sessionActive, queue, idle, autorun, count>>

(* autorun_dialog_mount_unmounted                                             *)
Unmounted ==
    /\ \E v \in {u \in Volumes : vol[u].mounted} :
          /\ vol' = [vol EXCEPT ![v].mounted = FALSE]
          /\ dialogs' = {d \in dialogs : d.volume # v}
    /\ UNCHANGED <<bus, active, sessionActive, queue, idle, guess, prefs, last, count>>

(* ------------------------------------------------------------- autorun ---- *)
(* prepare_combo_box: what the chooser shows at first                         *)
Shown == IF prefs.ignore THEN "ignore" ELSE IF prefs.open THEN "open" ELSE IF prefs.start THEN "app" ELSE "ask"

(* gsd_autorun_set_preferences                                                *)
Prefer(start, ignore, open) == prefs' = [start |-> start, ignore |-> ignore, open |-> open]

(* do_autorun_for_content_type asks if nothing is preferred, or if Shift is   *)
(* held.                                                                      *)
DialogFor(v, shift) ==
    IF shift \/ Shown = "ask"
    THEN {[volume |-> v, shown |-> Shown, remember |-> Shown # "ask", ignore |-> prefs.ignore, open |-> FALSE]}
    ELSE {}

Guessed ==
    /\ \E v \in guess, shift \in BOOLEAN : guess' = guess \ {v} /\ dialogs' = dialogs \cup DialogFor(v, shift)
    /\ UNCHANGED <<bus, active, sessionActive, queue, idle, vol, prefs, last, count>>

(* custom_item_activated_cb and combo_box_changed_cb: a custom item is        *)
(* preferred at once; an application does not undo it.                        *)
Chooses ==
    /\ \E d \in dialogs, shown \in {"ask", "ignore", "open", "app"} :
          /\ shown # d.shown
          /\ dialogs' = (dialogs \ {d}) \cup {[d EXCEPT
                !.shown = shown,
                !.ignore = IF shown = "app" THEN @ ELSE shown = "ignore",
                !.open = IF shown = "app" THEN @ ELSE shown = "open"]}
          /\ IF shown = "app" THEN prefs' = prefs ELSE Prefer(FALSE, shown = "ignore", shown = "open")
    /\ UNCHANGED <<bus, active, sessionActive, queue, idle, vol, guess, last, count>>

Remembers ==
    /\ \E d \in dialogs : dialogs' = (dialogs \ {d}) \cup {[d EXCEPT !.remember = ~@]}
    /\ UNCHANGED <<bus, active, sessionActive, queue, idle, vol, guess, prefs, last, count>>

(* autorun_dialog_response                                                    *)
Confirms ==
    /\ \E d \in dialogs :
          /\ dialogs' = dialogs \ {d}
          /\ Prefer(d.remember, d.remember /\ d.ignore, d.remember /\ d.open)
          /\ last' = [shown |-> d.shown, did |-> IF d.ignore THEN "ignore" ELSE IF d.open THEN "open" ELSE "app"]
    /\ UNCHANGED <<bus, active, sessionActive, queue, idle, vol, guess, count>>

Cancels ==
    /\ \E d \in dialogs : dialogs' = dialogs \ {d}
    /\ UNCHANGED <<bus, active, sessionActive, queue, idle, vol, guess, prefs, last, count>>

Init ==
    /\ saver = [runs |-> FALSE, active |-> FALSE, events |-> <<>>]
    /\ active = FALSE /\ proxy = 0 /\ proxies = [made |-> 0, making |-> 0, live |-> {}] /\ calls = <<>>
    /\ sessionActive \in BOOLEAN /\ queue = <<>> /\ idle = TRUE
    /\ vol = [v \in Volumes |-> NoVolume] /\ guess = {} /\ dialogs = {}
    /\ prefs = [start |-> FALSE, ignore |-> FALSE, open |-> FALSE]
    /\ last = [shown |-> "ask", did |-> "app"] /\ count = [adds |-> 0, changes |-> 0, starts |-> 0]

Next ==
    \/ Appeared \/ ProxyReady \/ Vanished \/ GetActiveReady \/ ScreensaverSignal
    \/ Answers \/ Locks \/ Starts \/ Stops
    \/ SessionChanges \/ AutomountAll \/ VolumeAdded \/ VolumeRemoved
    \/ AutorunMount \/ VolumeMounted \/ StartupMounted \/ MarkEnds \/ Unmounted
    \/ Guessed \/ Chooses \/ Remembers \/ Confirms \/ Cancels
Spec == Init /\ [][Next]_vars

(* ----------------------------------------------------------- properties --- *)
TypeOK ==
    /\ active \in BOOLEAN /\ proxy \in 0 .. proxies.made /\ sessionActive \in BOOLEAN
    /\ queue \in Seq(Volumes) /\ guess \subseteq Volumes
    /\ \A v \in Volumes : vol[v].mounting \in Nat /\ vol[v].timers \in Nat

(* What waits in the queue is there, once, and waits for the end of a lock    *)
(* the manager knows of: nothing waits that no event would take out.  (After  *)
(* a second proxy was made GetActiveReady may end the lock and not look.)     *)
QueueWaitsForLock ==
    queue # <<>> => /\ sessionActive
                    /\ active \/ proxies.made > 1
                    /\ IsInjective(queue)
                    /\ \A v \in Range(queue) : vol[v].there /\ ~vol[v].mark

(* When the screensaver and the bus have nothing more to say, the manager     *)
(* knows whether the screen is locked, however the screensaver was restarted. *)
KnowsTheLock ==
    saver.events = <<>> /\ calls = <<>> /\ proxies.making = 0 => active = saver.active

(* A volume may start an application only during a mount the manager made, or *)
(* 10 seconds after.                                                          *)
MarkIsTemporary == \A v \in Volumes : vol[v].mark => vol[v].mounting > 0 \/ vol[v].timers > 0

(* What sets screensaver_active when its turn comes, and to what; what it is  *)
(* set to just before event i.                                                *)
Answer(i) == saver.events[i].type = "reply" /\ saver.events[i].ok /\ saver.events[i].by = proxy
Sets(i) == saver.events[i].type # "reply" \/ Answer(i)
Value(i) == saver.events[i].type \in {"changed", "reply"} /\ saver.events[i].active
Before(i, value) ==
    \/ active = value /\ \A j \in 1 .. (i - 1) : ~Sets(j)
    \/ \E k \in 1 .. (i - 1) : Sets(k) /\ Value(k) = value /\ \A j \in (k + 1) .. (i - 1) : ~Sets(j)

(* Calls fail while the screensaver is gone, and nothing else is sent.        *)
Gone(i) ==
    \/ ~active /\ \A j \in 1 .. (i - 1) : saver.events[j].type = "reply" /\ ~saver.events[j].ok
    \/ \E k \in 1 .. (i - 1) :
          /\ saver.events[k].type = "vanished"
          /\ \A j \in (k + 1) .. (i - 1) : saver.events[j].type = "reply" /\ ~saver.events[j].ok
InOrder(i) ==
    /\ saver.events[i].type = "appeared" => Gone(i)
    /\ saver.events[i].type = "vanished" /\ saver.runs =>
          \E j \in DOMAIN saver.events : j > i /\ saver.events[j].type = "appeared"
EventsInOrder ==
    /\ ~saver.runs => Gone(Len(saver.events) + 1) /\ calls = <<>> /\ ~saver.active
    /\ \A i \in DOMAIN saver.events : InOrder(i)

(* A screensaver that runs will be asked, was asked and has not answered, or  *)
(* the last that it sent is what it is.                                       *)
LockIsComing ==
    saver.runs =>
        \/ proxies.making > 0
        \/ \E i \in DOMAIN saver.events : saver.events[i].type = "appeared"
        \/ /\ proxy # 0 /\ \A i \in DOMAIN saver.events : saver.events[i].type # "vanished"
           /\ proxy \in Range(calls) \/ Before(Len(saver.events) + 1, saver.active)

(* The answer to the first proxy never ends a lock: a signal does.            *)
FirstAnswer ==
    /\ proxies.made = 0 => ~active /\ (saver.runs /\ ~saver.active => Before(Len(saver.events) + 1, FALSE))
    /\ proxies.made <= 1 /\ proxy # 0 =>
          /\ \A i \in DOMAIN saver.events : Answer(i) /\ ~saver.events[i].active => Before(i, FALSE)
          /\ proxy \in Range(calls) /\ ~saver.active => Before(Len(saver.events) + 1, FALSE)

Events ==
    [type : {"appeared", "vanished"}] \cup [type : {"changed"}, active : BOOLEAN]
    \cup [type : {"reply"}, by : Nat \ {0}, ok : BOOLEAN, active : BOOLEAN]
BusTypes ==
    /\ saver \in [runs : BOOLEAN, active : BOOLEAN, events : Seq(Events)] /\ active \in BOOLEAN
    /\ proxies \in [made : Nat, making : Nat, live : SUBSET Nat]
    /\ proxy = 0 \/ proxy \in proxies.live
    /\ \A p \in proxies.live : p \in 1 .. proxies.made
    /\ calls \in Seq(Nat \ {0}) /\ \A i \in DOMAIN calls : calls[i] <= proxies.made
    /\ \A i \in DOMAIN saver.events : saver.events[i].type = "reply" => saver.events[i].by <= proxies.made
BusInv == BusTypes /\ EventsInOrder /\ LockIsComing /\ FirstAnswer

Vols == [there : BOOLEAN, mounted : BOOLEAN, mounting : Nat, startup : BOOLEAN, mark : BOOLEAN, timers : Nat]
VolumeTypes ==
    sessionActive \in BOOLEAN /\ queue \in Seq(Volumes) /\ guess \subseteq Volumes /\ vol \in [Volumes -> Vols]
AutomountInv == BusInv /\ VolumeTypes /\ QueueWaitsForLock /\ MarkIsTemporary

=============================================================================
