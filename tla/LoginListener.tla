---------------------------- MODULE LoginListener ----------------------------
(***************************************************************************)
(* GfListener as a client of logind: the delay lock against sleep, the     *)
(* proxies that follow the owner of the bus name, LockedHint.  logind is   *)
(* external: it restarts, sleeps, and answers calls in the order in which  *)
(* they arrive; what it and the bus send arrives in order too.  The        *)
(* process itself may crash and be started again by the session.           *)
(*                                                                         *)
(* active is GfListener.active.  Here a LOCK signal always raises the      *)
(* screen; a screen that refuses is the subject of module Screensaver.     *)
(***************************************************************************)
EXTENDS Integers, Sequences, SequencesExt

CONSTANTS
    MaxSleeps, MaxRestarts, MaxCrashes,  \* bounds: sleeps, restarts of logind, crashes
    MaxLocks,                            \* bound: inhibitor locks
    MaxCalls                             \* bound: unanswered calls when active changes

NoLock == 0
Locks == 1 .. MaxLocks

VARIABLES
    logind,   \* the login manager
    calls,    \* from this process to logind
    inbox,    \* replies and signals on their way to this process
    fd,       \* inhibit_lock_fd: the lock behind it, or NoLock
    manager,  \* self->login_manager # NULL
    stray,    \* proxies that login_manager was overwritten over, still connected
    session,  \* self->login_session # NULL
    active,
    alive     \* the process runs

vars == <<logind, calls, inbox, fd, manager, stray, session, active, alive>>
proxies == <<manager, stray, session>>

Managers ==
    [up : BOOLEAN, phase : {"awake", "preparing", "asleep"}, hint : BOOLEAN,
     locks : SUBSET Locks,
     sleeps : 0 .. MaxSleeps, restarts : 0 .. MaxRestarts, crashes : 0 .. MaxCrashes]

Call(kind) == <<kind, FALSE>>
Hint(b) == <<"hint", b>>

Message(kind) == <<kind, NoLock>>

(* what the bus makes of a call that nobody can answer                     *)
Unanswered(call) ==
    CASE call[1] = "proxy" -> <<Message("manager")>>   \* an error, which GDBusProxy ignores
      [] call[1] \in {"inhibit", "session"} -> <<Message("error")>>
      [] OTHER -> <<>>

(* a method call: to logind, or back as an error                           *)
Send(queue) ==
    IF logind.up THEN calls' = calls \o queue /\ inbox' = Tail(inbox)
    ELSE /\ UNCHANGED calls
         /\ inbox' = Tail(inbox) \o FlattenSeq([i \in DOMAIN queue |-> Unanswered(queue[i])])

-----------------------------------------------------------------------------
(* logind, the bus and the session manager                                 *)

Reply(message) == inbox' = IF alive THEN Append(inbox, message) ELSE inbox

InUse == logind.locks \cup {fd} \cup {inbox[i][2] : i \in DOMAIN inbox}

Serve ==
    /\ calls # <<>>
    /\ calls' = Tail(calls)
    /\ LET call == Head(calls) IN
       CASE call[1] = "hint" ->
              logind' = [logind EXCEPT !.hint = call[2]] /\ UNCHANGED inbox
         [] call[1] = "inhibit" /\ logind.phase # "preparing" ->
              LET lock == CHOOSE l \in Locks \ InUse : \A other \in Locks \ InUse : l <= other IN
              /\ ~ Locks \subseteq InUse
              /\ logind' = [logind EXCEPT !.locks = @ \cup {lock}]
              /\ Reply(<<"lock", lock>>)
         [] call[1] = "inhibit" /\ logind.phase = "preparing" ->
              UNCHANGED logind /\ Reply(Message("error"))
         [] OTHER ->
              /\ UNCHANGED logind
              /\ Reply(Message(IF call[1] = "proxy" THEN "manager" ELSE "session"))
    /\ UNCHANGED <<fd, manager, stray, session, active, alive>>

(* Sleep waits for the locks, but not for ever                             *)
LogindSleeps ==
    /\ logind.up
    /\ \/ /\ logind.phase = "awake" /\ logind.sleeps < MaxSleeps
          /\ logind' = [logind EXCEPT !.phase = "preparing", !.sleeps = @ + 1]
          /\ Reply(Message("sleep"))
       \/ /\ logind.phase = "preparing"
          /\ logind' = [logind EXCEPT !.phase = "asleep"] /\ UNCHANGED inbox
       \/ /\ logind.phase = "asleep"
          /\ logind' = [logind EXCEPT !.phase = "awake"]
          /\ Reply(Message("resume"))
    /\ UNCHANGED <<calls, fd, manager, stray, session, active, alive>>

LogindVanishes ==
    /\ logind.up /\ logind.restarts < MaxRestarts
    /\ logind' = [logind EXCEPT !.up = FALSE, !.phase = "awake", !.hint = FALSE,
                                !.locks = {}, !.restarts = @ + 1]
    /\ calls' = <<>>
    /\ inbox' = IF alive
                THEN Append(inbox, Message("vanished"))
                       \o FlattenSeq([i \in DOMAIN calls |-> Unanswered(calls[i])])
                ELSE inbox
    /\ UNCHANGED <<fd, manager, stray, session, active, alive>>

LogindAppears ==
    /\ ~logind.up
    /\ logind' = [logind EXCEPT !.up = TRUE]
    /\ Reply(Message("appeared"))
    /\ UNCHANGED <<calls, fd, manager, stray, session, active, alive>>

(* The kernel closes the descriptors, also those in undelivered messages;  *)
(* what was only asked for reaches nobody                                  *)
Crash ==
    /\ alive /\ logind.crashes < MaxCrashes
    /\ alive' = FALSE
    /\ logind' = [logind EXCEPT !.locks = {}, !.crashes = @ + 1]
    /\ inbox' = <<>> /\ fd' = NoLock
    /\ manager' = FALSE /\ stray' = 0 /\ session' = FALSE /\ active' = FALSE
    /\ calls' = SelectSeq(calls, LAMBDA call : call[1] = "hint")

(* gf_listener_init watches the name; the owner, if any, is reported       *)
Start ==
    /\ ~alive
    /\ alive' = TRUE
    /\ inbox' = IF logind.up THEN <<Message("appeared")>> ELSE <<>>
    /\ UNCHANGED <<logind, calls, fd, manager, stray, session, active>>

-----------------------------------------------------------------------------
(* Callbacks of the listener                                               *)

Receives(kind) == alive /\ inbox # <<>> /\ Head(inbox)[1] = kind

(* release_inhibit_lock                                                    *)
ReleaseInhibitLock ==
    /\ fd' = NoLock
    /\ logind' = [logind EXCEPT !.locks = @ \ {fd}]

(* take_inhibit_lock, called once for every proxy that is connected        *)
TakeInhibitLock(times) ==
    IF fd = NoLock /\ manager' THEN [i \in 1 .. times |-> Call("inhibit")] ELSE <<>>

NameAppeared ==
    /\ Receives("appeared")
    /\ Send(<<Call("proxy")>>)
    /\ UNCHANGED <<logind, fd, manager, stray, session, active, alive>>

(* login_manager_ready_cb                                                  *)
LoginManagerReady ==
    /\ Receives("manager")
    /\ manager' = TRUE
    /\ stray' = IF manager THEN stray + 1 ELSE stray
    /\ Send(TakeInhibitLock(1) \o <<Call("session")>>)
    /\ UNCHANGED <<logind, fd, session, active, alive>>

(* inhibit_cb stores the descriptor without a look at the one it has       *)
InhibitCb ==
    /\ Receives("lock")
    /\ fd' = Head(inbox)[2] /\ inbox' = Tail(inbox)
    /\ UNCHANGED <<logind, calls, manager, stray, session, active, alive>>

ErrorReply ==
    /\ Receives("error")
    /\ inbox' = Tail(inbox)
    /\ UNCHANGED <<logind, calls, fd, manager, stray, session, active, alive>>

(* Mutant: the hint is not read.                                           *)
LoginSessionReadyUnread ==
    /\ Receives("session")
    /\ session' = TRUE /\ inbox' = Tail(inbox)
    /\ UNCHANGED <<logind, calls, fd, manager, stray, active, alive>>

(* get_session_cb and login_session_ready_cb: a session that was locked is *)
(* locked again, which sets the hint anew                                  *)
LoginSessionReady ==
    /\ Receives("session")
    /\ session' = TRUE
    /\ active' = (active \/ logind.hint)
    /\ Send(IF active' # active THEN <<Hint(TRUE)>> ELSE <<>>)
    /\ UNCHANGED <<logind, fd, manager, stray, alive>>

(* prepare_for_sleep_cb (TRUE) of every proxy: the screen locks before the *)
(* lock is released                                                        *)
PrepareForSleep ==
    /\ Receives("sleep")
    /\ IF manager \/ stray > 0
       THEN /\ active' = TRUE
            /\ Send(IF session /\ ~active THEN <<Hint(TRUE)>> ELSE <<>>)
            /\ ReleaseInhibitLock
       ELSE inbox' = Tail(inbox) /\ UNCHANGED <<logind, calls, fd, active>>
    /\ UNCHANGED <<manager, stray, session, alive>>

(* prepare_for_sleep_cb (FALSE)                                            *)
Resumed ==
    /\ Receives("resume")
    /\ UNCHANGED proxies
    /\ Send(TakeInhibitLock(stray + (IF manager THEN 1 ELSE 0)))
    /\ UNCHANGED <<logind, fd, active, alive>>

NameVanished ==
    /\ Receives("vanished")
    /\ inbox' = Tail(inbox)
    /\ ReleaseInhibitLock
    /\ manager' = FALSE /\ session' = FALSE
    /\ UNCHANGED <<calls, stray, active, alive>>

(* gf_listener_set_active, by a call or by the screensaver itself          *)
SetActive ==
    /\ alive
    /\ active' = ~active
    /\ IF session /\ logind.up THEN calls' = Append(calls, Hint(active')) ELSE UNCHANGED calls
    /\ Len(calls') <= MaxCalls
    /\ UNCHANGED <<logind, inbox, fd, manager, stray, session, alive>>

-----------------------------------------------------------------------------
Init ==
    /\ logind = [up |-> TRUE, phase |-> "awake", hint |-> FALSE, locks |-> {},
                 sleeps |-> 0, restarts |-> 0, crashes |-> 0]
    /\ calls = <<>> /\ inbox = <<Message("appeared")>> /\ fd = NoLock
    /\ manager = FALSE /\ stray = 0 /\ session = FALSE /\ active = FALSE /\ alive = TRUE

Callback ==
    \/ NameAppeared \/ LoginManagerReady \/ InhibitCb \/ ErrorReply \/ LoginSessionReady
    \/ PrepareForSleep \/ Resumed \/ NameVanished

Next == Callback \/ SetActive \/ Serve \/ LogindSleeps \/ LogindVanishes \/ LogindAppears
        \/ Crash \/ Start

(* Callbacks are dispatched and logind answers                             *)
Fairness == WF_vars(Callback) /\ WF_vars(Serve)

Spec == Init /\ [][Next]_vars /\ Fairness

-----------------------------------------------------------------------------
TypeOK ==
    /\ logind \in Managers
    /\ fd \in Locks \cup {NoLock}
    /\ manager \in BOOLEAN /\ session \in BOOLEAN /\ active \in BOOLEAN /\ alive \in BOOLEAN
    /\ stray \in 0 .. MaxRestarts

(* When logind stays, awake, the listener ends up with a delay lock that   *)
(* logind knows of: no restart, sleep or crossed call leaves it without.   *)
Calm == logind.up /\ logind.phase = "awake" /\ alive
HasLock == fd \in logind.locks

(* A session that was locked when the process crashed is locked again      *)
(* after it was started, unless logind forgets it or it crashes again.     *)
WasLocked == alive /\ logind.hint /\ ~session /\ ~active
LockedAgain == active \/ ~logind.hint \/ ~logind.up \/ ~alive
=============================================================================
