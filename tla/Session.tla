------------------------------ MODULE Session -------------------------------
(* The program itself: it owns its name on the bus, asks the session manager  *)
(* whether the session runs, makes the application and registers; it answers  *)
(* the end of the session and leaves its main loop. The application makes and *)
(* drops its parts as the settings say and hands some of them to others.      *)
EXTENDS Integers, FiniteSets

CONSTANTS
    Parts,               \* of the application
    Lock, Sources,       \* gf_screensaver and gf_input_sources, two of them
    MaxChanges, MaxSent  \* bounds

VARIABLES
    name,       \* org.gnome.Flashback: "asked", "acquired" or "lost"
    was,        \* name_acquired
    manager,    \* the proxy of the session manager and the question to it
    client,     \* the registration and the proxy of the client
    loop,       \* the main loop: "runs", "quits" (its last iteration) or "ended"
    failed,     \* the exit status
    sent,       \* what the session manager sent to the client
    answered,   \* and how much of it was answered
    missed,     \* what came before anyone listened
    environment,\* whether the variables of the session were set
    settings,   \* which parts are wanted
    parts,      \* the instance of each part, 0 for none
    wired,      \* the input sources the screensaver was given
    made        \* how many instances were made
app == <<parts, wired, made>>
bus == <<sent, answered, missed>>
vars == <<name, was, manager, client, loop, failed, bus, environment, settings, app>>

Application == \E p \in Parts : parts[p] # 0
Alive == loop # "ended"

(* main_loop_quit: the application goes, the loop is left after the callbacks *)
(* that are due already.                                                      *)
Quit == parts' = [p \in Parts |-> 0] /\ wired' = 0 /\ loop' = "quits" /\ UNCHANGED made

(* settings_changed, for one key or for all of them. A part that is there     *)
(* stays; the screensaver is given the input sources whatever changed.        *)
Toggled(old, wanted, keys) ==
    [p \in Parts |-> IF p \notin keys THEN old[p]
                     ELSE IF p \notin wanted THEN 0
                     ELSE IF old[p] # 0 THEN old[p] ELSE made + 1]
(* It is given them only when there are some.                                 *)
SettingsChangedSome(old, wanted, keys) ==
    LET new == Toggled(old, wanted, keys)
    IN /\ parts' = new
       /\ made' = IF new = old THEN made ELSE made + 1
       /\ wired' = IF new[Lock] = 0 THEN 0
                   ELSE IF new[Sources] # 0 THEN new[Sources] ELSE wired
SettingsChanged(old, wanted, keys) ==
    LET new == Toggled(old, wanted, keys)
    IN /\ parts' = new
       /\ made' = IF new = old THEN made ELSE made + 1
       /\ wired' = IF new[Lock] = 0 THEN 0 ELSE new[Sources]

(* ---------------------------------------------------------------- start --- *)
NameAcquired ==
    /\ Alive /\ name = "asked" /\ name' = "acquired" /\ was' = TRUE
    /\ manager' = "asked"
    /\ UNCHANGED <<client, loop, failed, bus, environment, settings, app>>

(* The name may go to a program that replaces this one, at any time.          *)
NameLost ==
    /\ Alive /\ name # "lost" /\ name' = "lost"
    /\ Quit /\ failed' = (failed \/ ~was)
    /\ UNCHANGED <<was, manager, client, bus, environment, settings>>

(* session_manager_ready_cb                                                   *)
ManagerReady ==
    /\ Alive /\ manager = "asked"
    /\ manager' \in {"queried", "failed"}
    /\ UNCHANGED <<name, was, client, loop, failed, bus, environment, settings, app>>

(* session_ready_cb: the environment is set first, then the application is    *)
(* made with every part that is wanted, and then the client registers.        *)
ApplicationInit == SettingsChanged(parts, settings, Parts)
SessionReadyCb(running) ==
    /\ environment' = (environment \/ ~running)
    /\ ApplicationInit
    /\ client' = "asked"

(* is_session_running_cb: an error counts as a session that runs.             *)
SessionReady ==
    /\ Alive /\ manager = "queried" /\ manager' = "known"
    /\ \E running \in BOOLEAN : SessionReadyCb(running)
    /\ UNCHANGED <<name, was, loop, failed, bus, settings>>

(* register_client_cb                                                         *)
Registered ==
    /\ Alive /\ client = "asked"
    /\ client' \in {"registered", "refused"}
    /\ UNCHANGED <<name, was, manager, loop, failed, bus, environment, settings, app>>

(* client_private_ready_cb: from here on signals are heard.                   *)
ClientReady ==
    /\ Alive /\ client = "registered"
    /\ client' \in {"listens", "deaf"}
    /\ UNCHANGED <<name, was, manager, loop, failed, bus, environment, settings, app>>

(* ------------------------------------------------------------------ end --- *)
(* The session manager asks, or tells, the client it registered: the answer   *)
(* is always yes. Before anyone listens the signal is lost.                   *)
QueryEndSession ==
    /\ Alive /\ client \in {"registered", "listens", "deaf"} /\ sent < MaxSent
    /\ sent' = sent + 1
    /\ IF client = "listens" THEN answered' = answered + 1 /\ UNCHANGED missed
       ELSE missed' = missed + 1 /\ UNCHANGED answered
    /\ UNCHANGED <<name, was, manager, client, loop, failed, environment, settings, app>>

(* stop_cb and end_session_cb of the main program                             *)
Stop ==
    /\ Alive /\ client = "listens" /\ Quit
    /\ UNCHANGED <<name, was, manager, client, failed, bus, environment, settings>>

(* SIGTERM and SIGINT, once the session is ready; before, they kill.          *)
Signal ==
    /\ Alive
    /\ IF manager = "known" THEN Quit
       ELSE loop' = "ended" /\ UNCHANGED app
    /\ UNCHANGED <<name, was, manager, client, failed, bus, environment, settings>>

LoopEnds ==
    /\ loop = "quits" /\ loop' = "ended"
    /\ UNCHANGED <<name, was, manager, client, failed, bus, environment, settings, app>>

(* ------------------------------------------------------------- settings --- *)
ChangeSetting ==
    /\ Alive /\ made < MaxChanges
    /\ \E p \in Parts :
          /\ settings' = IF p \in settings THEN settings \ {p} ELSE settings \cup {p}
          /\ IF manager = "known" /\ loop = "runs"
             THEN SettingsChanged(parts, settings', {p}) ELSE UNCHANGED app
    /\ UNCHANGED <<name, was, manager, client, loop, failed, bus, environment>>

(* -------------------------------------------------------------- system ---- *)
OwnsName == name = "asked" /\ was = FALSE    \* gf_session_constructed

(* main                                                                       *)
Init ==
    /\ OwnsName /\ manager = "none" /\ client = "none"
    /\ loop = "runs" /\ failed = FALSE
    /\ sent = 0 /\ answered = 0 /\ missed = 0 /\ environment = FALSE
    /\ settings \in SUBSET Parts
    /\ parts = [p \in Parts |-> 0] /\ wired = 0 /\ made = 0

Next ==
    \/ NameAcquired \/ NameLost \/ ManagerReady \/ SessionReady \/ Registered \/ ClientReady
    \/ QueryEndSession \/ Stop \/ Signal \/ LoopEnds \/ ChangeSetting

Spec == Init /\ [][Next]_vars

(* ---------------------------------------------------------- properties ---- *)
TypeOK ==
    /\ name \in {"asked", "acquired", "lost"} /\ was \in BOOLEAN
    /\ manager \in {"none", "asked", "queried", "failed", "known"}
    /\ client \in {"none", "asked", "registered", "refused", "listens", "deaf"}
    /\ loop \in {"runs", "quits", "ended"} /\ failed \in BOOLEAN
    /\ sent = answered + missed /\ environment \in BOOLEAN
    /\ settings \subseteq Parts /\ parts \in [Parts -> 0..(MaxChanges + 2)]
    /\ wired \in 0..(MaxChanges + 2)

(* The screensaver has the input sources that are there, never those of an    *)
(* earlier instance, which would be freed; and while the program runs in its  *)
(* session each part is there as the settings say.                            *)
PartsAreWired ==
    /\ parts[Lock] # 0 => wired = parts[Sources]
    /\ loop = "runs" /\ manager = "known" => \A p \in Parts : parts[p] # 0 <=> p \in settings

(* Nothing is made before the session is known to run or to start.            *)
WiredInv ==
    /\ TypeOK /\ PartsAreWired
    /\ sent \in Nat /\ answered \in Nat /\ missed \in Nat
    /\ name = "asked" => manager = "none"
    /\ made \in 0..(MaxChanges + 1) /\ (manager # "known" => made = 0)
    /\ parts \in [Parts -> 0..made] /\ wired \in 0..made
=============================================================================
