----------------------------- MODULE ConfigStore -----------------------------
(***************************************************************************)
(* GfMonitorConfigStore: the table of monitor configurations, merged from  *)
(* the files of the system and of the user, and the file of the user that  *)
(* is written behind it.  What the files say is read by module             *)
(* ConfigParser; here a file is a table, and may be refused.               *)
(*                                                                         *)
(* A write is g_file_replace_contents_async: threads of GIO make a new     *)
(* file and move it over the old one ("landed"), then saved_cb runs in the *)
(* main loop.  One that was cancelled may be in its last step already; it  *)
(* is done before the steps of a later write are.                          *)
(***************************************************************************)
EXTENDS Integers, Sequences, SequencesExt, FiniteSetsExt

CONSTANTS
    Keys,        \* GfMonitorsConfigKey: the monitors a configuration is for
    Values,      \* what a configuration of the user may say
    MaxSaves,    \* bound: writes that were begun
    MaxRestarts  \* bound: sessions after the first

VARIABLES
    system,       \* system_configs: keys the files of the system have
    policy,       \* stores_policy, or none
    user,         \* the user's monitors.xml
    refused,      \* the parser refuses the user's file
    outdated,     \* the user's file does not name its layout modes
    configs,      \* config_store->configs
    saves,        \* writes that saved_cb has not been called for, the oldest first
    cancellable,  \* the write save_cancellable belongs to, or 0
    begun,        \* writes that were begun
    restarts,     \* sessions after the first
    changed,      \* history: a configuration was added in this session
    failed        \* history: the last write failed

vars == <<system, policy, user, refused, outdated, configs, saves, cancellable, begun,
          restarts, changed, failed>>

NoPolicy == <<"user", "system">>    \* how reset merges without has_stores_policy
Policies == {NoPolicy, <<"system", "user">>, <<"system">>, <<"user">>}
FromSystem == "from system"

UserStore == "user" \in ToSet(policy)

(* a table of some keys                                                    *)
Tables == UNION {[ks -> Values] : ks \in SUBSET Keys}

Over(f, g) == [k \in DOMAIN f \cup DOMAIN g |-> IF k \in DOMAIN f THEN f[k] ELSE g[k]]

(* gf_monitor_config_store_reset: the stores from the last one of the      *)
(* policy to the first, each over what is there (replace_configs)          *)
Merged ==
    LET store(s) == IF s = "system" THEN [k \in system |-> FromSystem]
                    ELSE IF refused THEN <<>> ELSE user
    IN  FoldRight(LAMBDA s, table : Over(store(s), table), policy, <<>>)

(* generate_config_xml leaves out what came from the system                *)
Written(table) == [k \in {j \in DOMAIN table : table[j] # FromSystem} |-> table[k]]

-----------------------------------------------------------------------------

(* Mutant: the write that is under way is not cancelled.                   *)
CancelNone(queue) == queue

(* the write that save_cancellable belongs to is cancelled                 *)
CancelSave(queue) == [i \in DOMAIN queue |->
    IF queue[i].id = cancellable THEN [queue[i] EXCEPT !.cancelled = TRUE] ELSE queue[i]]

(* gf_monitor_config_store_save                                            *)
Save(table) ==
    IF ~UserStore
    THEN saves' = CancelSave(saves) /\ cancellable' = 0 /\ UNCHANGED begun
    ELSE /\ begun' = begun + 1 /\ cancellable' = begun + 1
         /\ saves' = Append(CancelSave(saves),
                            [id |-> begun + 1, content |-> Written(table),
                             cancelled |-> FALSE, state |-> "writing"])

(* gf_monitor_config_store_add, for a configuration that was made or that  *)
(* was looked up; one of the system is not saved                           *)
Add(k, v) ==
    /\ begun < MaxSaves
    /\ v \in Values \/ (k \in DOMAIN configs /\ configs[k] = v)
    /\ configs' = Over([j \in {k} |-> v], configs)
    /\ IF v = FromSystem THEN UNCHANGED <<saves, cancellable, begun, changed>>
       ELSE Save(configs') /\ changed' = TRUE
    /\ UNCHANGED <<system, policy, user, refused, outdated, restarts, failed>>

(* the new file is moved over the old one                                  *)
Land(i) ==
    /\ saves[i].state = "writing"
    /\ \/ ~saves[i].cancelled
       \/ \A n \in saves[i].id + 1 .. begun :
            \E j \in DOMAIN saves : saves[j].id = n /\ saves[j].state = "writing"
    /\ saves' = [saves EXCEPT ![i].state = "landed"]
    /\ user' = saves[i].content /\ outdated' = FALSE /\ refused' = FALSE
    /\ UNCHANGED <<system, policy, configs, cancellable, begun, restarts, changed, failed>>

(* it fails, or it finds that it was cancelled                             *)
Fail(i) ==
    /\ saves[i].state = "writing"
    /\ saves' = [saves EXCEPT ![i].state = "failed"]
    /\ UNCHANGED <<system, policy, user, refused, outdated, configs, cancellable, begun,
                   restarts, changed, failed>>

(* saved_cb: the task of a write that was cancelled returns that error,    *)
(* whatever it came to, and the cancellable of a later write stays         *)
Cleared(save) == IF save.cancelled THEN cancellable ELSE 0

Saved(i) ==
    /\ saves[i].state # "writing"
    /\ cancellable' = Cleared(saves[i])
    /\ failed' = IF saves[i].cancelled THEN failed ELSE saves[i].state = "failed"
    /\ saves' = SelectSeq(saves, LAMBDA s : s # saves[i])
    /\ UNCHANGED <<system, policy, user, refused, outdated, configs, begun, restarts, changed>>

(* A session starts: gf_monitor_config_store_constructed.  A file that     *)
(* does not name its layout modes is written again at once.                *)
Reset ==
    /\ configs' = Merged
    /\ changed' = FALSE
    /\ IF outdated /\ ~refused /\ UserStore
       THEN /\ begun' = begun + 1 /\ cancellable' = begun + 1
            /\ saves' = <<[id |-> begun + 1, content |-> Written(configs'),
                           cancelled |-> FALSE, state |-> "writing"]>>
       ELSE saves' = <<>> /\ cancellable' = 0 /\ UNCHANGED begun

(* The session ends, with the writes that are under way: each of them      *)
(* holds a reference, so dispose does not come to its own write.           *)
Restart ==
    /\ restarts < MaxRestarts /\ begun < MaxSaves
    /\ restarts' = restarts + 1
    /\ Reset /\ failed' = FALSE
    /\ UNCHANGED <<system, policy, user, refused, outdated>>

Init ==
    /\ system \in SUBSET Keys /\ policy \in Policies
    /\ user \in Tables /\ outdated \in BOOLEAN /\ refused \in BOOLEAN
    /\ configs = Merged
    /\ IF outdated /\ ~refused /\ UserStore
       THEN /\ begun = 1 /\ cancellable = 1
            /\ saves = <<[id |-> 1, content |-> Written(configs),
                          cancelled |-> FALSE, state |-> "writing"]>>
       ELSE begun = 0 /\ cancellable = 0 /\ saves = <<>>
    /\ restarts = 0 /\ changed = FALSE /\ failed = FALSE

Next ==
    \/ \E k \in Keys, v \in Values \cup {FromSystem} : Add(k, v)
    \/ \E i \in DOMAIN saves : Land(i) \/ Fail(i) \/ Saved(i)
    \/ Restart

Fairness ==
    /\ \A i \in 1 .. MaxSaves : WF_vars(i \in DOMAIN saves /\ (Land(i) \/ Fail(i)))
    /\ \A i \in 1 .. MaxSaves : WF_vars(i \in DOMAIN saves /\ Saved(i))

Spec == Init /\ [][Next]_vars /\ Fairness

-----------------------------------------------------------------------------
(* The type invariant: what counts as a system configuration is in a file  *)
(* of the system, and save_cancellable is of a write that was begun.        *)
TypeOK ==
    /\ system \subseteq Keys /\ policy \in Policies
    /\ user \in Tables
    /\ \A k \in DOMAIN configs : configs[k] \in Values \/ (configs[k] = FromSystem /\ k \in system)
    /\ cancellable \in 0 .. begun

(* Once every write is over the file has what gf_monitor_config_store_add  *)
(* was last called with: no older write comes to lie over a newer one.     *)
FileCatchesUp ==
    changed /\ saves = <<>> /\ ~failed /\ UserStore => user = Written(configs)

=============================================================================
