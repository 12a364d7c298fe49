-------------------------- MODULE StatusNotifier ----------------------------
(* The status notifier watcher: applications register items, panels register  *)
(* as hosts, each by a name on the bus that is watched.  A client of the      *)
(* watcher reads the properties once and follows its signals.  Names come and *)
(* go; the bus tells the watcher in the order in which it also delivers the   *)
(* calls.                                                                     *)
EXTENDS Integers, Sequences, FiniteSets, SequencesExt

CONSTANTS
    Names, Paths,        \* bus names, and object paths to register at
    MaxInbox, MaxCalls   \* bounds

VARIABLES
    owned,    \* the names that have an owner
    inbox,    \* calls and vanished names the watcher was not told of, in order
    hosts, items, \* sets of watches: name and path
    props,    \* its D-Bus properties: isHostRegistered, items
    seen,     \* what a client that only followed the signals knows: items
    calls     \* how many calls there were

vars == <<owned, inbox, hosts, items, props, seen, calls>>

Watch(n, p) == [name |-> n, path |-> p]
Is(type) == inbox # <<>> /\ inbox[1].type = type
Unowned(n) == [type |-> "vanished", name |-> n]

(* gf_watch_find, gf_watch_new; a name without an owner vanishes at once.     *)
Told(w, ws) ==
    inbox' = Tail(inbox) \o IF w \notin ws /\ w.name \notin owned THEN <<Unowned(w.name)>> ELSE <<>>

RegisterHost ==
    /\ Is("host")
    /\ LET w == Watch(inbox[1].name, inbox[1].path)
       IN  /\ Told(w, hosts)
           /\ hosts' = hosts \cup {w}
           /\ props' = [props EXCEPT !.isHostRegistered = TRUE]
    /\ UNCHANGED <<owned, items, seen, calls>>

(* An item is told of again when it registers again.                          *)
RegisterItem ==
    /\ Is("item")
    /\ LET w == Watch(inbox[1].name, inbox[1].path)
       IN  /\ Told(w, items)
           /\ items' = items \cup {w}
           /\ props' = [props EXCEPT !.items = items']
           /\ seen' = seen \cup {w}
    /\ UNCHANGED <<owned, hosts, calls>>

(* The list clients may read is not renewed.                                  *)
ForgetItems(ws) == items' = items \ ws /\ seen' = seen \ ws /\ props' = [props EXCEPT !.isHostRegistered = hosts' # {}]
(* Of each watch of the name: update_registered_items and the signal          *)
Forget(ws) ==
    /\ items' = items \ ws
    /\ seen' = seen \ ws
    /\ props' = [props EXCEPT !.items = items', !.isHostRegistered = hosts' # {}]

(* name_vanished_cb, called for every watch of the name                       *)
NameVanished ==
    /\ Is("vanished") /\ inbox' = Tail(inbox)
    /\ LET gone == {w \in hosts \cup items : w.name = inbox[1].name}
       IN  hosts' = hosts \ gone /\ Forget(gone)
    /\ UNCHANGED <<owned, calls>>

(* ------------------------------------------------------------- clients ---- *)
Registers ==
    /\ calls < MaxCalls /\ calls' = calls + 1 /\ Len(inbox) < MaxInbox
    /\ \E type \in {"host", "item"}, n \in Names, p \in Paths :
          inbox' = Append(inbox, [type |-> type, name |-> n, path |-> p])
    /\ UNCHANGED <<owned, hosts, items, props, seen>>

Leaves ==
    /\ \E n \in owned : owned' = owned \ {n} /\ inbox' = Append(inbox, Unowned(n))
    /\ UNCHANGED <<hosts, items, props, seen, calls>>

Appears ==
    /\ calls < MaxCalls /\ calls' = calls + 1
    /\ \E n \in Names \ owned : owned' = owned \cup {n}
    /\ UNCHANGED <<inbox, hosts, items, props, seen>>

Init ==
    /\ owned = Names /\ inbox = <<>> /\ hosts = {} /\ items = {} /\ seen = {} /\ calls = 0
    /\ props = [isHostRegistered |-> FALSE, items |-> {}]
Next == RegisterHost \/ RegisterItem \/ NameVanished \/ Registers \/ Leaves \/ Appears
Spec == Init /\ [][Next]_vars

(* ----------------------------------------------------------- properties --- *)
TypeOK == owned \subseteq Names /\ \A w \in hosts \cup items : w.name \in Names /\ w.path \in Paths

(* What clients read and what they were told agree with the watches, and when *)
(* the bus has nothing more to say no watch is of a name nobody owns.         *)
ClientsAgree ==
    /\ props.items = items /\ seen = items
    /\ props.isHostRegistered = (hosts # {})
    /\ inbox = <<>> => \A w \in hosts \cup items : w.name \in owned

(* A watch of a name that nobody owns ends: what tells it is on its way.      *)
Watches == [name : Names, path : Paths]
Events == [type : {"host", "item"}, name : Names, path : Paths] \cup [type : {"vanished"}, name : Names]
WatcherInv ==
    /\ owned \subseteq Names /\ hosts \subseteq Watches /\ items \subseteq Watches /\ inbox \in Seq(Events)
    /\ seen = items /\ props = [isHostRegistered |-> hosts # {}, items |-> items]
    /\ \A w \in hosts \cup items : w.name \in owned \/ \E i \in DOMAIN inbox : inbox[i] = Unowned(w.name)

=============================================================================
