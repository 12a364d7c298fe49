----------------------------- MODULE Clipboard ------------------------------
(* The clipboard manager: an application asks it to save the clipboard before *)
(* it exits (SAVE_TARGETS); the manager asks the owner for the targets, then  *)
(* for all data at once, some of which comes in pieces, becomes the owner and *)
(* serves the data, big ones in pieces.  What it keeps is counted, because a  *)
(* transfer goes on when the clipboard is lost.  Events come in order.  The   *)
(* time of the server is how often an application took the clipboard.         *)
EXTENDS Integers, Sequences, FiniteSets, SequencesExt

CONSTANTS
    Targets, Big,        \* the targets worth saving; those whose data is served in pieces
    Apps, Manager, None,
    MaxInbox, MaxEvents  \* bounds

VARIABLES
    owner,      \* of the selection CLIPBOARD
    alive,      \* the windows of the applications that exist
    since,      \* when an application took it last
    manages,    \* the manager owns the selection CLIPBOARD_MANAGER
    asked,      \* what the manager asked for, whom and with which time, in order
    inbox,      \* the events of the manager, in order
    data,       \* every TargetData that was made: its target, type, count of references
    contents,   \* the kept TargetData, the latest first
    conversions,\* the transfers in pieces, the latest first: window, TargetData, pieces left
    requestor,  \* whom the manager saves the clipboard for
    time,       \* of the request
    answers,    \* history: the last answer and their number, what the owner could give, whether a request
                \* was given up whose answers may still come, whether one came to what is kept for another
    events      \* how many things the applications did

selection == <<owner, since, manages>>
vars == <<selection, alive, asked, inbox, data, contents, conversions, requestor, time, answers, events>>

(* find_content_type: some kept data still comes in pieces.                   *)
Incomplete == \E i \in DOMAIN contents' : data'[contents'[i]].type = "incr"
Put(e) == inbox' = Append(inbox, e)
Event(type, from, what) == [type |-> type, from |-> from, what |-> what]
Handle(type) == inbox # <<>> /\ inbox[1].type = type

(* target_data_unref; freed at 0                                              *)
Unref(d, ids) == [i \in DOMAIN d |-> IF i \in ids THEN [d[i] EXCEPT !.refs = @ - 1] ELSE d[i]]

Told(success) == [answers EXCEPT !.last = success, !.count = @ + 1]
Notify(success) == answers' = Told(success)
FreeContents == contents' = <<>> /\ data' = Unref(data, Range(contents))

(* XSetSelectionOwner, which the server ignores if an application took the    *)
(* selection after the time it names; what the manager owned it is told.      *)
Owns(who, at, box) ==
    IF since > at THEN UNCHANGED owner /\ inbox' = box
    ELSE /\ owner' = who
         /\ inbox' = IF owner = Manager /\ who # Manager THEN Append(box, Event("CLEAR", None, None)) ELSE box

(* XConvertSelection: the server passes it to the owner, or answers itself.   *)
Ask(what, at) ==
    /\ inbox' = IF owner = None THEN Append(Tail(inbox), Event("NONE", None, None)) ELSE Tail(inbox)
    /\ asked' = IF owner = None THEN asked ELSE Append(asked, [what |-> what, of |-> owner, time |-> at])

(* save_targets: an entry for each target, and one request for all of them    *)
SaveTargets(targets, at) ==
    LET new == [i \in 1 .. Len(targets) |-> [target |-> targets[i], type |-> "none", refs |-> 1]]
    IN  /\ data' = data \o new
        /\ contents' = Reverse([i \in 1 .. Len(targets) |-> Len(data) + i]) \o contents
        /\ Ask("MULTIPLE", at)

(* convert_clipboard_manager.  The request may name the targets; if not, the  *)
(* owner is asked.                                                            *)
Late == asked # <<>> \/ \E i \in 2 .. Len(inbox) : inbox[i].type \in {"TARGETS", "MULTIPLE", "NONE", "PIECE"}
ConvertManager ==
    /\ Handle("SAVE_TARGETS")
    /\ LET e == inbox[1]
       IN  IF requestor # None \/ contents # <<>> \/ e.from \notin alive
           THEN inbox' = Tail(inbox) /\ UNCHANGED <<requestor, time, asked, data, contents, answers>>
           ELSE /\ requestor' = e.from /\ time' = e.what.time
                /\ answers' = [answers EXCEPT !.offered = {}, !.givenUp = @ /\ Late]
                /\ IF e.what.targets # <<>> THEN SaveTargets(e.what.targets, time')
                   ELSE Ask("TARGETS", time') /\ UNCHANGED <<data, contents>>
    /\ UNCHANGED <<selection, alive, conversions, events>>

TargetsCame ==
    /\ Handle("TARGETS")
    /\ SaveTargets(inbox[1].what, time)
    /\ UNCHANGED <<selection, alive, conversions, requestor, time, answers, events>>

(* get_property for each entry; what: the targets that came at once, and those*)
(* that come in pieces.  The manager becomes the owner, unless someone copied *)
(* since.                                                                     *)
Got(i, what) == data[i].target \in what.now \cup what.incr
MultipleCame ==
    /\ Handle("MULTIPLE")
    /\ LET what == inbox[1].what
       IN  /\ contents' = SelectSeq(contents, LAMBDA i : Got(i, what))
           /\ data' = [i \in DOMAIN data |->
                 IF i \notin Range(contents) THEN data[i]
                 ELSE IF data[i].target \in what.now THEN [data[i] EXCEPT !.type = "data"]
                 ELSE IF data[i].target \in what.incr THEN [data[i] EXCEPT !.type = "incr"]
                 ELSE [data[i] EXCEPT !.refs = 0]]
           /\ time' = what.time
           /\ Owns(Manager, time', Tail(inbox))
           /\ requestor' = IF Incomplete THEN requestor ELSE None
           /\ answers' = [(IF Incomplete THEN answers ELSE Told(TRUE)) EXCEPT
                             !.crossed = @ \/ (answers.givenUp /\ contents # <<>>)]
    /\ UNCHANGED <<since, manages, alive, asked, conversions, events>>

ConversionFailed ==
    /\ Handle("NONE")
    /\ inbox' = Tail(inbox)
    /\ Notify(FALSE) /\ FreeContents /\ requestor' = None
    /\ UNCHANGED <<selection, alive, asked, conversions, time, events>>

(* receive_incrementally: the last piece of a target is empty.                *)
ReceivePiece ==
    /\ Handle("PIECE")
    /\ inbox' = Tail(inbox)
    /\ LET mine == {i \in DOMAIN contents : data[contents[i]].target = inbox[1].what}
           first == CHOOSE i \in mine : \A j \in mine : i <= j
       IN  IF mine # {} /\ data[contents[first]].type = "incr"
           THEN /\ data' = [data EXCEPT ![contents[first]].type = "data"]
                /\ contents' = contents
                /\ IF Incomplete THEN UNCHANGED <<requestor, answers>>
                   ELSE Notify(TRUE) /\ requestor' = None
           ELSE UNCHANGED <<data, contents, requestor, answers>>
    /\ UNCHANGED <<selection, alive, asked, conversions, time, events>>

RequestorDestroyed ==
    /\ Handle("DESTROY")
    /\ inbox' = Tail(inbox)
    /\ IF inbox[1].from = requestor
       THEN FreeContents /\ requestor' = None /\ answers' = [answers EXCEPT !.givenUp = TRUE]
       ELSE UNCHANGED <<data, contents, requestor, answers>>
    /\ UNCHANGED <<selection, alive, asked, conversions, time, events>>

(* Another manager came: what is kept is given up with the clipboard, whoever *)
(* owns that; a request that is under way stays.                              *)
ManagerLost ==
    /\ Handle("MANAGER_CLEAR")
    /\ IF contents = <<>> THEN inbox' = Tail(inbox) /\ UNCHANGED <<owner, data, contents, answers>>
       ELSE /\ FreeContents /\ Owns(None, time, Tail(inbox))
            /\ answers' = [answers EXCEPT !.givenUp = @ \/ requestor # None]
    /\ UNCHANGED <<since, manages, alive, asked, conversions, requestor, time, events>>

ClipboardLost ==
    /\ Handle("CLEAR")
    /\ inbox' = Tail(inbox)
    /\ FreeContents
    /\ answers' = [answers EXCEPT !.givenUp = @ \/ requestor # None]
    /\ requestor' = None
    /\ UNCHANGED <<selection, alive, asked, conversions, time, events>>

(* Without target_data_ref.                                                   *)
ConvertUnreferenced(i, w) ==
    /\ conversions' = <<[window |-> w, data |-> i, left |-> 2]>> \o conversions
    /\ data' = data

(* convert_clipboard_target: big data is sent in pieces and kept meanwhile.   *)
Convert(i, w) ==
    /\ conversions' = <<[window |-> w, data |-> i, left |-> 2]>> \o conversions
    /\ data' = [data EXCEPT ![i].refs = @ + 1]

ConvertClipboard ==
    /\ Handle("REQUEST")
    /\ inbox' = Tail(inbox)
    /\ LET e == inbox[1]
           mine == {i \in DOMAIN contents : data[contents[i]].target = e.what}
           first == CHOOSE i \in mine : \A j \in mine : i <= j
       IN  IF mine # {} /\ data[contents[first]].type = "data" /\ e.what \in Big
           THEN Convert(contents[first], e.from)
           ELSE UNCHANGED <<data, conversions>>
    /\ UNCHANGED <<selection, alive, asked, contents, requestor, time, answers, events>>

(* send_incrementally: the receiver deleted the property; after an empty piece*)
(* the transfer is over.                                                      *)
SendPiece ==
    /\ Handle("DELETE")
    /\ inbox' = Tail(inbox)
    /\ LET mine == {k \in DOMAIN conversions : /\ conversions[k].window = inbox[1].from
                                               /\ data[conversions[k].data].target = inbox[1].what}
           k == CHOOSE k \in mine : \A l \in mine : k <= l
       IN  IF mine = {} THEN UNCHANGED <<conversions, data>>
           ELSE IF conversions[k].left > 0
           THEN conversions' = [conversions EXCEPT ![k].left = @ - 1] /\ data' = data
           ELSE conversions' = RemoveAt(conversions, k) /\ data' = Unref(data, {conversions[k].data})
    /\ UNCHANGED <<selection, alive, asked, contents, requestor, time, answers, events>>

(* -------------------------------------------------------- applications ---- *)
Act == events < MaxEvents /\ events' = events + 1 /\ Len(inbox) < MaxInbox

Asks ==
    /\ Act /\ manages
    /\ \E a \in alive, targets \in {<<>>, SetToSeq(Targets)} :
          Put(Event("SAVE_TARGETS", a, [targets |-> targets, time |-> since]))
    /\ UNCHANGED <<selection, alive, asked, data, contents, conversions, requestor, time, answers>>

(* The application that was the owner answers, or refuses. Answers that the   *)
(* manager would give to itself are left out.                                 *)
Answers ==
    /\ asked # <<>> /\ asked[1].of \in alive /\ Len(inbox) < MaxInbox
    /\ asked' = Tail(asked)
    /\ \/ Put(Event("NONE", asked[1].of, None)) /\ UNCHANGED answers
       \/ asked[1].what = "TARGETS" /\ Put(Event("TARGETS", asked[1].of, SetToSeq(Targets))) /\ UNCHANGED answers
       \/ /\ asked[1].what = "MULTIPLE"
          /\ \E given \in SUBSET Targets : \E incr \in SUBSET given :
                /\ Put(Event("MULTIPLE", asked[1].of, [now |-> given \ incr, incr |-> incr, time |-> asked[1].time]))
                /\ answers' = [answers EXCEPT !.offered = given]
    /\ UNCHANGED <<selection, alive, data, contents, conversions, requestor, time, events>>

Sends ==
    /\ Len(inbox) < MaxInbox
    /\ \E i \in Range(contents) : data[i].type = "incr" /\ Put(Event("PIECE", None, data[i].target))
    /\ UNCHANGED <<selection, alive, asked, data, contents, conversions, requestor, time, answers, events>>

Copies ==
    /\ Act
    /\ \E a \in alive \ {owner} :
          /\ owner' = a /\ since' = since + 1
          /\ IF owner = Manager THEN Put(Event("CLEAR", a, None)) ELSE UNCHANGED inbox
    /\ UNCHANGED <<manages, alive, asked, data, contents, conversions, requestor, time, answers>>

AnotherManager ==
    /\ Act /\ manages
    /\ manages' = FALSE /\ Put(Event("MANAGER_CLEAR", None, None))
    /\ UNCHANGED <<owner, since, alive, asked, data, contents, conversions, requestor, time, answers>>

Pastes ==
    /\ Act /\ owner = Manager
    /\ \E a \in alive, t \in Targets : Put(Event("REQUEST", a, t))
    /\ UNCHANGED <<selection, alive, asked, data, contents, conversions, requestor, time, answers>>

Reads ==
    /\ Len(inbox) < MaxInbox
    /\ \E c \in Range(conversions) : c.window \in alive /\ Put(Event("DELETE", c.window, data[c.data].target))
    /\ UNCHANGED <<selection, alive, asked, data, contents, conversions, requestor, time, answers, events>>

Exits ==
    /\ Act
    /\ \E a \in alive :
          /\ alive' = alive \ {a} /\ owner' = IF owner = a THEN None ELSE owner
          /\ asked' = SelectSeq(asked, LAMBDA q : q.of # a)
          /\ Put(Event("DESTROY", a, None))
    /\ UNCHANGED <<since, manages, data, contents, conversions, requestor, time, answers>>

Init ==
    /\ owner = None /\ since = 0 /\ manages = TRUE /\ alive = Apps /\ asked = <<>> /\ inbox = <<>> /\ data = <<>> /\ contents = <<>>
    /\ conversions = <<>> /\ requestor = None /\ time = 0 /\ events = 0
    /\ answers = [last |-> FALSE, count |-> 0, offered |-> {}, givenUp |-> FALSE, crossed |-> FALSE]

Next ==
    \/ ConvertManager \/ TargetsCame \/ MultipleCame \/ ConversionFailed \/ ReceivePiece
    \/ RequestorDestroyed \/ ManagerLost \/ ClipboardLost \/ ConvertClipboard \/ SendPiece
    \/ Asks \/ Answers \/ Sends \/ Copies \/ AnotherManager \/ Pastes \/ Reads \/ Exits
Spec == Init /\ [][Next]_vars

(* ----------------------------------------------------------- properties --- *)
TypeOK == owner \in Apps \cup {Manager, None} /\ requestor \in Apps \cup {None} /\ alive \subseteq Apps

(* What is kept or being sent was not freed, and what is neither was, until   *)
(* the answer to a request that was given up comes to what is kept for a      *)
(* later one: what it does not bring is freed even while it is being sent.    *)
References ==
    ~answers.crossed => \A i \in DOMAIN data :
        data[i].refs = Cardinality({k \in DOMAIN contents : contents[k] = i})
                       + Cardinality({k \in DOMAIN conversions : conversions[k].data = i})

(* An application that is told its clipboard was saved may exit: the manager  *)
(* owns the clipboard, or someone copied since, and has the complete data of  *)
(* each target the owner gave. Not so after what was kept for a request was   *)
(* given up, as its requestor left, the clipboard was lost or another manager *)
(* came, until a request begins for which no answer to that one is under way. *)
ToldIsHeld ==
    answers'.last /\ answers'.count # answers.count /\ ~answers.givenUp =>
        /\ owner' = Manager \/ since' > time'
        /\ answers.offered \subseteq {data'[contents'[i]].target : i \in DOMAIN contents'}
        /\ \A i \in DOMAIN contents' : data'[contents'[i]].type = "data"
=============================================================================
