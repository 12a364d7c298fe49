----------------------------- MODULE Screenshot -----------------------------
(* The screenshot service. A program takes one picture at a time: it is       *)
(* remembered as a sender until the flash over its picture has faded or it    *)
(* leaves the bus. SelectArea runs a main loop of its own inside the handler, *)
(* so that a second call nests in the first one. Positions are of one axis.   *)
EXTENDS Integers, Sequences, FiniteSets

CONSTANTS
    Clients, None,
    Width,               \* of the screen
    MaxCalls, MaxFiles   \* bounds

Positions == 0..Width

VARIABLES
    alive,       \* the programs on the bus
    senders,     \* the programs remembered, each with a watch of its name
    flash,       \* the flashspot of each program's picture
    disk,        \* the pictures in the directory, by the number in their name
    selections,  \* the nested selections, the innermost last
    grab,        \* whether the innermost one has the seat
    pointer, pressed,
    area,        \* what the last SelectArea returned
    calls        \* how many were handled

user == <<pointer, pressed>>
select == <<selections, grab, area>>
shots == <<senders, flash, disk>>
vars == <<alive, shots, select, user, calls>>

Called == calls < MaxCalls /\ calls' = calls + 1
Innermost == Len(selections)

(* ----------------------------------------------------------- pictures ---- *)
(* The first name, whether it is free or not.                                 *)
FirstPath == 0
(* get_unique_path: "name", "name - 1", "name - 2", ... until one is free     *)
UniquePath == CHOOSE i \in 0..Cardinality(DOMAIN disk) : i \notin DOMAIN disk /\ \A j \in 0..(i - 1) : j \in DOMAIN disk

(* What a call may be given: no name, a name, or the absolute path of a       *)
(* picture, which need not be a free one.                                     *)
Filenames == {[kind |-> "none"], [kind |-> "name"]} \cup [kind : {"absolute"}, path : 0..(MaxFiles - 1)]
(* get_filename: an absolute path is taken as it is                           *)
GetFilename(name) == IF name.kind = "absolute" THEN name.path ELSE UniquePath

(* A picture tells which call wrote it last, and whether by an absolute path. *)
Written(path, absolute) ==
    disk' = [i \in DOMAIN disk \cup {path} |->
                IF i = path THEN [call |-> calls', absolute |-> absolute] ELSE disk[i]]
(* save_screenshot: no name is the clipboard. A picture that cannot be saved  *)
(* fails the call, and when the file could be opened leaves a part of it.     *)
Saved(name, result) ==
    IF name.kind = "none" \/ result = "unopened" THEN UNCHANGED disk
    ELSE Written(GetFilename(name), name.kind = "absolute")

RemoveSender(c) == senders' = senders \ {c}

(* take_screenshot_real: no window, no picture of it, or no room to save it   *)
TakeReal(name, window, result) == IF window THEN Saved(name, result) ELSE UNCHANGED disk
Succeeds(name, window, result) == window /\ (name.kind = "none" \/ result = "saved")

(* take_screenshot: refused while the last picture of the program flashes, or *)
(* when nothing may be saved to disk. The sender is forgotten at once unless  *)
(* there is something to flash.                                               *)
TakeScreenshot ==
    /\ Called
    /\ \E c \in alive, fire, window, disabled \in BOOLEAN, name \in Filenames,
          result \in {"saved", "broken", "unopened"} :
          IF c \in senders \/ disabled THEN UNCHANGED <<senders, flash, disk>>
          ELSE /\ TakeReal(name, window, result)
               /\ IF Succeeds(name, window, result) /\ fire
                  THEN senders' = senders \cup {c} /\ flash' = [flash EXCEPT ![c] = "shown"]
                  ELSE RemoveSender(c) /\ UNCHANGED flash
    /\ DOMAIN disk' \subseteq 0..MaxFiles
    /\ UNCHANGED <<alive, select, user>>

(* start_fade: without a compositor the window goes at once.                  *)
StartFade ==
    /\ \E c \in Clients, composited \in BOOLEAN :
          /\ flash[c] = "shown"
          /\ IF composited THEN flash' = [flash EXCEPT ![c] = "fades"] /\ UNCHANGED senders
             ELSE flash' = [flash EXCEPT ![c] = "none"] /\ RemoveSender(c)
    /\ UNCHANGED <<alive, disk, select, user, calls>>

(* fade, at its last step, and flashspot_finished                             *)
Fade ==
    /\ \E c \in Clients : flash[c] = "fades" /\ flash' = [flash EXCEPT ![c] = "none"] /\ RemoveSender(c)
    /\ UNCHANGED <<alive, disk, select, user, calls>>

Leave ==
    /\ \E c \in alive : alive' = alive \ {c}
    /\ UNCHANGED <<shots, select, user, calls>>

NameVanished ==
    /\ \E c \in senders \ alive : RemoveSender(c)
    /\ UNCHANGED <<alive, flash, disk, select, user, calls>>

(* ---------------------------------------------------------- selections ---- *)
(* Which windows an event of the pointer reaches: the one with the grab, or   *)
(* those under the pointer.                                                   *)
Reached == IF grab THEN {Innermost}
           ELSE {i \in DOMAIN selections : selections[i].window # {} /\ pointer \in selections[i].window}

(* handle_select_area, up to the main loop: the seat goes to the new window,  *)
(* whoever of the program had it; another program may hold it.                *)
SelectArea ==
    /\ Called
    /\ \E c \in alive, free \in BOOLEAN :
          IF grab \/ free
          THEN /\ selections' = Append(selections, [client |-> c, selecting |-> FALSE, x |-> 0, window |-> {}])
               /\ grab' = TRUE /\ UNCHANGED area
          ELSE area' = [client |-> c, x |-> 0, width |-> 0] /\ UNCHANGED <<selections, grab>>
    /\ UNCHANGED <<alive, shots, user>>

(* The rest of handle_select_area, when the innermost main loop was left: the *)
(* answer, width 0 when nothing was selected.                                 *)
Returned(x, width) ==
    /\ area' = [client |-> selections[Innermost].client, x |-> x, width |-> width]
    /\ selections' = SubSeq(selections, 1, Innermost - 1)
    /\ grab' = FALSE

ButtonPress ==
    /\ ~pressed /\ pressed' = TRUE
    /\ selections' = [i \in DOMAIN selections |->
          IF i \in Reached /\ ~selections[i].selecting
          THEN [selections[i] EXCEPT !.selecting = TRUE, !.x = pointer] ELSE selections[i]]
    /\ UNCHANGED <<alive, shots, grab, area, pointer, calls>>

Lower(a, b) == IF a < b THEN a ELSE b
Upper(a, b) == IF a < b THEN b ELSE a

(* motion_notify_event_cb: the window covers what was dragged over            *)
Motion ==
    /\ \E p \in Positions \ {pointer} :
          /\ pointer' = p
          /\ selections' = [i \in DOMAIN selections |->
                IF i \notin Reached \/ ~selections[i].selecting THEN selections[i]
                ELSE [selections[i] EXCEPT !.window =
                        Lower(selections[i].x, p)..(Upper(selections[i].x, p) - 1)]]
    /\ UNCHANGED <<alive, shots, grab, area, pressed, calls>>

(* button_release_event_cb, which does not ask whether the press was its own, *)
(* and leaves the innermost main loop whichever window it is of.              *)
ButtonRelease ==
    /\ pressed /\ pressed' = FALSE
    /\ IF Reached = {} THEN UNCHANGED select
       ELSE \E i \in Reached :
               IF i = Innermost
               THEN Returned(Lower(selections[i].x, pointer),
                             Upper(selections[i].x, pointer) - Lower(selections[i].x, pointer))
               ELSE Returned(0, 0)
    /\ UNCHANGED <<alive, shots, pointer, calls>>

KeyEscape ==
    /\ grab
    /\ Returned(0, 0)
    /\ UNCHANGED <<alive, shots, user, calls>>

(* -------------------------------------------------------------- system ---- *)
Init ==
    /\ alive = Clients /\ senders = {} /\ flash = [c \in Clients |-> "none"]
    /\ disk = <<>>
    /\ selections = <<>> /\ grab = FALSE /\ area = None
    /\ pointer \in Positions /\ pressed \in BOOLEAN
    /\ calls = 0

Next ==
    \/ TakeScreenshot \/ StartFade \/ Fade \/ Leave \/ NameVanished
    \/ SelectArea \/ ButtonPress \/ Motion \/ ButtonRelease \/ KeyEscape

(* A timeout of a flashspot comes.                                            *)
Fairness == WF_vars(StartFade) /\ WF_vars(Fade)
Spec == Init /\ [][Next]_vars /\ Fairness

(* ---------------------------------------------------------- properties ---- *)
TypeOK ==
    /\ alive \subseteq Clients /\ senders \subseteq Clients
    /\ flash \in [Clients -> {"none", "shown", "fades"}]
    /\ DOMAIN disk \subseteq 0..MaxFiles /\ \A i \in DOMAIN disk : disk[i].call \in 1..MaxCalls
    /\ \A i \in DOMAIN selections : selections[i].client \in Clients /\ selections[i].x \in Positions
    /\ grab \in BOOLEAN /\ pointer \in Positions /\ pressed \in BOOLEAN

(* Nothing of a finished call stays behind: whoever is remembered, and so     *)
(* refused, has a flash that will end, and the seat is not held when the last *)
(* selection was answered, so that the desktop can be used again.             *)
CallsCleanUp ==
    /\ \A c \in senders : flash[c] # "none"
    /\ selections = <<>> => ~grab

(* A picture of the directory stays as the call that saved it left it, also   *)
(* when a later call fails half way; only a call that names it by its         *)
(* absolute path replaces it.                                                 *)
SavedAsNew == \A i \in DOMAIN disk : i \in DOMAIN disk' /\ (disk'[i] # disk[i] => disk'[i].absolute)

=============================================================================
