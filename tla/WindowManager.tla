---------------------------- MODULE WindowManager ---------------------------
(* How the program finds the window manager, by the window the root names and *)
(* that names itself, and tells it which program handles the keys of the      *)
(* desktop. Window managers come and go; their events arrive later.           *)
EXTENDS Naturals, Sequences

CONSTANTS MaxWindows, MaxEvents   \* bounds

VARIABLES
    windows,   \* the windows that exist, of window managers, by number
    made,      \* how many there were
    root,      \* _NET_SUPPORTING_WM_CHECK of the root, 0 for none
    wmCheck,   \* GfWm.wm_check
    selected,  \* the windows whose destruction is told
    told,      \* those with _GNOME_WM_KEYBINDINGS
    inbox      \* the events that are due
x == <<windows, made, root>>
vars == <<x, wmCheck, selected, told, inbox>>

(* get_net_supporting_wm_check, twice: the root names a window that exists    *)
Valid == root \in windows

UpdateGnomeWmKeybindings == told' = told \cup {root}

(* update_wm_check: a window that is gone, or none, changes nothing; one that *)
(* goes before it is selected is given up.                                    *)
UpdateWmCheck ==
    IF ~Valid THEN UNCHANGED <<wmCheck, selected, told>>
    ELSE wmCheck' = root /\ selected' = selected \cup {root} /\ UpdateGnomeWmKeybindings

(* Between the two reads and the selection the window may go.                 *)
GoesMeanwhile ==
    /\ Valid /\ windows' = windows \ {root} /\ wmCheck' = 0
    /\ UNCHANGED <<made, root, selected, told>>

(* Only the destruction of the window that is known makes it look.            *)
EventFilterDestroy ==
    /\ inbox # <<>> /\ inbox' = Tail(inbox)
    /\ IF wmCheck # 0 /\ Head(inbox) = wmCheck THEN UpdateWmCheck ELSE UNCHANGED <<wmCheck, selected, told>>
    /\ UNCHANGED x
(* event_filter_cb: the destruction of the window that is known, or a new     *)
(* name at the root while none is known.                                      *)
EventFilter ==
    /\ inbox # <<>> /\ inbox' = Tail(inbox)
    /\ IF (wmCheck # 0 /\ Head(inbox) = wmCheck) \/ (wmCheck = 0 /\ Head(inbox) = 0)
       THEN (UpdateWmCheck /\ UNCHANGED x) \/ GoesMeanwhile
       ELSE UNCHANGED <<x, wmCheck, selected, told>>

(* ------------------------------------------------------- window managers -- *)
(* A window manager makes its window and names it at the root; the event of   *)
(* the root is numbered 0, that of a destruction by its window.               *)
Starts ==
    /\ made < MaxWindows /\ Len(inbox) < MaxEvents
    /\ made' = made + 1 /\ windows' = windows \cup {made + 1} /\ root' = made + 1
    /\ inbox' = Append(inbox, 0)
    /\ UNCHANGED <<wmCheck, selected, told>>

Ends ==
    /\ Len(inbox) < MaxEvents
    /\ \E w \in windows :
          /\ windows' = windows \ {w}
          /\ inbox' = IF w \in selected THEN Append(inbox, w) ELSE inbox
    /\ UNCHANGED <<made, root, wmCheck, selected, told>>

Init ==
    /\ windows \in {{}, {1}} /\ made = 1 /\ root \in {0, 1}
    /\ wmCheck = IF root \in windows THEN root ELSE 0
    /\ selected = windows \cap {root} /\ told = windows \cap {root} /\ inbox = <<>>

Next == EventFilter \/ Starts \/ Ends
Spec == Init /\ [][Next]_vars

(* ---------------------------------------------------------- properties ---- *)
TypeOK ==
    /\ made \in 1..MaxWindows /\ windows \subseteq 1..made
    /\ root \in 0..made /\ wmCheck \in 0..made /\ selected \subseteq 1..made /\ told \subseteq 1..made

(* No window manager is overlooked as long as none is known: when no event is *)
(* due, the one the root names, if it is there, was told about the keys.      *)
FirstIsTold == inbox = <<>> /\ wmCheck = 0 => ~Valid

(* A window manager that nobody knows of has an event of the root on its way. *)
WindowsInv ==
    /\ TypeOK /\ inbox \in Seq(0..made)
    /\ wmCheck = 0 /\ Valid => \E i \in DOMAIN inbox : inbox[i] = 0

=============================================================================
