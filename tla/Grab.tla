-------------------------------- MODULE Grab --------------------------------
(* GfGrab: how keyboard and pointer are taken and moved from window to window *)
(* while other programs take them too. A call blocks the program, for as long *)
(* as its attempts last; the other programs go on, except while the X server  *)
(* is grabbed. Module Screensaver takes a call for one step that succeeds.    *)
EXTENDS Naturals

CONSTANTS
    Windows,       \* of this program, the offscreen one and the root included
    None, Other,   \* nobody, and another program
    Retries        \* of one round: 4

VARIABLES
    seat,        \* the window that has keyboard and pointer, Other or None
    grabWindow,  \* GfGrab.grab_window
    exists,      \* the windows that exist
    call,        \* what runs: "none", "take" or "move"
    target, old, \* its window, and the one a move leaves
    attempt,     \* how many were made
    focused,     \* whether the input focus was moved
    result,      \* of the last call
    taken        \* the window the last call that succeeded was for
running == <<call, target, old, attempt, focused>>
vars == <<seat, grabWindow, exists, running, result, taken>>

Idle == call' = "none" /\ target' = None /\ old' = None /\ attempt' = 0 /\ focused' = FALSE
Start(kind, w) == call' = kind /\ target' = w /\ attempt' = 0 /\ focused' = FALSE

(* grab: the seat passes between windows of one program; it is refused while  *)
(* another program has it, and for reasons of the server.                     *)
Granted(s, w) == s # Other /\ w \in exists

(* gf_grab_grab_root, gf_grab_grab_offscreen                                  *)
Take ==
    /\ call = "none" /\ \E w \in exists : Start("take", w)
    /\ old' = None
    /\ UNCHANGED <<seat, grabWindow, exists, result, taken>>

Done(ok) ==
    /\ result' = ok /\ taken' = (IF ok THEN target ELSE taken) /\ Idle

(* move_input_focus                                                           *)
MoveInputFocus == ~focused /\ focused' = TRUE

(* grab_window: twice four attempts a second apart, the second time after the *)
(* focus was moved away from whoever holds on to it.                          *)
TakeAttempt ==
    /\ call = "take"
    /\ \/ /\ Granted(seat, target)
          /\ seat' = target /\ grabWindow' = target /\ Done(TRUE)
       \/ /\ UNCHANGED <<seat, grabWindow>>
          /\ IF attempt + 1 < Retries THEN attempt' = attempt + 1 /\ UNCHANGED <<call, target, old, focused, result, taken>>
             ELSE IF ~focused THEN attempt' = 0 /\ MoveInputFocus /\ UNCHANGED <<call, target, old, result, taken>>
             ELSE Done(FALSE)
    /\ UNCHANGED exists

(* gf_grab_move_to_window                                                     *)
Move ==
    /\ call = "none" /\ \E w \in exists : Start("move", w)
    /\ old' = grabWindow
    /\ UNCHANGED <<seat, grabWindow, exists, result, taken>>

Released(s) == IF s = Other THEN Other ELSE None

(* The window is named though the seat was refused.                           *)
MoveAttemptNaming ==
    /\ call = "move"
    /\ IF grabWindow = target THEN Done(TRUE) /\ UNCHANGED <<seat, grabWindow>>
       ELSE \/ /\ Granted(Released(seat), target)
               /\ seat' = target /\ grabWindow' = target /\ Done(TRUE)
            \/ /\ seat' = Released(seat) /\ grabWindow' = target
               /\ old' = None /\ UNCHANGED <<call, target, attempt, focused, result, taken>>
    /\ UNCHANGED exists

(* grab_move, again and again until it succeeds. With the server grabbed, the *)
(* seat is released and asked for; refused twice, it is asked for a third     *)
(* time, if there was a window before, for the same new window.               *)
MoveAttempt ==
    /\ call = "move"
    /\ IF grabWindow = target THEN Done(TRUE) /\ UNCHANGED <<seat, grabWindow>>
       ELSE \/ /\ Granted(Released(seat), target)
               /\ seat' = target /\ grabWindow' = target /\ Done(TRUE)
            \/ /\ grabWindow # None /\ Granted(Released(seat), target)
               /\ seat' = target /\ grabWindow' = target
               /\ old' = grabWindow /\ UNCHANGED <<call, target, attempt, focused, result, taken>>
            \/ /\ seat' = Released(seat) /\ grabWindow' = None
               /\ old' = grabWindow /\ UNCHANGED <<call, target, attempt, focused, result, taken>>
    /\ UNCHANGED exists

(* gf_grab_release                                                            *)
Release ==
    /\ call = "none"
    /\ seat' = Released(seat) /\ grabWindow' = None /\ taken' = None
    /\ UNCHANGED <<exists, running, result>>

(* A window goes: the weak pointer is cleared, the server ends its grab.      *)
Goes ==
    /\ call = "none"
    /\ \E w \in exists :
          /\ exists' = exists \ {w}
          /\ seat' = IF seat = w THEN None ELSE seat
          /\ grabWindow' = IF grabWindow = w THEN None ELSE grabWindow
          /\ taken' = IF taken = w THEN None ELSE taken
    /\ UNCHANGED <<running, result>>

OtherTakes == seat = None /\ seat' = Other /\ UNCHANGED <<grabWindow, exists, running, result, taken>>
OtherReleases == seat = Other /\ seat' = None /\ UNCHANGED <<grabWindow, exists, running, result, taken>>

Init ==
    /\ seat \in {None, Other} /\ grabWindow = None /\ exists = Windows
    /\ call = "none" /\ target = None /\ old = None /\ attempt = 0 /\ focused = FALSE
    /\ result = FALSE /\ taken = None

Next ==
    \/ Take \/ TakeAttempt \/ Move \/ MoveAttempt \/ Release \/ Goes \/ OtherTakes \/ OtherReleases
Spec == Init /\ [][Next]_vars

(* ---------------------------------------------------------- properties ---- *)
TypeOK ==
    /\ seat \in Windows \cup {None, Other} /\ grabWindow \in Windows \cup {None}
    /\ exists \subseteq Windows /\ call \in {"none", "take", "move"}
    /\ target \in Windows \cup {None} /\ old \in Windows \cup {None}
    /\ attempt \in 0..Retries /\ focused \in BOOLEAN /\ result \in BOOLEAN
    /\ taken \in Windows \cup {None}

(* The seat is where the program believes it is, at every moment another      *)
(* program can look; and it stays with the window the last call took it for   *)
(* until it is released, moved or that window goes.                           *)
SeatIsKnown ==
    /\ grabWindow # None <=> seat \in Windows
    /\ grabWindow # None => seat = grabWindow
    /\ call = "none" /\ taken # None => seat = taken

(* While a call takes the seat, it stays with the window it was taken for; a  *)
(* move may leave it with nobody, but then the move is not over.              *)
SeatInv ==
    /\ TypeOK /\ SeatIsKnown
    /\ call = "take" /\ taken # None => seat = taken
    /\ call # "none" => target \in Windows
=============================================================================
