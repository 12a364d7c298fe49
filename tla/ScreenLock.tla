----------------------------- MODULE ScreenLock ------------------------------
(***************************************************************************)
(* What the screen lock promises, without windows, dialogs and objects: a  *)
(* screen that is off, shielded or locked, and the deactivations on their  *)
(* way to it, which accepted passwords (keys) or requests from before the  *)
(* lock (stale) have queued.  A lock is sealed if none was on its way when *)
(* it began.  Module Screensaver implements it.                            *)
(***************************************************************************)
EXTENDS Naturals

VARIABLES
    phase,    \* "off", "shielded" or "locked"
    sealed,   \* the lock began with nothing on its way
    keys,     \* accepted passwords on their way
    stale     \* other deactivations on their way

vars == <<phase, sealed, keys, stale>>

Init == phase = "off" /\ sealed = FALSE /\ keys = 0 /\ stale = 0

(* The screensaver is activated. *)
Shield ==
    /\ phase = "off"
    /\ phase' = "shielded"
    /\ UNCHANGED <<sealed, keys, stale>>

(* A call, a timer or a preference locks the screen.  A lock never turns   *)
(* back into a plain shield.                                               *)
Lock ==
    /\ phase \in {"off", "shielded"}
    /\ phase' = "locked"
    /\ sealed' \in BOOLEAN
    /\ sealed' => keys = 0 /\ stale = 0
    /\ UNCHANGED <<keys, stale>>

(* A password was accepted. *)
AcceptPassword ==
    /\ keys' = keys + 1
    /\ UNCHANGED <<phase, sealed, stale>>

(* Activity asked to end a shield.  Under a sealed lock it asks in vain.   *)
AskToEnd ==
    /\ ~sealed
    /\ stale' = stale + 1
    /\ UNCHANGED <<phase, sealed, keys>>

(* A deactivation arrives and ends whatever is there. *)
End ==
    /\ phase' = "off"
    /\ sealed' = FALSE
    /\ \/ keys > 0 /\ keys' = keys - 1 /\ UNCHANGED stale
       \/ stale > 0 /\ stale' = stale - 1 /\ UNCHANGED keys

(* The session or its login manager ends it by a call. *)
EndByCall ==
    /\ phase # "off"
    /\ phase' = "off"
    /\ sealed' = FALSE
    /\ UNCHANGED <<keys, stale>>

Next == Shield \/ Lock \/ AcceptPassword \/ AskToEnd \/ End \/ EndByCall

Spec == Init /\ [][Next]_vars
=============================================================================
