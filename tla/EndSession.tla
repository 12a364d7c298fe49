----------------------------- MODULE EndSession -----------------------------
(* The dialog the session manager opens before it ends the session: it lists  *)
(* the programs that inhibit, asks for each of them over the bus, and counts  *)
(* down to the action only while none is listed. A window that closes is      *)
(* destroyed later, by an event of its own.                                   *)
EXTENDS Integers, FiniteSets, TLAPS

CONSTANTS
    Types, Inhibitors, None,
    MaxSeconds, MaxDialogs, MaxOpens   \* bounds

VARIABLES
    dialogs,   \* GfInhibitDialog, in the order they were made
    dialog,    \* GfEndSessionDialog.dialog, 0 for none
    opens,     \* how often Open was called
    heard      \* what the session manager heard last
vars == <<dialogs, dialog, opens, heard>>

Unused == [state |-> "unused", action |-> None, timeout |-> 0, timer |-> FALSE,
           pending |-> {}, list |-> {}, failed |-> FALSE]
Ids == 1..MaxDialogs
IsUp(d) == dialogs[d].state \in {"open", "closing"}

(* An inhibitor and the call of Open that named it                            *)
Named(paths) == {<<i, opens + 1>> : i \in paths}

(* Once it runs it goes on.                                                   *)
UpdateTextStarting(r) == [r EXCEPT !.timer = r.timer \/ r.list = {}, !.failed = FALSE]
(* update_dialog_text: what it says, and whether the clock runs               *)
UpdateText(r) == [r EXCEPT !.timer = r.list = {}, !.failed = FALSE]

(* gf_inhibit_dialog_set_inhibitor_paths, of a dialog that is up: the list is *)
(* made anew, the answers that are due for the old one still come. The clock  *)
(* waits for the first answer, unless no program is named.                    *)
SetPaths(r, paths) ==
    LET cleared == [r EXCEPT !.list = {}]
    IN IF paths = {} THEN UpdateText(cleared)
       ELSE [cleared EXCEPT !.pending = @ \cup Named(paths)]

(* gf_inhibit_dialog_new                                                      *)
New(type, seconds, paths) ==
    UpdateText([Unused EXCEPT !.state = "open", !.action = type, !.timeout = seconds,
                              !.pending = Named(paths)])

(* handle_open: a dialog that is up is presented again, with the new list.    *)
Open ==
    /\ opens < MaxOpens /\ opens' = opens + 1
    /\ \E type \in Types, seconds \in 0..MaxSeconds, paths \in SUBSET Inhibitors :
          /\ IF dialog # 0
             THEN /\ dialogs' = [dialogs EXCEPT ![dialog] = SetPaths(@, paths)]
                  /\ UNCHANGED dialog
             ELSE \E d \in Ids :
                     /\ dialogs[d].state = "unused" /\ \A e \in 1..(d - 1) : dialogs[e].state # "unused"
                     /\ dialogs' = [dialogs EXCEPT ![d] = New(type, seconds, paths)]
                     /\ dialog' = d
    /\ heard' = "opened"

(* add_inhibitor                                                              *)
Listed(r, p) == UpdateText([r EXCEPT !.pending = r.pending \ {p}, !.list = r.list \cup {p}])
InhibitorCreated ==
    /\ \E d \in Ids : IsUp(d) /\ \E p \in dialogs[d].pending :
          dialogs' = [dialogs EXCEPT ![d] = Listed(dialogs[d], p)]
    /\ UNCHANGED <<dialog, opens, heard>>

(* on_inhibitor_created with an error, add_inhibitor without an application:  *)
(* neither lists the program nor looks at the clock.                          *)
AnswerFails ==
    /\ \E d \in Ids : IsUp(d) /\ \E p \in dialogs[d].pending :
          dialogs' = [dialogs EXCEPT ![d].pending = @ \ {p}, ![d].failed = TRUE]
    /\ UNCHANGED <<dialog, opens, heard>>

(* The program dies, and is started again.                                    *)
Dies ==
    /\ dialogs' = [d \in Ids |-> IF dialogs[d].state = "unused" THEN Unused ELSE [Unused EXCEPT !.state = "gone"]]
    /\ dialog' = 0 /\ UNCHANGED <<opens, heard>>

(* on_inhibitor_created for a dialog that was freed, since nothing cancels    *)
(* the call: it fails and returns; or it finds the empty list dispose left    *)
(* behind and starts a clock; or a younger dialog in the same memory, which   *)
(* lists the program; or the program dies.                                    *)
LateAnswer ==
    \E d \in Ids : dialogs[d].state = "gone" /\ \E p \in dialogs[d].pending :
        LET answered == [dialogs EXCEPT ![d].pending = @ \ {p}]
        IN \/ dialogs' = answered /\ UNCHANGED <<dialog, opens, heard>>
           \/ dialogs' = [answered EXCEPT ![d].timer = TRUE] /\ UNCHANGED <<dialog, opens, heard>>
           \/ \E e \in Ids : /\ e > d /\ IsUp(e) /\ UNCHANGED <<dialog, opens, heard>>
                             /\ dialogs' = [answered EXCEPT ![e] = Listed(@, p)]
           \/ Dies

(* inhibit_dialog_response: an answer, and the window begins to close.        *)
Respond(d, r, accept) ==
    /\ heard' = IF accept THEN r.action ELSE heard
    /\ dialogs' = [dialogs EXCEPT ![d] = [r EXCEPT !.state = "closing"]]

(* gf_inhibit_dialog_timeout                                                  *)
LessTime(r) == [UpdateText(r) EXCEPT !.timeout = r.timeout - 1]
Tick ==
    /\ \E d \in Ids : IsUp(d) /\ dialogs[d].timer /\
          IF dialogs[d].timeout = 0 THEN Respond(d, [dialogs[d] EXCEPT !.timer = FALSE], TRUE)
          ELSE /\ dialogs' = [dialogs EXCEPT ![d] = LessTime(dialogs[d])]
               /\ UNCHANGED heard
    /\ UNCHANGED <<dialog, opens>>

(* The clock a late answer started on a freed dialog: nobody is connected to  *)
(* its response; or the program dies.                                         *)
LateTick ==
    \E d \in Ids : /\ dialogs[d].state = "gone" /\ dialogs[d].timer
                   /\ \/ /\ UNCHANGED <<dialog, opens, heard>>
                         /\ dialogs' = IF dialogs[d].timeout = 0 THEN [dialogs EXCEPT ![d].timer = FALSE]
                                       ELSE [dialogs EXCEPT ![d].timeout = @ - 1]
                      \/ Dies

(* accept_button_clicked, cancel_button_clicked                               *)
Click ==
    /\ \E d \in Ids, accept \in BOOLEAN : IsUp(d) /\ Respond(d, dialogs[d], accept)
    /\ UNCHANGED <<dialog, opens>>

(* lock_screen_button_clicked: the window closes, the lock is asked for.      *)
LockScreen ==
    /\ \E d \in Ids : IsUp(d) /\ dialogs' = [dialogs EXCEPT ![d].state = "closing"]
    /\ UNCHANGED <<dialog, opens, heard>>

(* inhibit_dialog_close and closed: the session manager is told, and no       *)
(* dialog is known, whichever one it was.                                     *)
Closed == heard' = "closed" /\ dialog' = 0

(* The signal "close" of the key Escape: told now, and again when the window  *)
(* is destroyed.                                                              *)
Escape ==
    /\ \E d \in Ids : IsUp(d) /\ dialogs' = [dialogs EXCEPT ![d].state = "closing"]
    /\ Closed
    /\ UNCHANGED opens

(* The event of a window that closes, by itself or by the window manager: it  *)
(* is destroyed; dispose stops the clock and frees the list. What was asked   *)
(* of the bus is still to be answered.                                        *)
Delete(d) ==
    /\ IsUp(d) /\ dialogs' = [dialogs EXCEPT ![d] = [@ EXCEPT !.state = "gone", !.timer = FALSE, !.list = {}]]
    /\ Closed
    /\ UNCHANGED opens
DeleteEvent == \E d \in Ids : Delete(d)

(* -------------------------------------------------------------- system ---- *)
Init ==
    /\ dialogs = [d \in Ids |-> Unused] /\ dialog = 0
    /\ opens = 0 /\ heard = "nothing"

Next ==
    \/ Open \/ InhibitorCreated \/ AnswerFails \/ LateAnswer \/ Tick \/ LateTick
    \/ Click \/ LockScreen \/ Escape \/ DeleteEvent

(* The clock ticks, the calls to the bus are answered or fail, and a window   *)
(* that closes is destroyed.                                                  *)
Answer == InhibitorCreated \/ AnswerFails
Fairness == WF_vars(Tick) /\ WF_vars(Answer)
            /\ \A d \in Ids : WF_vars(dialogs[d].state = "closing" /\ Delete(d))
Spec == Init /\ [][Next]_vars /\ Fairness

(* ---------------------------------------------------------- properties ---- *)
Dialog == [state : {"unused", "open", "closing", "gone"}, action : Types \cup {None},
           timeout : 0..MaxSeconds, timer : BOOLEAN,
           pending : SUBSET (Inhibitors \X (1..MaxOpens)), list : SUBSET (Inhibitors \X (1..MaxOpens)),
           failed : BOOLEAN]
TypeOK ==
    /\ dialogs \in [Ids -> Dialog] /\ dialog \in {0} \cup Ids /\ opens \in 0..MaxOpens
    /\ heard \in Types \cup {"nothing", "opened", "closed"}

(* The countdown of a dialog stops while a program is listed. It runs when    *)
(* none is and none is still to come, unless asking for one failed since the  *)
(* text was last updated: the list of the last call was then cleared with the *)
(* clock at rest, and nothing starts it again. A dialog the service knows of  *)
(* is up, so that the next call never presents a window that is gone.         *)
CountsWhenFree ==
    /\ \A d \in Ids : dialogs[d].state = "open" =>
          /\ dialogs[d].list # {} => ~dialogs[d].timer
          /\ dialogs[d].list = {} /\ dialogs[d].pending = {} /\ ~dialogs[d].failed => dialogs[d].timer
    /\ dialog # 0 => IsUp(dialog)

(* A session nobody inhibits ends: a dialog without inhibitors is answered by *)
(* its clock when the user does not, unless asking for one failed and left    *)
(* the clock at rest.                                                         *)
Free(d) == dialogs[d].state = "open" /\ dialogs[d].list = {}
Stuck(d) == dialogs[d].failed /\ ~dialogs[d].timer
GoneOrListed(d) == dialogs[d].state = "gone" \/ dialogs[d].list # {} \/ Stuck(d)

(* -------------------------------------------------------------- proofs ---- *)
Bounds == MaxSeconds \in Nat /\ MaxDialogs \in Nat /\ MaxOpens \in Nat

(* What a dialog may be after any change of its list or its clock.            *)
Counts(r) ==
    r.state = "open" => /\ r.list # {} => ~r.timer
                        /\ r.list = {} /\ r.pending = {} /\ ~r.failed => r.timer
Up(r) == r.state \in {"open", "closing"}
EndInv ==
    /\ TypeOK
    /\ \A d \in Ids : Counts(dialogs[d]) /\ (Up(dialogs[d]) => dialogs[d].action \in Types)
    /\ dialog # 0 => Up(dialogs[dialog])

LEMMA UpdateTextCounts ==
    ASSUME NEW r \in Dialog
    PROVE  UpdateText(r) \in Dialog /\ Counts(UpdateText(r))
<1>1. UpdateText(r) \in Dialog
  BY DEF UpdateText, Dialog
<1>2. UpdateText(r).timer = (r.list = {}) /\ UpdateText(r).list = r.list
  BY DEF UpdateText, Dialog
<1>3. CASE r.list = {}
  <2>1. UpdateText(r).timer
    BY <1>2, <1>3
  <2> QED BY <2>1, <1>1, <1>2, <1>3 DEF Counts
<1>4. CASE r.list # {}
  <2>1. ~UpdateText(r).timer
    BY <1>2, <1>4
  <2> QED BY <2>1, <1>1, <1>2, <1>4 DEF Counts
<1> QED BY <1>3, <1>4

LEMMA NamedTyped ==
    ASSUME Bounds, TypeOK, opens < MaxOpens, NEW paths \in SUBSET Inhibitors
    PROVE  /\ Named(paths) \in SUBSET (Inhibitors \X (1..MaxOpens))
           /\ paths # {} => Named(paths) # {}
<1>1. opens + 1 \in 1..MaxOpens
  BY DEF Bounds, TypeOK
<1>2. \A i \in paths : <<i, opens + 1>> \in Inhibitors \X (1..MaxOpens)
  BY <1>1
<1>3. \A i \in paths : <<i, opens + 1>> \in Named(paths)
  BY DEF Named
<1>4. Named(paths) \in SUBSET (Inhibitors \X (1..MaxOpens))
  BY <1>2 DEF Named
<1> QED BY <1>3, <1>4

LEMMA SetPathsCounts ==
    ASSUME Bounds, TypeOK, opens < MaxOpens, NEW paths \in SUBSET Inhibitors, NEW r \in Dialog
    PROVE  /\ SetPaths(r, paths) \in Dialog /\ Counts(SetPaths(r, paths))
           /\ SetPaths(r, paths).state = r.state /\ SetPaths(r, paths).action = r.action
<1> DEFINE cleared == [r EXCEPT !.list = {}]
<1>1. cleared \in Dialog /\ cleared.state = r.state /\ cleared.list = {} /\ cleared.action = r.action
  BY DEF Dialog
<1>2. CASE paths = {}
  <2>1. SetPaths(r, paths) = UpdateText(cleared)
    BY <1>2 DEF SetPaths
  <2>2. UpdateText(cleared).state = cleared.state /\ UpdateText(cleared).action = cleared.action
    BY <1>1 DEF UpdateText, Dialog
  <2> QED BY <2>1, <2>2, <1>1, UpdateTextCounts
<1>3. CASE paths # {}
  <2>1. SetPaths(r, paths) = [cleared EXCEPT !.pending = cleared.pending \cup Named(paths)]
    BY <1>3 DEF SetPaths
  <2>2. SetPaths(r, paths) \in Dialog
    BY <2>1, <1>1, NamedTyped, ZenonT(60) DEF Dialog
  <2>3. /\ SetPaths(r, paths).state = r.state /\ SetPaths(r, paths).list = {} /\ SetPaths(r, paths).action = r.action
        /\ SetPaths(r, paths).pending # {}
    BY <2>1, <1>1, <1>3, NamedTyped DEF Dialog
  <2> QED BY <2>2, <2>3 DEF Counts
<1> QED BY <1>2, <1>3

LEMMA NewCounts ==
    ASSUME Bounds, TypeOK, opens < MaxOpens,
           NEW type \in Types, NEW seconds \in 0..MaxSeconds, NEW paths \in SUBSET Inhibitors
    PROVE  LET r == New(type, seconds, paths) IN r \in Dialog /\ Counts(r) /\ Up(r) /\ r.action = type
<1> DEFINE r == [Unused EXCEPT !.state = "open", !.action = type, !.timeout = seconds,
                               !.pending = Named(paths)]
<1>1. r \in Dialog /\ r.state = "open" /\ r.action = type
  BY NamedTyped DEF Unused, Dialog, Bounds
<1>2. UpdateText(r).state = "open" /\ UpdateText(r).action = type
  BY <1>1 DEF UpdateText, Dialog
<1>3. New(type, seconds, paths) = UpdateText(r)
  BY DEF New
<1> QED BY <1>1, <1>2, <1>3, UpdateTextCounts DEF Up

(* A step replaces one dialog by one that counts; the dialog the service      *)
(* knows of afterwards is up.                                                 *)
LEMMA Replaced ==
    ASSUME EndInv, NEW d \in Ids, NEW r \in Dialog, Counts(r),
           dialogs' = [dialogs EXCEPT ![d] = r],
           dialog' \in {0, d, dialog}, dialog' = d => Up(r), Up(r) => r.action \in Types,
           opens' \in 0..MaxOpens, heard' \in Types \cup {"nothing", "opened", "closed"}
    PROVE  EndInv'
<1>1. dialogs' \in [Ids -> Dialog]
  BY DEF EndInv, TypeOK
<1>2. ASSUME NEW e \in Ids PROVE Counts(dialogs'[e]) /\ (Up(dialogs'[e]) => dialogs'[e].action \in Types)
  BY DEF EndInv, TypeOK
<1>3. dialog' # 0 => Up(dialogs'[dialog'])
  BY DEF EndInv, TypeOK
<1>4. dialog' \in {0} \cup Ids
  BY DEF EndInv, TypeOK
<1> QED BY <1>1, <1>2, <1>3, <1>4 DEF EndInv, TypeOK

(* A dialog that lists one more program counts: its clock stands.             *)
LEMMA ListedCounts ==
    ASSUME NEW r \in Dialog, NEW p \in Inhibitors \X (1..MaxOpens)
    PROVE  /\ Listed(r, p) \in Dialog /\ Counts(Listed(r, p))
           /\ Listed(r, p).state = r.state /\ Listed(r, p).action = r.action
<1> DEFINE new == [r EXCEPT !.pending = r.pending \ {p}, !.list = r.list \cup {p}]
<1>1. /\ r.pending \ {p} \in SUBSET (Inhibitors \X (1..MaxOpens))
      /\ r.list \cup {p} \in SUBSET (Inhibitors \X (1..MaxOpens))
  BY DEF Dialog
<1>2. new \in Dialog /\ new.state = r.state /\ new.action = r.action
  BY <1>1, ZenonT(60) DEF Dialog
<1>3. Listed(r, p) = UpdateText(new)
  BY DEF Listed
<1>4. UpdateText(new).state = new.state /\ UpdateText(new).action = new.action
  BY <1>2 DEF UpdateText, Dialog
<1> HIDE DEF new
<1> QED BY <1>2, <1>3, <1>4, UpdateTextCounts

(* When the program dies no dialog is up any more.                            *)
LEMMA DiesKeeps == ASSUME Bounds, EndInv, Dies PROVE EndInv'
<1>1. Unused \in Dialog /\ Unused.state = "unused"
  BY DEF Bounds, Unused, Dialog
<1> DEFINE lost == [Unused EXCEPT !.state = "gone"]
<1>2. lost \in Dialog /\ lost.state = "gone"
  <2> DEFINE u == Unused
  <2>1. u \in Dialog BY <1>1
  <2> HIDE DEF u
  <2>2. [u EXCEPT !.state = "gone"] \in Dialog /\ [u EXCEPT !.state = "gone"].state = "gone"
    BY <2>1 DEF Dialog
  <2> QED BY <2>2 DEF u
<1>3. \A d \in Ids : dialogs'[d] \in {Unused, lost}
  BY DEF Dies
<1> HIDE DEF lost
<1>4. dialogs' \in [Ids -> Dialog]
  BY <1>1, <1>2, <1>3 DEF Dies
<1>5. \A d \in Ids : Counts(dialogs'[d]) /\ ~Up(dialogs'[d])
  BY <1>1, <1>2, <1>3 DEF Counts, Up
<1> QED BY <1>4, <1>5 DEF Dies, EndInv, TypeOK

LEMMA EndStep == ASSUME Bounds, EndInv, [Next]_vars PROVE EndInv'
<1> USE DEF Bounds
<1>0. TypeOK /\ opens \in 0..MaxOpens /\ \A d \in Ids : dialogs[d] \in Dialog
  BY DEF EndInv, TypeOK
<1>1. CASE Open
  <2>1. PICK type \in Types, seconds \in 0..MaxSeconds, paths \in SUBSET Inhibitors :
          IF dialog # 0
          THEN dialogs' = [dialogs EXCEPT ![dialog] = SetPaths(dialogs[dialog], paths)] /\ UNCHANGED dialog
          ELSE \E d \in Ids : dialogs' = [dialogs EXCEPT ![d] = New(type, seconds, paths)] /\ dialog' = d
    BY <1>1 DEF Open
  <2>2. opens < MaxOpens /\ opens' \in 0..MaxOpens /\ heard' = "opened"
    BY <1>0, <1>1 DEF Open
  <2>3. CASE dialog # 0
    <3>1. dialog \in Ids /\ Up(dialogs[dialog]) /\ dialogs[dialog].action \in Types
      BY <2>3 DEF EndInv, TypeOK
    <3>2. /\ SetPaths(dialogs[dialog], paths) \in Dialog /\ Counts(SetPaths(dialogs[dialog], paths))
          /\ Up(SetPaths(dialogs[dialog], paths)) /\ SetPaths(dialogs[dialog], paths).action \in Types
      BY <1>0, <2>2, <3>1, SetPathsCounts DEF Up
    <3> QED BY <2>1, <2>2, <2>3, <3>1, <3>2, Replaced
  <2>4. CASE dialog = 0
    <3>1. PICK d \in Ids : dialogs' = [dialogs EXCEPT ![d] = New(type, seconds, paths)] /\ dialog' = d
      BY <2>1, <2>4
    <3>2. LET r == New(type, seconds, paths) IN r \in Dialog /\ Counts(r) /\ Up(r) /\ r.action = type
      BY <1>0, <2>2, NewCounts
    <3> QED BY <2>2, <3>1, <3>2, Replaced
  <2> QED BY <2>3, <2>4
<1>2. CASE InhibitorCreated
  <2>1. PICK d \in Ids : IsUp(d) /\ \E p \in dialogs[d].pending :
          dialogs' = [dialogs EXCEPT ![d] = Listed(dialogs[d], p)]
    BY <1>2 DEF InhibitorCreated
  <2>2. PICK p \in dialogs[d].pending : dialogs' = [dialogs EXCEPT ![d] = Listed(dialogs[d], p)]
    BY <2>1
  <2>3. p \in Inhibitors \X (1..MaxOpens)
    BY <1>0 DEF Dialog
  <2>4. Listed(dialogs[d], p) \in Dialog /\ Counts(Listed(dialogs[d], p))
    BY <1>0, <2>3, ListedCounts
  <2>5. Up(Listed(dialogs[d], p)) /\ Listed(dialogs[d], p).action \in Types
    BY <1>0, <2>1, <2>3, ListedCounts DEF IsUp, Up, EndInv
  <2>6. UNCHANGED <<dialog, opens, heard>> /\ heard \in Types \cup {"nothing", "opened", "closed"}
    BY <1>0, <1>2 DEF InhibitorCreated, TypeOK
  <2> QED BY <1>0, <2>2, <2>4, <2>5, <2>6, Replaced
<1>12. CASE AnswerFails
  <2>1. PICK d \in Ids : IsUp(d) /\ \E p \in dialogs[d].pending :
          dialogs' = [dialogs EXCEPT ![d].pending = dialogs[d].pending \ {p}, ![d].failed = TRUE]
    BY <1>12 DEF AnswerFails
  <2>2. PICK p \in dialogs[d].pending :
          dialogs' = [dialogs EXCEPT ![d].pending = dialogs[d].pending \ {p}, ![d].failed = TRUE]
    BY <2>1
  <2> DEFINE r == [dialogs[d] EXCEPT !.pending = dialogs[d].pending \ {p}, !.failed = TRUE]
  <2>3. dialogs[d].pending \ {p} \in SUBSET (Inhibitors \X (1..MaxOpens))
    BY <1>0 DEF Dialog
  <2>4. r \in Dialog /\ r.state = dialogs[d].state /\ r.action = dialogs[d].action
    BY <1>0, <2>3, ZenonT(60) DEF Dialog
  <2>5. r.list = dialogs[d].list /\ r.timer = dialogs[d].timer /\ r.failed = TRUE
    BY <1>0 DEF Dialog
  <2>6. dialogs' = [dialogs EXCEPT ![d] = r]
    BY <1>0, <2>2 DEF Dialog, TypeOK
  <2> HIDE DEF r
  <2>7. Counts(r) /\ Up(r) /\ r.action \in Types
    BY <2>1, <2>4, <2>5 DEF EndInv, Counts, IsUp, Up
  <2>8. UNCHANGED <<dialog, opens, heard>> /\ heard \in Types \cup {"nothing", "opened", "closed"}
    BY <1>0, <1>12 DEF AnswerFails, TypeOK
  <2> QED BY <1>0, <2>4, <2>6, <2>7, <2>8, Replaced
<1>13. ASSUME NEW d \in Ids, dialogs[d].state = "gone", NEW r \in Dialog, r.state = "gone",
              dialogs' = [dialogs EXCEPT ![d] = r], UNCHANGED <<dialog, opens, heard>>
       PROVE  EndInv'
  <2>1. Counts(r) /\ ~Up(r) /\ dialog' # d
    BY <1>13 DEF Counts, Up, EndInv, Ids
  <2>2. heard \in Types \cup {"nothing", "opened", "closed"}
    BY <1>0 DEF TypeOK
  <2> QED BY <1>0, <1>13, <2>1, <2>2, Replaced
<1>14. CASE LateAnswer
  <2>1. PICK d \in Ids : dialogs[d].state = "gone" /\ \E p \in dialogs[d].pending :
          LET answered == [dialogs EXCEPT ![d].pending = dialogs[d].pending \ {p}]
          IN \/ dialogs' = answered /\ UNCHANGED <<dialog, opens, heard>>
             \/ dialogs' = [answered EXCEPT ![d].timer = TRUE] /\ UNCHANGED <<dialog, opens, heard>>
             \/ \E e \in Ids : /\ e > d /\ IsUp(e) /\ UNCHANGED <<dialog, opens, heard>>
                               /\ dialogs' = [answered EXCEPT ![e] = Listed(answered[e], p)]
             \/ Dies
    BY <1>14 DEF LateAnswer
  <2>2. PICK p \in dialogs[d].pending :
          LET answered == [dialogs EXCEPT ![d].pending = dialogs[d].pending \ {p}]
          IN \/ dialogs' = answered /\ UNCHANGED <<dialog, opens, heard>>
             \/ dialogs' = [answered EXCEPT ![d].timer = TRUE] /\ UNCHANGED <<dialog, opens, heard>>
             \/ \E e \in Ids : /\ e > d /\ IsUp(e) /\ UNCHANGED <<dialog, opens, heard>>
                               /\ dialogs' = [answered EXCEPT ![e] = Listed(answered[e], p)]
             \/ Dies
    BY <2>1
  <2> DEFINE r == [dialogs[d] EXCEPT !.pending = dialogs[d].pending \ {p}]
             answered == [dialogs EXCEPT ![d] = r]
  <2>3. /\ p \in Inhibitors \X (1..MaxOpens)
        /\ dialogs[d].pending \ {p} \in SUBSET (Inhibitors \X (1..MaxOpens))
    BY <1>0 DEF Dialog
  <2>4. r \in Dialog /\ r.state = "gone"
    BY <1>0, <2>1, <2>3, ZenonT(60) DEF Dialog
  <2>5. [dialogs EXCEPT ![d].pending = dialogs[d].pending \ {p}] = answered /\ answered \in [Ids -> Dialog]
        /\ answered[d] = r /\ \A e \in Ids \ {d} : answered[e] = dialogs[e]
    BY <1>0, <2>4 DEF TypeOK
  <2> HIDE DEF r
  <2>6. CASE dialogs' = answered /\ UNCHANGED <<dialog, opens, heard>>
    BY <1>13, <2>1, <2>4, <2>6
  <2>7. CASE dialogs' = [answered EXCEPT ![d].timer = TRUE] /\ UNCHANGED <<dialog, opens, heard>>
    <3> DEFINE t == [r EXCEPT !.timer = TRUE]
    <3>1. t \in Dialog /\ t.state = "gone"
      BY <2>4 DEF Dialog
    <3>2. dialogs' = [dialogs EXCEPT ![d] = t]
      BY <1>0, <2>7 DEF TypeOK
    <3> HIDE DEF t
    <3> QED BY <1>13, <2>1, <2>7, <3>1, <3>2
  <2>8. ASSUME NEW e \in Ids, e > d, IsUp(e), UNCHANGED <<dialog, opens, heard>>,
               dialogs' = [answered EXCEPT ![e] = Listed(answered[e], p)]
        PROVE  EndInv'
    <3>1. e # d /\ answered[e] = dialogs[e] /\ dialogs[e] \in Dialog
      BY <1>0, <2>5, <2>8 DEF Ids
    <3>2. /\ Listed(dialogs[e], p) \in Dialog /\ Counts(Listed(dialogs[e], p))
          /\ Listed(dialogs[e], p).state = dialogs[e].state /\ Listed(dialogs[e], p).action = dialogs[e].action
      BY <2>3, <3>1, ListedCounts
    <3>3. /\ dialogs' \in [Ids -> Dialog] /\ dialogs'[e] = Listed(dialogs[e], p) /\ dialogs'[d] = r
          /\ \A f \in Ids \ {d, e} : dialogs'[f] = dialogs[f]
      BY <2>5, <2>8, <3>1, <3>2
    <3>4. Counts(r) /\ ~Up(r) /\ ~Up(dialogs[d])
      BY <2>1, <2>4 DEF Counts, Up
    <3>5. Up(dialogs[e]) /\ Up(dialogs'[e])
      BY <2>8, <3>2, <3>3 DEF IsUp, Up
    <3>6. ASSUME NEW f \in Ids PROVE Counts(dialogs'[f]) /\ (Up(dialogs'[f]) => dialogs'[f].action \in Types)
      BY <3>2, <3>3, <3>4, <3>5 DEF EndInv
    <3>7. dialog' # 0 => Up(dialogs'[dialog'])
      <4>1. CASE dialog \in Ids \ {d, e}
        BY <2>8, <3>3, <4>1 DEF EndInv
      <4>2. CASE dialog = e
        BY <2>8, <3>5, <4>2
      <4>3. CASE dialog = d /\ dialog # 0
        BY <3>4, <4>3 DEF EndInv
      <4>4. CASE dialog = 0
        BY <2>8, <4>4
      <4> QED BY <1>0, <4>1, <4>2, <4>3, <4>4 DEF TypeOK
    <3> QED BY <1>0, <2>8, <3>3, <3>6, <3>7 DEF EndInv, TypeOK
  <2>9. CASE Dies
    BY <2>9, DiesKeeps
  <2> HIDE DEF answered
  <2> QED BY <2>2, <2>5, <2>6, <2>7, <2>8, <2>9
<1>15. CASE LateTick
  <2>1. PICK d \in Ids : /\ dialogs[d].state = "gone" /\ dialogs[d].timer
                         /\ \/ /\ UNCHANGED <<dialog, opens, heard>>
                               /\ dialogs' = IF dialogs[d].timeout = 0 THEN [dialogs EXCEPT ![d].timer = FALSE]
                                             ELSE [dialogs EXCEPT ![d].timeout = dialogs[d].timeout - 1]
                            \/ Dies
    BY <1>15 DEF LateTick
  <2>2. CASE Dies
    BY <2>2, DiesKeeps
  <2>3. CASE UNCHANGED <<dialog, opens, heard>> /\ dialogs' = [dialogs EXCEPT ![d].timer = FALSE]
    <3> DEFINE t == [dialogs[d] EXCEPT !.timer = FALSE]
    <3>1. t \in Dialog /\ t.state = "gone"
      BY <1>0, <2>1 DEF Dialog
    <3>2. dialogs' = [dialogs EXCEPT ![d] = t]
      BY <1>0, <2>3 DEF TypeOK
    <3> HIDE DEF t
    <3> QED BY <1>13, <2>1, <2>3, <3>1, <3>2
  <2>4. CASE /\ UNCHANGED <<dialog, opens, heard>> /\ dialogs[d].timeout # 0
             /\ dialogs' = [dialogs EXCEPT ![d].timeout = dialogs[d].timeout - 1]
    <3> DEFINE t == [dialogs[d] EXCEPT !.timeout = dialogs[d].timeout - 1]
    <3>0. dialogs[d].timeout - 1 \in 0..MaxSeconds
      BY <1>0, <2>4 DEF Dialog
    <3>1. t \in Dialog /\ t.state = "gone"
      BY <1>0, <2>1, <3>0 DEF Dialog
    <3>2. dialogs' = [dialogs EXCEPT ![d] = t]
      BY <1>0, <2>4 DEF TypeOK
    <3> HIDE DEF t
    <3> QED BY <1>13, <2>1, <2>4, <3>1, <3>2
  <2> QED BY <2>1, <2>2, <2>3, <2>4
<1>3. ASSUME NEW d \in Ids, IsUp(d), NEW r \in Dialog, NEW accept \in BOOLEAN,
             r.action = dialogs[d].action, Respond(d, r, accept), UNCHANGED <<dialog, opens>>
      PROVE  EndInv'
  <2> DEFINE new == [r EXCEPT !.state = "closing"]
  <2>1. new \in Dialog /\ Counts(new) /\ Up(new) /\ new.action = r.action
    BY DEF Dialog, Counts, Up
  <2>2. r.action \in Types
    BY <1>3 DEF EndInv, IsUp, Up
  <2>3. dialogs' = [dialogs EXCEPT ![d] = new] /\ heard' \in Types \cup {"nothing", "opened", "closed"}
    BY <1>0, <1>3, <2>2 DEF Respond, TypeOK
  <2> QED BY <1>0, <1>3, <2>1, <2>2, <2>3, Replaced
<1>4. CASE Tick
  <2>1. PICK d \in Ids : IsUp(d) /\ dialogs[d].timer /\
          IF dialogs[d].timeout = 0 THEN Respond(d, [dialogs[d] EXCEPT !.timer = FALSE], TRUE)
          ELSE dialogs' = [dialogs EXCEPT ![d] = LessTime(dialogs[d])] /\ UNCHANGED heard
    BY <1>4 DEF Tick
  <2>2. UNCHANGED <<dialog, opens>>
    BY <1>4 DEF Tick
  <2>3. CASE dialogs[d].timeout = 0
    <3>1. [dialogs[d] EXCEPT !.timer = FALSE] \in Dialog /\ [dialogs[d] EXCEPT !.timer = FALSE].action = dialogs[d].action
      BY <1>0 DEF Dialog
    <3> QED BY <1>3, <2>1, <2>2, <2>3, <3>1
  <2>4. CASE dialogs[d].timeout # 0
    <3> DEFINE text == UpdateText(dialogs[d])
               new == [text EXCEPT !.timeout = dialogs[d].timeout - 1]
    <3>1. text \in Dialog /\ Counts(text)
      BY <1>0, UpdateTextCounts
    <3>2. text.state = dialogs[d].state /\ text.action = dialogs[d].action
      BY <1>0 DEF UpdateText, Dialog
    <3>3. dialogs[d].timeout - 1 \in 0..MaxSeconds
      BY <1>0, <2>4 DEF Dialog
    <3>4. /\ new \in Dialog /\ new.state = text.state /\ new.action = text.action
          /\ new.timer = text.timer /\ new.list = text.list /\ new.pending = text.pending
      <4> HIDE DEF text
      <4> QED BY <3>1, <3>3 DEF Dialog
    <3>5. Counts(new)
      BY <3>1, <3>4 DEF Counts
    <3>6. Up(new) /\ new.action \in Types
      BY <2>1, <3>2, <3>4 DEF EndInv, IsUp, Up
    <3>7. dialogs' = [dialogs EXCEPT ![d] = new] /\ heard' \in Types \cup {"nothing", "opened", "closed"}
      BY <1>0, <2>1, <2>4 DEF TypeOK, LessTime
    <3> HIDE DEF new
    <3> QED BY <1>0, <2>2, <3>4, <3>5, <3>6, <3>7, Replaced
  <2> QED BY <2>3, <2>4
<1>5. CASE Click
  BY <1>0, <1>3, <1>5 DEF Click
<1>6. ASSUME NEW d \in Ids, NEW r \in Dialog, r.state \in {"closing", "gone"}, r.state = "closing" => IsUp(d),
             r.action \in {dialogs[d].action, None}, r.state = "closing" => r.action = dialogs[d].action,
             dialogs' = [dialogs EXCEPT ![d] = r], dialog' = 0 \/ (dialog' = dialog /\ r.state = "closing"),
             opens' = opens, heard' \in {heard, "closed"}
      PROVE  EndInv'
  <2>1. Counts(r) /\ (Up(r) => r.action \in Types)
    BY <1>6 DEF Counts, Up, IsUp, EndInv
  <2>2. dialog' = d => Up(r)
    BY <1>6 DEF Up, Ids
  <2> QED BY <1>0, <1>6, <2>1, <2>2, Replaced DEF TypeOK
<1>7. ASSUME NEW d \in Ids
      PROVE  LET r == [dialogs[d] EXCEPT !.state = "closing"]
             IN r \in Dialog /\ r.state = "closing" /\ r.action = dialogs[d].action
  BY <1>0 DEF Dialog
<1>8. CASE LockScreen
  <2>1. PICK d \in Ids : IsUp(d) /\ dialogs' = [dialogs EXCEPT ![d].state = "closing"]
    BY <1>8 DEF LockScreen
  <2> QED BY <1>6, <1>7, <1>8, <2>1 DEF LockScreen
<1>9. CASE Escape
  <2>1. PICK d \in Ids : IsUp(d) /\ dialogs' = [dialogs EXCEPT ![d].state = "closing"]
    BY <1>9 DEF Escape
  <2> QED BY <1>6, <1>7, <1>9, <2>1 DEF Escape, Closed
<1>10. CASE DeleteEvent
  <2>1. PICK d \in Ids : Delete(d)
    BY <1>10 DEF DeleteEvent
  <2> DEFINE r == [dialogs[d] EXCEPT !.state = "gone", !.timer = FALSE, !.list = {}]
  <2>2. r \in Dialog /\ r.state = "gone" /\ r.action = dialogs[d].action
    BY <1>0 DEF Dialog
  <2>3. dialogs' = [dialogs EXCEPT ![d] = r] /\ dialog' = 0 /\ opens' = opens /\ heard' = "closed"
    BY <2>1 DEF Delete, Closed
  <2> HIDE DEF r
  <2> QED BY <1>6, <2>2, <2>3
<1>11. CASE UNCHANGED vars
  BY <1>11 DEF vars, EndInv, TypeOK, Counts, Up
<1> QED BY <1>1, <1>2, <1>4, <1>5, <1>8, <1>9, <1>10, <1>11, <1>12, <1>14, <1>15 DEF Next

(* However long the countdown, however many programs inhibit and however      *)
(* often Open is called: the clock of a dialog stands while a program is      *)
(* listed, and the dialog the service presents again is up.                   *)
THEOREM AlwaysCountsWhenFree == ASSUME Bounds PROVE Spec => [](TypeOK /\ CountsWhenFree)
<1>1. Init => EndInv
  BY DEF Init, EndInv, TypeOK, Unused, Dialog, Counts, Up, Bounds
<1>2. EndInv /\ [Next]_vars => EndInv'
  BY EndStep
<1>3. EndInv => TypeOK /\ CountsWhenFree
  BY DEF EndInv, CountsWhenFree, Counts, Up, IsUp
<1> QED BY <1>1, <1>2, <1>3, PTL DEF Spec
=============================================================================
