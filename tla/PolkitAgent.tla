----------------------------- MODULE PolkitAgent -----------------------------
(***************************************************************************)
(* The polkit agent daemon: FlashbackListener, which queues requests for   *)
(* authentication, FlashbackAuthenticator, which serves one at a time, and *)
(* its dialog.                                                             *)
(*                                                                         *)
(* do_initiate is one callback that runs main loops inside: gtk_main until *)
(* a user is chosen ("choosing"), its own loop while PAM talks ("talking"),*)
(* gtk_main inside that one while a password is asked for ("prompting"),   *)
(* and gtk_main_iteration while the dialog shakes ("shaking").  Other      *)
(* callbacks run inside them; a loop that was told to quit returns in a    *)
(* later step, because the iteration dispatches its other sources first.   *)
(* Input of the user is the first source of an iteration.                  *)
(***************************************************************************)
EXTENDS Integers, Sequences, SequencesExt

CONSTANTS
    Requests,     \* cookies of BeginAuthentication
    Users,        \* the users who may authenticate
    SpawnFails,   \* polkit_agent_session_initiate may complete at once
    None

VARIABLES
    authenticators,  \* listener->authenticators
    active,          \* listener->active
    auth,            \* the authenticator that is active, with its dialog
    wasCancelled,    \* authenticator->was_cancelled
    cancelled,       \* GCancellables that were cancelled
    reply            \* what the GTask of a request returned

vars == <<authenticators, active, auth, wasCancelled, cancelled, reply>>

Authenticators ==
    [pc : {"idle", "choosing", "talking", "prompting", "shaking"},
     user : Users \cup {None},              \* dialog->selected_user
     sessionUser : Users \cup {None},       \* identity of the session
     session : {"none", "live", "over"},
     gained : BOOLEAN, newUser : BOOLEAN, tries : 0 .. 3,
     response : {"ok", "cancel", "user"},
     innerQuit : BOOLEAN,                   \* gtk_main was told to quit
     outerQuit : BOOLEAN,                   \* authenticator->loop was told to quit
     closing : BOOLEAN]                     \* gtk_window_close has queued a delete-event

(* setup_users_combobox: the only user, or oneself if listed, is chosen    *)
New(user) ==
    [pc |-> "idle", user |-> user, sessionUser |-> None, session |-> "none",
     gained |-> FALSE, newUser |-> FALSE, tries |-> 0, response |-> "ok",
     innerQuit |-> FALSE, outerQuit |-> FALSE, closing |-> FALSE]

Preselected == IF \E u \in Users : Users = {u} THEN Users ELSE Users \cup {None}

IsRunning == auth.pc \in {"choosing", "prompting"}

-----------------------------------------------------------------------------
(* Operators: what the methods do to the active authenticator              *)

(* polkit_agent_session_cancel; its completed signal reaches               *)
(* session_completed before it returns                                     *)
CancelSession(a) ==
    IF a.session = "live"
    THEN [a EXCEPT !.session = "over", !.gained = FALSE, !.outerQuit = TRUE]
    ELSE a

(* flashback_polkit_dialog_cancel                                          *)
CancelDialog(a) ==
    IF a.pc \in {"choosing", "prompting"}
    THEN [a EXCEPT !.response = "cancel", !.innerQuit = TRUE]
    ELSE a

(* flashback_authenticator_cancel, but for was_cancelled                   *)
CancelAuth(a) == CancelSession(CancelDialog(a))

(* The turn of the loop in do_initiate that makes a session and runs the   *)
(* loop: g_main_loop_run forgets that the loop was told to quit            *)
StartSession(a) ==
    {[a EXCEPT !.pc = "talking", !.session = s, !.sessionUser = a.user,
               !.gained = IF s = "over" THEN FALSE ELSE @,
               !.innerQuit = FALSE, !.outerQuit = FALSE] :
        s \in {"live"} \cup (IF SpawnFails THEN {"over"} ELSE {})}

(* maybe_initiate_next_authenticator                                       *)
InitiateNext(queue, current) ==
    IF current = None /\ queue # <<>>
    THEN /\ active' = Head(queue)
         /\ \E u \in Preselected : auth' = New(u)
    ELSE active' = current /\ UNCHANGED auth

(* Mutant: the active authenticator is not forgotten.                      *)
CompletedActive(dismissed) ==
    /\ reply' = [reply EXCEPT ![active] = IF dismissed THEN "dismissed" ELSE "done"]
    /\ authenticators' = RemoveFirst(authenticators, active)
    /\ InitiateNext(authenticators', active)

(* "completed": completed_cb answers, and drops the authenticator          *)
Completed(dismissed) ==
    /\ reply' = [reply EXCEPT ![active] = IF active \in cancelled THEN "cancelled"
                                          ELSE IF dismissed THEN "dismissed" ELSE "done"]
    /\ authenticators' = RemoveFirst(authenticators, active)
    /\ InitiateNext(authenticators', None)

-----------------------------------------------------------------------------
(* Calls of polkitd                                                        *)

InitiateAuthentication(r) ==
    /\ reply[r] = "new"
    /\ \/ /\ reply' = [reply EXCEPT ![r] = "failed"]   \* no authority, no action
          /\ UNCHANGED <<authenticators, active, auth>>
       \/ /\ reply' = [reply EXCEPT ![r] = "waiting"]
          /\ authenticators' = Append(authenticators, r)
          /\ InitiateNext(authenticators', active)
    /\ UNCHANGED <<wasCancelled, cancelled>>

(* cancelled_cb, also for an authenticator that still waits                *)
CancelRequest(r) ==
    /\ reply[r] = "waiting" /\ r \notin cancelled
    /\ cancelled' = cancelled \cup {r}
    /\ wasCancelled' = wasCancelled \cup {r}
    /\ auth' = IF r = active THEN CancelAuth(auth) ELSE auth
    /\ UNCHANGED <<authenticators, active, reply>>

-----------------------------------------------------------------------------
(* do_initiate and its loops                                               *)

DoInitiate ==
    /\ active # None /\ auth.pc = "idle"
    /\ IF auth.user = None THEN auth' = [auth EXCEPT !.pc = "choosing"]
       ELSE auth' \in StartSession(auth)
    /\ UNCHANGED <<authenticators, active, wasCancelled, cancelled, reply>>

LeaveChoosing ==
    /\ active # None /\ auth.pc = "choosing" /\ auth.innerQuit
    /\ IF auth.response = "user"
       THEN /\ auth' \in StartSession(auth)
            /\ UNCHANGED <<authenticators, active, wasCancelled, reply>>
       ELSE /\ wasCancelled' = wasCancelled \cup {active}
            /\ Completed(TRUE)
    /\ UNCHANGED cancelled

(* session_request up to gtk_main                                          *)
SessionRequest ==
    /\ active # None /\ auth.pc = "talking" /\ auth.session = "live"
    /\ auth' = [auth EXCEPT !.pc = "prompting", !.newUser = FALSE, !.innerQuit = FALSE]
    /\ wasCancelled' = wasCancelled \ {active}
    /\ UNCHANGED <<authenticators, active, cancelled, reply>>

(* ... and from there on: a password, or the end of the session            *)
GivesPassword == auth.pc = "prompting" /\ auth.innerQuit /\ auth.response = "ok"

LeavePrompt ==
    /\ active # None /\ auth.pc = "prompting" /\ auth.innerQuit
    /\ LET back == [auth EXCEPT !.pc = "talking", !.innerQuit = FALSE] IN
       IF auth.response = "ok"
       THEN auth' = back /\ UNCHANGED wasCancelled
       ELSE /\ auth' = CancelAuth([back EXCEPT !.newUser = @ \/ auth.response = "user"])
            /\ wasCancelled' = wasCancelled \cup {active}
    /\ UNCHANGED <<authenticators, active, cancelled, reply>>

SessionCompleted(gained) ==
    /\ active # None /\ auth.pc \in {"talking", "prompting"} /\ auth.session = "live"
    /\ auth' = [auth EXCEPT !.session = "over", !.gained = gained, !.outerQuit = TRUE]
    /\ UNCHANGED <<authenticators, active, wasCancelled, cancelled, reply>>

(* g_main_loop_run returns: another user, another try, or the end          *)
LeaveLoop ==
    /\ active # None /\ auth.pc = "talking" /\ auth.outerQuit
    /\ IF auth.newUser
       THEN /\ auth' \in StartSession([auth EXCEPT !.newUser = FALSE])
            /\ UNCHANGED <<authenticators, active, reply>>
       ELSE IF ~auth.gained /\ active \notin wasCancelled
       THEN /\ auth' = [auth EXCEPT !.pc = "shaking", !.tries = @ + 1]
            /\ UNCHANGED <<authenticators, active, reply>>
       ELSE Completed(active \in wasCancelled)
    /\ UNCHANGED <<wasCancelled, cancelled>>

LeaveShaking ==
    /\ active # None /\ auth.pc = "shaking"
    /\ IF auth.tries < 3
       THEN /\ auth' \in StartSession(auth)
            /\ UNCHANGED <<authenticators, active, reply>>
       ELSE Completed(active \in wasCancelled)
    /\ UNCHANGED <<wasCancelled, cancelled>>

-----------------------------------------------------------------------------
(* The user, in front of the dialog                                        *)

MayClick ==
    /\ active # None /\ auth.pc # "idle"
    /\ IF IsRunning THEN ~auth.innerQuit ELSE auth.pc = "talking" => ~auth.outerQuit

Respond(a, response) ==
    [a EXCEPT !.response = response, !.innerQuit = @ \/ IsRunning]

AuthButtonClicked ==
    /\ MayClick /\ auth.user # None
    /\ auth' = Respond(auth, "ok")
    /\ UNCHANGED <<authenticators, active, wasCancelled, cancelled, reply>>

(* the button, or Escape; gtk_window_close follows with a delete-event     *)
CancelButtonClicked ==
    /\ MayClick
    /\ auth' = [Respond(auth, "cancel") EXCEPT !.closing = TRUE]
    /\ UNCHANGED <<authenticators, active, wasCancelled, cancelled, reply>>

WindowClosed ==
    /\ MayClick /\ ~auth.closing
    /\ auth' = [auth EXCEPT !.closing = TRUE]
    /\ UNCHANGED <<authenticators, active, wasCancelled, cancelled, reply>>

(* delete_event_cb of the dialog, and that of the authenticator behind it  *)
DeleteEvent ==
    /\ active # None /\ auth.closing
    /\ LET closed == [auth EXCEPT !.closing = FALSE] IN
       IF IsRunning
       THEN auth' = Respond(closed, "cancel") /\ UNCHANGED wasCancelled
       ELSE auth' = CancelAuth(closed) /\ wasCancelled' = wasCancelled \cup {active}
    /\ UNCHANGED <<authenticators, active, cancelled, reply>>

(* users_combobox_changed_cb; selected_user_cb runs before the response    *)
(* is set                                                                  *)
SelectUser(u) ==
    /\ MayClick /\ u # auth.user /\ Users # {u}
    /\ LET notified == CancelAuth([auth EXCEPT !.user = u]) IN
       auth' = [notified EXCEPT !.newUser = TRUE, !.response = "user"]
    /\ wasCancelled' = wasCancelled \cup {active}
    /\ UNCHANGED <<authenticators, active, cancelled, reply>>

-----------------------------------------------------------------------------
Init ==
    /\ authenticators = <<>> /\ active = None /\ auth = New(None)
    /\ wasCancelled = {} /\ cancelled = {}
    /\ reply = [r \in Requests |-> "new"]

Returns == DoInitiate \/ LeaveChoosing \/ LeavePrompt \/ LeaveLoop \/ LeaveShaking

Session == SessionRequest \/ \E gained \in BOOLEAN : SessionCompleted(gained)

Click == \/ AuthButtonClicked \/ CancelButtonClicked \/ WindowClosed
         \/ \E u \in Users : SelectUser(u)

Next ==
    \/ \E r \in Requests : InitiateAuthentication(r) \/ CancelRequest(r)
    \/ Returns \/ Session \/ Click \/ DeleteEvent

(* Main loops return and deliver; nobody has to click or to answer         *)
Fairness == WF_vars(Returns) /\ WF_vars(DeleteEvent)

Spec == Init /\ [][Next]_vars /\ Fairness

-----------------------------------------------------------------------------
TypeOK ==
    /\ authenticators \in Seq(Requests)
    /\ active \in Requests \cup {None}
    /\ auth \in Authenticators
    /\ wasCancelled \subseteq Requests /\ cancelled \subseteq Requests
    /\ reply \in [Requests -> {"new", "waiting", "failed", "cancelled", "dismissed", "done"}]

(* Requests are served one after the other: those without an answer are    *)
(* exactly those in the list, the first of them is active, and no request  *)
(* waits behind an agent that does nothing.                                *)
ServedInOrder ==
    /\ {r \in Requests : reply[r] = "waiting"} = ToSet(authenticators)
    /\ active = IF authenticators = <<>> THEN None ELSE Head(authenticators)

(* A password goes only to the conversation of the user who is shown as    *)
(* chosen, whatever was chosen or cancelled while the prompt was up.       *)
GivenToChosenUser == GivesPassword /\ auth'.pc = "talking" => auth.sessionUser = auth.user

(* What these rest on: a session that runs is that of the user who is      *)
(* chosen, and so is a prompt, unless its end is on the way; a loop that   *)
(* was told to quit has no session; no request is listed twice.            *)
SessionIsOfUser(a) ==
    /\ a.session = "live" => a.sessionUser = a.user
    /\ a.pc = "prompting" => a.sessionUser = a.user \/ (a.innerQuit /\ a.response # "ok")
    /\ a.outerQuit => a.session # "live"
    /\ a.pc # "shaking" => a.tries < 3
ListedOnce ==
    \A i, j \in DOMAIN authenticators : authenticators[i] = authenticators[j] => i = j
AgentInv == TypeOK /\ ServedInOrder /\ SessionIsOfUser(auth) /\ ListedOnce

(* A prompt that was cancelled, by the user or by polkitd, is the end of   *)
(* its request, whatever the PAM session still does, unless another user   *)
(* was chosen in the same moment.                                          *)
Refused(r) == /\ active = r /\ auth.pc = "prompting" /\ auth.innerQuit
              /\ auth.response = "cancel" /\ ~auth.newUser
=============================================================================
