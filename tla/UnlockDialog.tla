---------------------------- MODULE UnlockDialog -----------------------------
(***************************************************************************)
(* The life of one GfUnlockDialog (libscreensaver/gf-unlock-dialog.c) with *)
(* its GfAuth (libscreensaver/gf-auth.c): four timers, the calls of the    *)
(* display manager and the messages and results of PAM, in any order.      *)
(***************************************************************************)
EXTENDS Naturals, Sequences, FiniteSets, SequencesExt

-----------------------------------------------------------------------------
(* GfAuth.  PAM runs in a thread of its own, in a GTask, and talks to the  *)
(* main loop.  Its messages become idle sources; for a prompt it waits on  *)
(* a condition variable for an answer, which the main loop stores without  *)
(* the mutex.  An action of the thread is what it does between two         *)
(* accesses of shared state; the main loop's part is given as operators    *)
(* that the callbacks of the dialog are composed of.                       *)

CONSTANTS
    Conversations,     \* what PAM hands to the conversation function
    MaxConversations,  \* bound on the conversations of one verification
    MaxMessages        \* bound on the messages not yet delivered

Styles == {"prompt", "info"}

ASSUME ConversationsAssumption ==
    \A msgs \in Conversations : msgs \in Seq(Styles)
ASSUME BoundsAssumption ==
    MaxConversations \in Nat \ {0} /\ MaxMessages \in Nat \ {0}

VARIABLES
    auth,        \* cancelled, awaits_response, response, message_ids
    worker,      \* the thread
    idles,       \* message_cb sources, oldest first
    completed,   \* verify_done_cb is queued
    setting,     \* where the main loop is in gf_auth_set_response
    crashed      \* the g_assert that has aborted the process, or "no"

authVars == <<auth, worker, idles, completed, setting, crashed>>

Ids == 1..(MaxMessages + 1)
Messages == [id : Ids, style : Styles]

Auths == [cancelled : BOOLEAN, awaits : BOOLEAN, response : {"null", "text"},
          ids : Seq(Ids)]

(* pc names what the thread does next; head is the head of message_ids     *)
(* that g_list_append was called with, or 0; verdict is the task's result. *)
Places == {"none", "start", "pam", "message", "linking", "posted", "wait",
           "woken", "check", "unref"}
Workers == [pc : Places, todo : Seq(Styles), head : Ids \cup {0},
            failed : BOOLEAN, conversations : 0..MaxConversations,
            verdict : BOOLEAN]

Settings == {"no", "null", "text", "signal"}
Asserts == {"no", "message", "response", "emit_cancel", "shake"}

AuthTypeOK ==
    /\ auth \in Auths /\ Len(auth.ids) <= MaxMessages
    /\ worker \in Workers
    /\ idles \in Seq(Messages) /\ Len(idles) <= MaxMessages
    /\ completed \in BOOLEAN
    /\ setting \in Settings
    /\ crashed \in Asserts

NewWorker == [pc |-> "start", todo |-> <<>>, head |-> 0, failed |-> FALSE,
              conversations |-> 0, verdict |-> FALSE]

(* gf_auth_init, then gf_auth_verify                                       *)
AuthInit ==
    /\ auth = [cancelled |-> FALSE, awaits |-> FALSE, response |-> "null",
               ids |-> <<>>]
    /\ worker = NewWorker
    /\ idles = <<>>
    /\ completed = FALSE
    /\ setting = "no"
    /\ crashed = "no"

(* self->task # NULL: the thread or the completion holds a reference.      *)
TaskAlive == worker.pc # "none" \/ completed

-----------------------------------------------------------------------------
(* The main loop's part *)

(* The main loop runs no other callback while it is in gf_auth_set_response *)
MainLoop == crashed = "no" /\ setting = "no"

(* gf_auth_verify; an unfinished task makes it return early.               *)
Verify == worker' = IF TaskAlive THEN worker ELSE NewWorker

(* gf_auth_set_response up to its test of awaits_response                  *)
BeginSetResponse(response) ==
    setting' = IF auth.awaits THEN response ELSE "no"

(* gf_auth_cancel likewise                                                 *)
BeginCancel ==
    /\ auth' = [auth EXCEPT !.cancelled = TRUE]
    /\ BeginSetResponse("null")

(* Its assertion and the store, both without the mutex                     *)
StoreResponse ==
    /\ crashed = "no"
    /\ setting \in {"null", "text"}
    /\ IF auth.response # "null"
       THEN crashed' = "response" /\ UNCHANGED <<auth, setting>>
       ELSE /\ auth' = [auth EXCEPT !.response = setting]
            /\ setting' = "signal"
            /\ UNCHANGED crashed
    /\ UNCHANGED <<worker, idles, completed>>

MutexFree == worker.pc \notin {"linking", "posted"}

(* g_cond_signal under the mutex                                           *)
SignalResponse ==
    /\ crashed = "no"
    /\ setting = "signal"
    /\ MutexFree
    /\ setting' = "no"
    /\ worker' = IF worker.pc = "wait" THEN [worker EXCEPT !.pc = "woken"]
                 ELSE worker
    /\ UNCHANGED <<auth, idles, completed, crashed>>

(* message_cb after the signal: the id has to be in the list, once.        *)
ForgetMessage ==
    LET found == {i \in DOMAIN auth.ids : auth.ids[i] = Head(idles).id}
    IN /\ idles' = Tail(idles)
       /\ \/ found = {} /\ crashed' = "message" /\ UNCHANGED auth
          \/ \E i \in found : auth' = [auth EXCEPT !.ids = RemoveAt(@, i)] /\ UNCHANGED crashed

-----------------------------------------------------------------------------
(* The thread *)

(* verify_in_thread_cb up to pam_start                                     *)
ThreadStarts ==
    /\ worker.pc = "start"
    /\ IF auth.cancelled
       THEN worker' = [worker EXCEPT !.pc = "unref"] /\ completed' = TRUE
       ELSE worker' = [worker EXCEPT !.pc = "pam"] /\ UNCHANGED completed
    /\ UNCHANGED <<auth, idles, setting, crashed>>

(* PAM calls conversation_cb, which gives up at once when cancelled or     *)
(* without messages.                                                       *)
ConversationStarts ==
    /\ worker.pc = "pam"
    /\ worker.conversations < MaxConversations
    /\ \E msgs \in Conversations :
        worker' = IF auth.cancelled \/ msgs = <<>>
                  THEN [worker EXCEPT !.conversations = @ + 1]
                  ELSE [worker EXCEPT !.conversations = @ + 1,
                                      !.pc = "message", !.todo = msgs,
                                      !.failed = FALSE]
    /\ UNCHANGED <<auth, idles, completed, setting, crashed>>

(* emit_message_idle takes the mutex and reads the list it appends to.     *)
MessageStarts ==
    /\ worker.pc = "message"
    /\ Len(idles) < MaxMessages
    /\ worker' = [worker EXCEPT !.pc = "linking",
                    !.head = IF auth.ids = <<>> THEN 0 ELSE Head(auth.ids)]
    /\ UNCHANGED <<auth, idles, completed, setting, crashed>>

(* It links the new id, writes the list back and adds the idle source.     *)
(* message_cb does not take the mutex: when it has freed the head that was *)
(* read, the list now begins with a freed node and the ids behind it may   *)
(* or may not be found.                                                    *)
MessagePosted ==
    /\ worker.pc = "linking"
    /\ LET used == {idles[i].id : i \in DOMAIN idles}
           id == CHOOSE n \in Ids : n \notin used
           stale == /\ worker.head # 0
                    /\ auth.ids = <<>> \/ Head(auth.ids) # worker.head
       IN /\ idles' = Append(idles, [id |-> id, style |-> Head(worker.todo)])
          /\ \E ids \in {Append(auth.ids, id)} \cup (IF stale THEN {<<>>} ELSE {}) :
                auth' = [auth EXCEPT !.ids = ids]
    /\ worker' = [worker EXCEPT !.pc = "posted"]
    /\ UNCHANGED <<completed, setting, crashed>>

(* A prompt waits, which releases the mutex; any other message unlocks it. *)
Posted ==
    /\ worker.pc = "posted"
    /\ IF Head(worker.todo) = "prompt"
       THEN /\ auth' = [auth EXCEPT !.awaits = TRUE]
            /\ worker' = [worker EXCEPT !.pc = "wait"]
       ELSE /\ worker' = [worker EXCEPT !.pc = "check"]
            /\ UNCHANGED auth
    /\ UNCHANGED <<idles, completed, setting, crashed>>

(* g_cond_wait may return without a signal.                                *)
SpuriousWakeup ==
    /\ worker.pc = "wait"
    /\ worker' = [worker EXCEPT !.pc = "woken"]
    /\ UNCHANGED <<auth, idles, completed, setting, crashed>>

(* The thread has the mutex again and takes the response.                  *)
TakeResponse ==
    /\ worker.pc = "woken"
    /\ auth' = [auth EXCEPT !.awaits = FALSE, !.response = "null"]
    /\ worker' = [worker EXCEPT !.pc = "check",
                                !.failed = auth.response = "null"]
    /\ UNCHANGED <<idles, completed, setting, crashed>>

(* The end of the loop body: the next message, or back to PAM with the     *)
(* responses or PAM_CONV_ERR                                               *)
MessageDone ==
    /\ worker.pc = "check"
    /\ worker' = IF worker.failed \/ auth.cancelled \/ Len(worker.todo) = 1
                 THEN [worker EXCEPT !.pc = "pam", !.todo = <<>>,
                                     !.failed = FALSE, !.head = 0]
                 ELSE [worker EXCEPT !.pc = "message", !.todo = Tail(@)]
    /\ UNCHANGED <<auth, idles, completed, setting, crashed>>

(* verify_in_thread_cb from the result of PAM to the end of the function,  *)
(* after which GTask queues the completion                                 *)
PamReturns ==
    /\ worker.pc = "pam"
    /\ \E success \in BOOLEAN :
        worker' = [worker EXCEPT !.pc = "unref",
                                 !.verdict = success /\ ~auth.cancelled]
    /\ completed' = TRUE
    /\ UNCHANGED <<auth, idles, setting, crashed>>

(* The thread drops its reference to the task.                             *)
ThreadEnds ==
    /\ worker.pc = "unref"
    /\ worker' = [worker EXCEPT !.pc = "none"]
    /\ UNCHANGED <<auth, idles, completed, setting, crashed>>

Thread ==
    /\ crashed = "no"
    /\ \/ ThreadStarts
       \/ ConversationStarts
       \/ MessageStarts
       \/ MessagePosted
       \/ Posted
       \/ SpuriousWakeup
       \/ TakeResponse
       \/ MessageDone
       \/ PamReturns
       \/ ThreadEnds

-----------------------------------------------------------------------------
(* GfUnlockDialog                                                          *)

CONSTANTS
    MaxFailures,    \* MAX_FAILURES
    UserSwitch,     \* user_switch_enabled, and the seat can switch
    SeatKnown,      \* XDG_SEAT_PATH is set
    MaxCalls        \* bound on the outstanding switch_to_greeter calls

ASSUME DialogAssumption ==
    /\ MaxFailures \in Nat \ {0}
    /\ UserSwitch \in BOOLEAN
    /\ SeatKnown \in BOOLEAN
    /\ MaxCalls \in Nat \ {0}

VARIABLES dialog

vars == <<authVars, dialog>>

(* sensitive: the prompt and the buttons; timeout, emitCancel, reset: the  *)
(* source ids are not 0; shake: what the running shake ends in; calls: the *)
(* switch_to_greeter calls without a reply; seat: dm_seat # NULL           *)
Dialogs == [alive : BOOLEAN, shown : BOOLEAN, sensitive : BOOLEAN,
            timeout : BOOLEAN, emitCancel : BOOLEAN, reset : BOOLEAN,
            shake : {"none", "try_again", "max_failures"},
            failures : 0..MaxFailures, calls : 0..MaxCalls, seat : BOOLEAN]

TypeOK == AuthTypeOK /\ dialog \in Dialogs

(* gf_unlock_dialog_init and gf_unlock_dialog_constructed: hidden, with    *)
(* every widget sensitive                                                  *)
Init ==
    /\ AuthInit
    /\ dialog = [alive |-> TRUE, shown |-> FALSE, sensitive |-> TRUE,
                 timeout |-> FALSE, emitCancel |-> FALSE, reset |-> FALSE,
                 shake |-> "none", failures |-> 0, calls |-> 0, seat |-> FALSE]

Running == MainLoop /\ dialog.alive

-----------------------------------------------------------------------------

(* gf_unlock_dialog_finalize: no source outlives the dialog; the replies   *)
(* of outstanding calls do not reach it.                                   *)
Gone(d) ==
    [d EXCEPT !.alive = FALSE, !.timeout = FALSE, !.emitCancel = FALSE,
              !.reset = FALSE, !.shake = "none", !.calls = 0]

(* gf_unlock_dialog_dispose, then finalize; the caller says what becomes   *)
(* of the completion.                                                      *)
Destroy ==
    /\ dialog' = Gone(dialog)
    /\ BeginCancel
    /\ UNCHANGED <<worker, idles, crashed>>

(* The user presses Escape ("close"), or the window pops the dialog down.  *)
Close == Running /\ Destroy /\ UNCHANGED completed

(* unlock_button_clicked_cb on a dialog d                                  *)
UnlockClickedOn(d) ==
    [d EXCEPT !.sensitive = FALSE, !.timeout = FALSE, !.emitCancel = FALSE]

Unlock ==
    /\ Running
    /\ dialog.shown /\ dialog.sensitive
    /\ dialog' = UnlockClickedOn(dialog)
    /\ BeginSetResponse("text")
    /\ UNCHANGED <<auth, worker, idles, completed, crashed>>

(* switch_button_clicked_cb and switch_user; without a seat proxy GDM is   *)
(* called synchronously and the dialog cancelled whatever it says.         *)
SwitchUser ==
    /\ Running
    /\ dialog.shown /\ dialog.sensitive /\ UserSwitch
    /\ dialog.seat => dialog.calls < MaxCalls
    /\ dialog' = [dialog EXCEPT !.sensitive = FALSE, !.timeout = FALSE,
                    !.emitCancel = ~dialog.seat,
                    !.calls = IF dialog.seat THEN @ + 1 ELSE @]
    /\ UNCHANGED authVars

(* dm_seat_ready_cb                                                        *)
SeatReady ==
    /\ Running
    /\ SeatKnown /\ ~dialog.seat
    /\ dialog' = [dialog EXCEPT !.seat = TRUE]
    /\ UNCHANGED authVars

(* switch_to_greeter_cb; emit_cancel_add asserts that no timer runs.       *)
GreeterReply ==
    /\ Running
    /\ dialog.calls > 0
    /\ \E ok \in BOOLEAN :
        dialog' = [dialog EXCEPT !.calls = @ - 1, !.emitCancel = TRUE,
                                 !.sensitive = @ /\ ok]
    /\ crashed' = IF dialog.emitCancel THEN "emit_cancel" ELSE "no"
    /\ UNCHANGED <<auth, worker, idles, completed, setting>>

-----------------------------------------------------------------------------
(* Timers *)

(* cancel_timeout_cb, a minute after the prompt                            *)
CancelTimeout ==
    /\ Running
    /\ dialog.timeout
    /\ dialog' = [dialog EXCEPT !.timeout = FALSE, !.sensitive = FALSE,
                                !.emitCancel = TRUE]
    /\ UNCHANGED authVars

(* emit_cancel_cb: the window destroys the dialog in the response          *)
EmitCancel ==
    /\ Running
    /\ dialog.emitCancel
    /\ Destroy
    /\ UNCHANGED completed

(* Mutant: the source's id is kept.                                        *)
TryAgainStillShaking(d) == [d EXCEPT !.reset = TRUE, !.sensitive = FALSE]

(* shake_cb and try_again, but for the next verification                   *)
TryAgain(d) == [d EXCEPT !.shake = "none", !.reset = TRUE, !.sensitive = FALSE]

(* The last run of shake_cb, with try_again or max_failures                *)
ShakeDone ==
    /\ Running
    /\ \/ /\ dialog.shake = "try_again"
          /\ dialog' = TryAgain(dialog)
          /\ Verify
          /\ UNCHANGED <<auth, idles, setting, crashed>>
       \/ /\ dialog.shake = "max_failures"
          /\ Destroy
    /\ UNCHANGED completed

(* reset_idle_cb                                                           *)
ResetIdle ==
    /\ Running
    /\ dialog.reset
    /\ dialog' = [dialog EXCEPT !.reset = FALSE, !.sensitive = TRUE]
    /\ UNCHANGED authVars

-----------------------------------------------------------------------------
(* What PAM says *)

(* auth_message_cb and the rest of message_cb.  The first message shows    *)
(* the dialog and hands it the queued keys, among them perhaps a Return    *)
(* that clicks the unlock button; a prompt then enables it and restarts    *)
(* its minute.                                                             *)
Message ==
    /\ MainLoop
    /\ idles # <<>>
    /\ ForgetMessage
    /\ \E return \in BOOLEAN :
        LET first == dialog.alive /\ ~dialog.shown
            shown == [dialog EXCEPT !.shown = TRUE, !.timeout = @ \/ first]
            d == IF return THEN UnlockClickedOn(shown) ELSE shown
        IN /\ return => first
           /\ IF return THEN BeginSetResponse("text") ELSE UNCHANGED setting
           /\ dialog' = IF ~dialog.alive THEN dialog
                        ELSE IF Head(idles).style = "prompt"
                        THEN [d EXCEPT !.sensitive = TRUE, !.timeout = TRUE]
                        ELSE d
    /\ UNCHANGED <<worker, completed>>

(* What the shake after the n-th failure ends in                           *)
ShakeEnd(failures) ==
    IF failures < MaxFailures THEN "try_again" ELSE "max_failures"

(* auth_complete_cb of a failure; shake_dialog asserts that none runs.     *)
Failed ==
    /\ dialog' = [dialog EXCEPT !.failures = @ + 1,
                                !.shake = ShakeEnd(dialog.failures + 1)]
    /\ crashed' = IF dialog.shake # "none" THEN "shake" ELSE "no"
    /\ UNCHANGED <<auth, worker, idles, setting>>

(* verify_done_cb, without a signal once cancelled; the window destroys    *)
(* the dialog of an accepted password.                                     *)
VerifyDone ==
    /\ MainLoop
    /\ completed
    /\ completed' = FALSE
    /\ \/ auth.cancelled /\ UNCHANGED <<auth, worker, idles, setting, crashed, dialog>>
       \/ ~auth.cancelled /\ worker.verdict /\ Destroy
       \/ ~auth.cancelled /\ ~worker.verdict /\ Failed

-----------------------------------------------------------------------------
MainLoopStep ==
    \/ Close
    \/ Unlock
    \/ SwitchUser
    \/ SeatReady
    \/ GreeterReply
    \/ CancelTimeout
    \/ EmitCancel
    \/ ShakeDone
    \/ ResetIdle
    \/ Message
    \/ VerifyDone
    \/ StoreResponse /\ UNCHANGED dialog
    \/ SignalResponse /\ UNCHANGED dialog

ThreadStep == Thread /\ UNCHANGED dialog

Next == MainLoopStep \/ ThreadStep

Spec == Init /\ [][Next]_vars

(* The thread runs until it waits for an answer, PAM ends each call after  *)
(* finitely many conversations, and the main loop dispatches its sources.  *)
(* Nothing is assumed of the user or of replies.                           *)
Fairness ==
    /\ WF_vars(ThreadStep /\ worker.pc \notin {"pam", "wait"})
    /\ WF_vars(PamReturns /\ crashed = "no" /\ UNCHANGED dialog)
    /\ WF_vars(Message)
    /\ WF_vars(VerifyDone)
    /\ WF_vars(ShakeDone)
    /\ WF_vars(ResetIdle)
    /\ WF_vars(StoreResponse /\ UNCHANGED dialog)
    /\ WF_vars(SignalResponse /\ UNCHANGED dialog)

FairSpec == Spec /\ Fairness

-----------------------------------------------------------------------------
(* Properties *)

(* g_assert (self->shake_timeout_id == 0) of shake_dialog holds: there is  *)
(* no second result before the shake of the first one is over, although    *)
(* PAM works in its own thread.                                            *)
OneShake == crashed # "shake"

(* Once the dialog is gone, no timer or reply that was meant for it is     *)
(* left, and PAM has been told.                                            *)
NothingOutlivesDialog ==
    ~dialog.alive =>
        /\ ~dialog.timeout /\ ~dialog.emitCancel /\ ~dialog.reset
        /\ dialog.shake = "none" /\ dialog.calls = 0
        /\ auth.cancelled

(* A dialog makes MAX_FAILURES attempts: while PAM works on one, or its    *)
(* result is on its way, fewer have failed.                                *)
NoExtraAttempt ==
    dialog.alive /\ (worker.pc \notin {"none", "unref"} \/ completed)
        => dialog.failures < MaxFailures

(* PAM works and waits for nobody. *)
PamBusy ==
    worker.pc \in {"start", "pam", "message", "linking", "woken", "check"}

(* The prompt is disabled only until PAM asks or is done: while PAM works  *)
(* on a shown dialog, the prompt is enabled again or the dialog goes.      *)
PromptComesBack ==
    (dialog.shown /\ ~dialog.sensitive /\ PamBusy)
        ~> (dialog.sensitive \/ ~dialog.alive \/ crashed # "no")

(* After the last allowed failure the dialog goes by itself.               *)
LastFailureCloses ==
    (dialog.failures = MaxFailures) ~> (~dialog.alive \/ crashed # "no")

(* gf-auth.c:638 asserts (self->response == NULL): an answer is never      *)
(* stored before the thread has taken the last one.                        *)
AnswerTakenFirst == crashed # "response"
=============================================================================
