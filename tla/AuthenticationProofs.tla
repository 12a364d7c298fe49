------------------------ MODULE AuthenticationProofs ------------------------
(* What is proved of the parts of MCAuthentication: the unlock dialog with the *)
(* thread of PAM (both in UnlockDialog), the grab, the fade and the polkit     *)
(* agent. Each part has its inductive invariant; the theorems state the        *)
(* properties that the runs of MCAuthentication check.                         *)
EXTENDS MCAuthentication, FiniteSetTheorems, SequenceTheorems, TLAPS

(* ------------------------------------------------- the unlock dialog ------ *)

(* g_list_remove_link of one link leaves the others.                          *)
LEMMA RemoveOne ==
    ASSUME NEW S, NEW s \in Seq(S), NEW i \in DOMAIN s
    PROVE  RemoveAt(s, i) \in Seq(S) /\ Len(RemoveAt(s, i)) = Len(s) - 1
<1>1. i \in 1..Len(s)
  OBVIOUS
<1>2. SubSeq(s, 1, i - 1) \in Seq(S) /\ Len(SubSeq(s, 1, i - 1)) = i - 1
  BY <1>1
<1>3. SubSeq(s, i + 1, Len(s)) \in Seq(S) /\ Len(SubSeq(s, i + 1, Len(s))) = Len(s) - i
  BY <1>1
<1> DEFINE a == SubSeq(s, 1, i - 1)
           b == SubSeq(s, i + 1, Len(s))
<1> HIDE DEF a, b
<1>4. a \o b \in Seq(S) /\ Len(a \o b) = Len(a) + Len(b)
  BY <1>2, <1>3 DEF a, b
<1>6. Len(a) = i - 1 /\ Len(b) = Len(s) - i
  BY <1>2, <1>3 DEF a, b
<1>7. Len(s) \in Nat /\ i \in Nat
  BY <1>1
<1>5. Len(a) + Len(b) = Len(s) - 1
  BY <1>6, <1>7
<1> QED BY <1>4, <1>5 DEF RemoveAt, a, b

(* There is an id for a new message, as long as not too many are under way.   *)
LEMMA NewId ==
    ASSUME NEW s \in Seq(Messages), Len(s) <= MaxMessages
    PROVE  \E n \in Ids : n \notin {s[i].id : i \in DOMAIN s}
<1> DEFINE used == {s[i].id : i \in DOMAIN s}
           f == [i \in 1..Len(s) |-> s[i].id]
<1>1. f \in Surjection(1..Len(s), used)
  BY DEF Surjection
<1>2. IsFiniteSet(1..Len(s)) /\ Cardinality(1..Len(s)) = Len(s)
  BY FS_Interval
<1> HIDE DEF used, f
<1>3. IsFiniteSet(used) /\ Cardinality(used) <= Len(s)
  BY <1>1, <1>2, FS_Surjection
<1>4. Cardinality(Ids) = MaxMessages + 1
  BY FS_Interval, BoundsAssumption DEF Ids
<1>5. ~(Ids \subseteq used)
  <2>1. SUFFICES ASSUME Ids \subseteq used PROVE FALSE
    OBVIOUS
  <2>2. Cardinality(Ids) <= Cardinality(used)
    BY <1>3, <2>1, FS_Subset
  <2>3. Cardinality(used) \in Nat
    BY <1>3, FS_CardinalityType
  <2> QED BY <1>3, <1>4, <2>2, <2>3, BoundsAssumption
<1> QED BY <1>5 DEF used

(* The thread has a message in hand while it delivers it, and room for it;    *)
(* every id in the list is of a message that is under way.                    *)
MessagesFit ==
    /\ crashed = "no" => Len(auth.ids) <= Len(idles)
    /\ worker.pc = "linking" => Len(idles) < MaxMessages
    /\ worker.pc \in {"message", "linking", "posted", "wait", "woken", "check"} => worker.todo # <<>>

(* One attempt at a time: a result is only due when the thread is done, and a *)
(* shake runs only between two attempts.                                      *)
OneAttempt ==
    /\ auth.cancelled <=> ~dialog.alive
    /\ completed => worker.pc \in {"none", "unref"}
    /\ dialog.shake # "none" => worker.pc \in {"none", "unref"} /\ ~completed
    /\ dialog.shake = "try_again" => dialog.failures < MaxFailures

DialogInv ==
    /\ TypeOK /\ MessagesFit /\ OneAttempt
    /\ OneShake /\ NothingOutlivesDialog /\ NoExtraAttempt

LEMMA DialogBegins == Init => DialogInv
<1> SUFFICES ASSUME Init PROVE DialogInv
  OBVIOUS
<1> USE BoundsAssumption, DialogAssumption DEF Init, AuthInit, NewWorker
<1>1. TypeOK
  <2>1. auth \in Auths /\ Len(auth.ids) <= MaxMessages
    BY DEF Auths
  <2>2. worker \in Workers
    BY DEF Workers, Places
  <2>3. idles \in Seq(Messages) /\ Len(idles) <= MaxMessages
    OBVIOUS
  <2>4. dialog \in Dialogs
    BY DEF Dialogs
  <2> QED BY <2>1, <2>2, <2>3, <2>4 DEF TypeOK, AuthTypeOK, Settings, Asserts
<1>2. MessagesFit
  BY DEF MessagesFit
<1>3. OneAttempt /\ OneShake /\ NothingOutlivesDialog /\ NoExtraAttempt
  BY DEF OneAttempt, OneShake, NothingOutlivesDialog, NoExtraAttempt
<1> QED BY <1>1, <1>2, <1>3 DEF DialogInv

(* What the thread does between two accesses of shared state.                 *)
LEMMA ThreadKeeps ==
    ASSUME DialogInv, crashed = "no", UNCHANGED dialog,
           ThreadStarts \/ ConversationStarts \/ MessageStarts \/ MessagePosted \/ Posted
              \/ SpuriousWakeup \/ TakeResponse \/ MessageDone \/ PamReturns \/ ThreadEnds
    PROVE  DialogInv'
<1> USE BoundsAssumption, DialogAssumption
<1>0. /\ auth \in Auths /\ worker \in Workers /\ idles \in Seq(Messages) /\ Len(idles) <= MaxMessages
      /\ Len(auth.ids) <= MaxMessages /\ completed \in BOOLEAN /\ setting \in Settings /\ crashed \in Asserts
      /\ dialog \in Dialogs
  BY DEF DialogInv, TypeOK, AuthTypeOK
<1>1. CASE ThreadStarts
  <2>1. TypeOK'
    <3>1. worker' \in Workers
      BY <1>0, <1>1, ZenonT(60) DEF ThreadStarts, Workers, Places
    <3> QED BY <1>0, <1>1, <3>1, Zenon DEF ThreadStarts, TypeOK, AuthTypeOK
  <2>2. MessagesFit'
    BY <1>0, <1>1 DEF ThreadStarts, Auths, Workers, Places, DialogInv, MessagesFit
  <2>3. OneAttempt' /\ OneShake' /\ NothingOutlivesDialog' /\ NoExtraAttempt'
    BY <1>0, <1>1 DEF ThreadStarts, Auths, Workers, Places, Dialogs, DialogInv, OneAttempt, OneShake,
         NothingOutlivesDialog, NoExtraAttempt
  <2> QED BY <2>1, <2>2, <2>3 DEF DialogInv
<1>2. CASE ConversationStarts
  <2>1. TypeOK'
    <3>1. PICK msgs \in Conversations :
            worker' = IF auth.cancelled \/ msgs = <<>>
                      THEN [worker EXCEPT !.conversations = @ + 1]
                      ELSE [worker EXCEPT !.conversations = @ + 1, !.pc = "message", !.todo = msgs,
                                          !.failed = FALSE]
      BY <1>2 DEF ConversationStarts
    <3>4. msgs \in Seq(Styles)
      BY ConversationsAssumption
    <3>5. worker.conversations \in 0..MaxConversations /\ worker.conversations < MaxConversations
      BY <1>0, <1>2 DEF ConversationStarts, Workers
    <3>2. msgs \in Seq(Styles) /\ worker.conversations + 1 \in 0..MaxConversations
      BY <3>4, <3>5
    <3>3. worker' \in Workers
      BY <1>0, <3>1, <3>2 DEF Workers, Places
    <3> QED BY <1>0, <1>2, <3>3 DEF ConversationStarts, TypeOK, AuthTypeOK
  <2>2. MessagesFit'
    BY <1>0, <1>2, ZenonT(60) DEF ConversationStarts, Auths, Workers, Places, DialogInv, MessagesFit
  <2>3. OneAttempt' /\ OneShake' /\ NothingOutlivesDialog' /\ NoExtraAttempt'
    BY <1>0, <1>2 DEF ConversationStarts, Auths, Workers, Places, Dialogs, DialogInv, OneAttempt, OneShake,
         NothingOutlivesDialog, NoExtraAttempt
  <2> QED BY <2>1, <2>2, <2>3 DEF DialogInv
<1>3. CASE MessageStarts
  <2>1. TypeOK'
    <3>1. auth.ids # <<>> => Head(auth.ids) \in Ids
      BY <1>0 DEF Auths
    <3>2. worker' \in Workers
      BY <1>0, <1>3, <3>1 DEF MessageStarts, Workers, Places
    <3> QED BY <1>0, <1>3, <3>2 DEF MessageStarts, TypeOK, AuthTypeOK
  <2>2. MessagesFit'
    BY <1>0, <1>3 DEF MessageStarts, Auths, Workers, Places, DialogInv, MessagesFit
  <2>3. OneAttempt' /\ OneShake' /\ NothingOutlivesDialog' /\ NoExtraAttempt'
    BY <1>0, <1>3 DEF MessageStarts, Auths, Workers, Places, Dialogs, DialogInv, OneAttempt, OneShake,
         NothingOutlivesDialog, NoExtraAttempt
  <2> QED BY <2>1, <2>2, <2>3 DEF DialogInv
<1>4. CASE MessagePosted
  <2> DEFINE id == CHOOSE n \in Ids : n \notin {idles[i].id : i \in DOMAIN idles}
  <2>4. id \in Ids
    BY <1>0, NewId
  <2>5. worker.todo # <<>> /\ Len(idles) < MaxMessages /\ Len(auth.ids) <= Len(idles)
    BY <1>4 DEF MessagePosted, DialogInv, MessagesFit
  <2>6. Head(worker.todo) \in Styles
    BY <1>0, <2>5 DEF Workers
  <2>7. idles' = Append(idles, [id |-> id, style |-> Head(worker.todo)])
    BY <1>4 DEF MessagePosted
  <2>8. \/ auth' = [auth EXCEPT !.ids = Append(auth.ids, id)]
        \/ auth' = [auth EXCEPT !.ids = <<>>]
    BY <1>4 DEF MessagePosted
  <2>9. UNCHANGED <<completed, setting, crashed>> /\ worker' = [worker EXCEPT !.pc = "posted"]
    BY <1>4 DEF MessagePosted
  <2> HIDE DEF id
  <2>10. idles' \in Seq(Messages) /\ Len(idles') = Len(idles) + 1
    BY <1>0, <2>4, <2>6, <2>7 DEF Messages
  <2>11. auth' \in Auths /\ Len(auth'.ids) <= Len(idles') /\ auth'.cancelled = auth.cancelled
    <3>1. auth.ids \in Seq(Ids) /\ Len(auth.ids) \in Nat /\ Len(idles) \in Nat
      BY <1>0 DEF Auths
    <3>2. Append(auth.ids, id) \in Seq(Ids) /\ Len(Append(auth.ids, id)) = Len(auth.ids) + 1
      BY <2>4, <3>1
    <3>3. <<>> \in Seq(Ids) /\ Len(<<>>) = 0
      OBVIOUS
    <3>4. PICK ids \in Seq(Ids) : auth' = [auth EXCEPT !.ids = ids] /\ Len(ids) <= Len(auth.ids) + 1
      <4>1. Len(Append(auth.ids, id)) <= Len(auth.ids) + 1 /\ Len(<<>>) <= Len(auth.ids) + 1
        BY <3>1, <3>2, <3>3
      <4> QED BY <2>8, <3>2, <3>3, <4>1, Zenon
    <3>5. auth' \in Auths /\ auth'.ids = ids /\ auth'.cancelled = auth.cancelled
      BY <1>0, <3>4 DEF Auths
    <3> QED BY <2>5, <2>10, <3>1, <3>4, <3>5
  <2>1. TypeOK'
    <3>1. worker' \in Workers
      BY <1>0, <2>9 DEF Workers, Places
    <3>2. Len(idles') \in Nat /\ Len(auth'.ids) \in Nat /\ Len(idles) \in Nat
      BY <1>0, <2>10, <2>11 DEF Auths
    <3>3. Len(idles') <= MaxMessages /\ Len(auth'.ids) <= MaxMessages
      BY <2>5, <2>10, <2>11, <3>2
    <3> QED BY <1>0, <2>9, <2>10, <2>11, <3>1, <3>3 DEF TypeOK, AuthTypeOK
  <2>2. MessagesFit'
    BY <1>0, <1>4, <2>5, <2>9, <2>11 DEF MessagePosted, MessagesFit, Workers
  <2>3. OneAttempt' /\ OneShake' /\ NothingOutlivesDialog' /\ NoExtraAttempt'
    BY <1>0, <1>4, <2>9, <2>11 DEF MessagePosted, Workers, DialogInv, OneAttempt, OneShake,
         NothingOutlivesDialog, NoExtraAttempt
  <2> QED BY <2>1, <2>2, <2>3 DEF DialogInv
<1>5. CASE Posted
  <2>1. TypeOK'
    <3>1. auth' \in Auths /\ auth'.ids = auth.ids
      BY <1>0, <1>5 DEF Posted, Auths
    <3>2. worker' \in Workers
      BY <1>0, <1>5, SMTT(60) DEF Posted, Workers, Places
    <3> QED BY <1>0, <1>5, <3>1, <3>2 DEF Posted, TypeOK, AuthTypeOK
  <2>2. MessagesFit'
    BY <1>0, <1>5 DEF Posted, Auths, Workers, Places, DialogInv, MessagesFit
  <2>3. OneAttempt' /\ OneShake' /\ NothingOutlivesDialog' /\ NoExtraAttempt'
    BY <1>0, <1>5, ZenonT(60) DEF Posted, Auths, Workers, Places, Dialogs, DialogInv, OneAttempt, OneShake,
         NothingOutlivesDialog, NoExtraAttempt
  <2> QED BY <2>1, <2>2, <2>3 DEF DialogInv
<1>6. CASE SpuriousWakeup
  <2>1. TypeOK'
    BY <1>0, <1>6 DEF SpuriousWakeup, TypeOK, AuthTypeOK, Auths, Workers, Places, Settings, Asserts, DialogInv, MessagesFit
  <2>2. MessagesFit'
    BY <1>0, <1>6 DEF SpuriousWakeup, Auths, Workers, Places, DialogInv, MessagesFit
  <2>3. OneAttempt' /\ OneShake' /\ NothingOutlivesDialog' /\ NoExtraAttempt'
    BY <1>0, <1>6 DEF SpuriousWakeup, Auths, Workers, Places, Dialogs, DialogInv, OneAttempt, OneShake,
         NothingOutlivesDialog, NoExtraAttempt
  <2> QED BY <2>1, <2>2, <2>3 DEF DialogInv
<1>7. CASE TakeResponse
  <2>1. TypeOK'
    BY <1>0, <1>7 DEF TakeResponse, TypeOK, AuthTypeOK, Auths, Workers, Places, Settings, Asserts, DialogInv, MessagesFit
  <2>2. MessagesFit'
    BY <1>0, <1>7 DEF TakeResponse, Auths, Workers, Places, DialogInv, MessagesFit
  <2>3. OneAttempt' /\ OneShake' /\ NothingOutlivesDialog' /\ NoExtraAttempt'
    BY <1>0, <1>7 DEF TakeResponse, Auths, Workers, Places, Dialogs, DialogInv, OneAttempt, OneShake,
         NothingOutlivesDialog, NoExtraAttempt
  <2> QED BY <2>1, <2>2, <2>3 DEF DialogInv
<1>8. CASE MessageDone
  <2>4. worker.todo # <<>> /\ worker.todo \in Seq(Styles)
    BY <1>0, <1>8 DEF MessageDone, DialogInv, MessagesFit, Workers
  <2>5. Tail(worker.todo) \in Seq(Styles) /\ (Len(worker.todo) # 1 => Tail(worker.todo) # <<>>)
    <3>1. Tail(worker.todo) \in Seq(Styles) /\ Len(Tail(worker.todo)) = Len(worker.todo) - 1
      BY <2>4, HeadTailProperties
    <3>2. Len(worker.todo) \in Nat \ {0}
      BY <2>4, EmptySeq
    <3>3. Tail(worker.todo) = <<>> => Len(Tail(worker.todo)) = 0
      BY EmptySeq
    <3> QED BY <3>1, <3>2, <3>3
  <2>1. TypeOK'
    <3>2. <<>> \in Seq(Styles)
      OBVIOUS
    <3>1. worker' \in Workers
      BY <1>0, <1>8, <2>5, <3>2 DEF MessageDone, Workers, Places
    <3> QED BY <1>0, <1>8, <3>1 DEF MessageDone, TypeOK, AuthTypeOK
  <2>2. MessagesFit'
    BY <1>0, <1>8, <2>5 DEF MessageDone, Workers, DialogInv, MessagesFit
  <2>3. OneAttempt' /\ OneShake' /\ NothingOutlivesDialog' /\ NoExtraAttempt'
    BY <1>0, <1>8 DEF MessageDone, Auths, Workers, Places, Dialogs, DialogInv, OneAttempt, OneShake,
         NothingOutlivesDialog, NoExtraAttempt
  <2> QED BY <2>1, <2>2, <2>3 DEF DialogInv
<1>9. CASE PamReturns
  <2>1. TypeOK'
    BY <1>0, <1>9, ZenonT(60) DEF PamReturns, TypeOK, AuthTypeOK, Auths, Workers, Places, Settings, Asserts, DialogInv, MessagesFit
  <2>2. MessagesFit'
    BY <1>0, <1>9 DEF PamReturns, Auths, Workers, Places, DialogInv, MessagesFit
  <2>3. OneAttempt' /\ OneShake' /\ NothingOutlivesDialog' /\ NoExtraAttempt'
    BY <1>0, <1>9 DEF PamReturns, Auths, Workers, Places, Dialogs, DialogInv, OneAttempt, OneShake,
         NothingOutlivesDialog, NoExtraAttempt
  <2> QED BY <2>1, <2>2, <2>3 DEF DialogInv
<1>10. CASE ThreadEnds
  <2>1. TypeOK'
    BY <1>0, <1>10 DEF ThreadEnds, TypeOK, AuthTypeOK, Auths, Workers, Places, Settings, Asserts, DialogInv, MessagesFit
  <2>2. MessagesFit'
    BY <1>0, <1>10 DEF ThreadEnds, Auths, Workers, Places, DialogInv, MessagesFit
  <2>3. OneAttempt' /\ OneShake' /\ NothingOutlivesDialog' /\ NoExtraAttempt'
    BY <1>0, <1>10 DEF ThreadEnds, Auths, Workers, Places, Dialogs, DialogInv, OneAttempt, OneShake,
         NothingOutlivesDialog, NoExtraAttempt
  <2> QED BY <2>1, <2>2, <2>3 DEF DialogInv
<1> QED BY <1>1, <1>2, <1>3, <1>4, <1>5, <1>6, <1>7, <1>8, <1>9, <1>10

(* What the types say, as the steps need it.                                  *)
LEMMA DialogTypes ==
    ASSUME DialogInv
    PROVE  /\ auth \in Auths /\ worker \in Workers /\ idles \in Seq(Messages) /\ Len(idles) <= MaxMessages
           /\ Len(auth.ids) <= MaxMessages /\ completed \in BOOLEAN /\ setting \in Settings /\ crashed \in Asserts
           /\ dialog \in Dialogs
BY DEF DialogInv, TypeOK, AuthTypeOK

(* The dialog goes: nothing of it is left and PAM is told.                    *)
LEMMA DestroyKeeps ==
    ASSUME DialogInv, crashed = "no", Destroy, completed' \in {completed, FALSE}
    PROVE  DialogInv'
<1> USE BoundsAssumption, DialogAssumption
<1>1. /\ dialog' = Gone(dialog) /\ auth' = [auth EXCEPT !.cancelled = TRUE]
      /\ setting' \in {"no", "null"} /\ UNCHANGED <<worker, idles, crashed>>
  BY DEF Destroy, BeginCancel, BeginSetResponse
<1>2. dialog' \in Dialogs /\ ~dialog'.alive /\ dialog'.shake = "none" /\ dialog'.calls = 0
      /\ ~dialog'.timeout /\ ~dialog'.emitCancel /\ ~dialog'.reset
  <2>1. dialog \in Dialogs /\ 0 \in 0..MaxCalls
    BY DialogTypes
  <2>2. Gone(dialog) \in Dialogs
    BY <2>1, Zenon DEF Gone, Dialogs
  <2>3. LET d == Gone(dialog) IN ~d.alive /\ d.shake = "none" /\ d.calls = 0 /\ ~d.timeout /\ ~d.emitCancel /\ ~d.reset
    BY <2>1, Zenon DEF Gone, Dialogs
  <2> QED BY <1>1, <2>2, <2>3
<1>3. auth' \in Auths /\ auth'.cancelled /\ auth'.ids = auth.ids
  BY <1>1, DialogTypes DEF Auths
<1>4. TypeOK'
  BY <1>1, <1>2, <1>3, DialogTypes DEF TypeOK, AuthTypeOK, Settings
<1>5. MessagesFit'
  BY <1>1, <1>3 DEF DialogInv, MessagesFit
<1>6. OneAttempt' /\ OneShake' /\ NothingOutlivesDialog' /\ NoExtraAttempt'
  <2>1. completed' => worker.pc \in {"none", "unref"}
    BY DEF DialogInv, OneAttempt
  <2>2. OneAttempt'
    BY <1>1, <1>2, <1>3, <2>1 DEF OneAttempt
  <2>3. OneShake' /\ NothingOutlivesDialog' /\ NoExtraAttempt'
    BY <1>1, <1>2, <1>3 DEF DialogInv, OneShake, NothingOutlivesDialog, NoExtraAttempt
  <2> QED BY <2>2, <2>3
<1> QED BY <1>4, <1>5, <1>6 DEF DialogInv

(* A step of a dialog that stays, away from its attempts.                     *)
LEMMA WidgetsKeep ==
    ASSUME DialogInv, crashed = "no", crashed' \in {"no", "emit_cancel"}, setting' \in Settings,
           UNCHANGED <<auth, worker, idles, completed>>, dialog' \in Dialogs, dialog.alive, dialog'.alive,
           dialog'.shake = dialog.shake, dialog'.failures = dialog.failures
    PROVE  DialogInv'
<1>1. TypeOK'
  BY DialogTypes DEF TypeOK, AuthTypeOK, Asserts
<1>2. MessagesFit'
  BY DEF DialogInv, MessagesFit
<1>3. OneAttempt' /\ OneShake' /\ NothingOutlivesDialog' /\ NoExtraAttempt'
  BY DEF DialogInv, OneAttempt, OneShake, NothingOutlivesDialog, NoExtraAttempt
<1> QED BY <1>1, <1>2, <1>3 DEF DialogInv

LEMMA UserKeeps ==
    ASSUME DialogInv,
           Unlock \/ SwitchUser \/ SeatReady \/ GreeterReply \/ CancelTimeout \/ ResetIdle
    PROVE  DialogInv'
<1> USE BoundsAssumption, DialogAssumption DEF Running, MainLoop
<1>1. CASE Unlock
  <2>1. dialog' \in Dialogs /\ dialog'.alive /\ dialog'.shake = dialog.shake /\ dialog'.failures = dialog.failures
    BY <1>1, DialogTypes DEF Unlock, UnlockClickedOn, Dialogs
  <2> QED BY <1>1, <2>1, WidgetsKeep DEF Unlock, BeginSetResponse, Settings
<1>2. CASE SwitchUser
  <2>1. dialog' \in Dialogs /\ dialog'.alive /\ dialog'.shake = dialog.shake /\ dialog'.failures = dialog.failures
    <3> DEFINE calls == IF dialog.seat THEN dialog.calls + 1 ELSE dialog.calls
    <3>1. dialog' = [dialog EXCEPT !.sensitive = FALSE, !.timeout = FALSE, !.emitCancel = ~dialog.seat,
                                   !.calls = calls]
      BY <1>2 DEF SwitchUser
    <3>2. dialog.calls \in 0..MaxCalls /\ (dialog.seat => dialog.calls < MaxCalls) /\ dialog.alive
      BY <1>2, DialogTypes DEF SwitchUser, Dialogs
    <3>3. calls \in 0..MaxCalls
      BY <3>2
    <3> HIDE DEF calls
    <3> QED BY <3>1, <3>2, <3>3, DialogTypes, Zenon DEF Dialogs
  <2> QED BY <1>2, <2>1, DialogTypes, WidgetsKeep DEF SwitchUser, authVars
<1>3. CASE SeatReady
  <2>1. dialog' \in Dialogs /\ dialog'.alive /\ dialog'.shake = dialog.shake /\ dialog'.failures = dialog.failures
    BY <1>3, DialogTypes DEF SeatReady, Dialogs
  <2> QED BY <1>3, <2>1, DialogTypes, WidgetsKeep DEF SeatReady, authVars
<1>4. CASE GreeterReply
  <2>1. dialog' \in Dialogs /\ dialog'.alive /\ dialog'.shake = dialog.shake /\ dialog'.failures = dialog.failures
    <3>1. PICK ok \in BOOLEAN :
            dialog' = [dialog EXCEPT !.calls = dialog.calls - 1, !.emitCancel = TRUE,
                                     !.sensitive = dialog.sensitive /\ ok]
      BY <1>4 DEF GreeterReply
    <3>2. dialog.calls \in 0..MaxCalls /\ dialog.calls > 0 /\ dialog.alive
      BY <1>4, DialogTypes DEF GreeterReply, Dialogs
    <3>3. dialog.calls - 1 \in 0..MaxCalls
      BY <3>2
    <3> QED BY <3>1, <3>2, <3>3, DialogTypes, Zenon DEF Dialogs
  <2> QED BY <1>4, <2>1, DialogTypes, WidgetsKeep DEF GreeterReply
<1>5. CASE CancelTimeout
  <2>1. dialog' \in Dialogs /\ dialog'.alive /\ dialog'.shake = dialog.shake /\ dialog'.failures = dialog.failures
    BY <1>5, DialogTypes DEF CancelTimeout, Dialogs
  <2> QED BY <1>5, <2>1, DialogTypes, WidgetsKeep DEF CancelTimeout, authVars
<1>6. CASE ResetIdle
  <2>1. dialog' \in Dialogs /\ dialog'.alive /\ dialog'.shake = dialog.shake /\ dialog'.failures = dialog.failures
    BY <1>6, DialogTypes DEF ResetIdle, Dialogs
  <2> QED BY <1>6, <2>1, DialogTypes, WidgetsKeep DEF ResetIdle, authVars
<1> QED BY <1>1, <1>2, <1>3, <1>4, <1>5, <1>6

(* The shake ends in the next attempt or in the end of the dialog.            *)
LEMMA ShakeKeeps == ASSUME DialogInv, ShakeDone PROVE DialogInv'
<1> USE BoundsAssumption, DialogAssumption DEF Running, MainLoop
<1>1. CASE dialog.shake = "try_again"
  <2>1. /\ dialog' = TryAgain(dialog) /\ Verify
        /\ UNCHANGED <<auth, idles, setting, crashed, completed>> /\ crashed = "no" /\ dialog.alive
    BY <1>1 DEF ShakeDone
  <2>2. /\ dialog' \in Dialogs /\ dialog'.alive /\ dialog'.shake = "none" /\ dialog'.failures = dialog.failures
    BY <2>1, DialogTypes DEF TryAgain, Dialogs
  <2>3. worker' \in {worker, NewWorker}
    BY <2>1 DEF Verify
  <2>4. worker' \in Workers
    <3>1. <<>> \in Seq(Styles) /\ 0 \in 0..MaxConversations
      OBVIOUS
    <3>2. NewWorker \in Workers
      BY <3>1, Zenon DEF NewWorker, Workers, Places
    <3> QED BY <2>3, <3>2, DialogTypes
  <2>5. ~completed /\ dialog.failures < MaxFailures /\ ~auth.cancelled
    BY <1>1, <2>1 DEF DialogInv, OneAttempt
  <2>6. TypeOK'
    BY <2>1, <2>2, <2>4, DialogTypes DEF TypeOK, AuthTypeOK
  <2>7. MessagesFit'
    BY <2>1, <2>3 DEF DialogInv, MessagesFit, NewWorker
  <2>8. OneAttempt' /\ OneShake' /\ NothingOutlivesDialog' /\ NoExtraAttempt'
    BY <2>1, <2>2, <2>5 DEF DialogInv, OneAttempt, OneShake, NothingOutlivesDialog, NoExtraAttempt
  <2> QED BY <2>6, <2>7, <2>8 DEF DialogInv
<1>2. CASE dialog.shake = "max_failures"
  BY <1>2, DialogTypes, DestroyKeeps DEF ShakeDone
<1> QED BY <1>1, <1>2 DEF ShakeDone

(* The result of an attempt: the dialog goes, or shakes for the first time    *)
(* since the attempt began.                                                   *)
LEMMA VerifyKeeps == ASSUME DialogInv, VerifyDone PROVE DialogInv'
<1> USE BoundsAssumption, DialogAssumption DEF MainLoop
<1>1. completed /\ completed' = FALSE /\ crashed = "no"
  BY DEF VerifyDone
<1>2. CASE auth.cancelled /\ UNCHANGED <<auth, worker, idles, setting, crashed, dialog>>
  <2>1. TypeOK' /\ MessagesFit'
    BY <1>1, <1>2, DialogTypes DEF DialogInv, TypeOK, AuthTypeOK, MessagesFit
  <2>2. OneAttempt' /\ OneShake' /\ NothingOutlivesDialog' /\ NoExtraAttempt'
    BY <1>1, <1>2 DEF DialogInv, OneAttempt, OneShake, NothingOutlivesDialog, NoExtraAttempt
  <2> QED BY <2>1, <2>2 DEF DialogInv
<1>3. CASE Destroy
  BY <1>1, <1>3, DestroyKeeps
<1>4. CASE ~auth.cancelled /\ Failed
  <2>1. dialog.alive /\ dialog.shake = "none" /\ dialog.failures < MaxFailures /\ worker.pc \in {"none", "unref"}
    BY <1>1, <1>4, DialogTypes DEF DialogInv, OneAttempt, NoExtraAttempt, Dialogs
  <2>2. UNCHANGED <<auth, worker, idles, setting, crashed>>
    BY <1>1, <1>4, <2>1 DEF Failed
  <2>3. /\ dialog' \in Dialogs /\ dialog'.alive /\ dialog'.shake = ShakeEnd(dialog'.failures)
    <3>1. dialog' = [dialog EXCEPT !.failures = dialog.failures + 1, !.shake = ShakeEnd(dialog.failures + 1)]
      BY <1>4 DEF Failed
    <3>2. dialog.failures + 1 \in 0..MaxFailures
      BY <2>1, DialogTypes DEF Dialogs
    <3>3. ShakeEnd(dialog.failures + 1) \in {"none", "try_again", "max_failures"}
      BY DEF ShakeEnd
    <3> QED BY <2>1, <3>1, <3>2, <3>3, DialogTypes, Zenon DEF Dialogs
  <2>4. dialog'.shake = "try_again" => dialog'.failures < MaxFailures
    BY <2>3 DEF ShakeEnd
  <2>5. TypeOK' /\ MessagesFit'
    BY <1>1, <2>2, <2>3, DialogTypes DEF DialogInv, TypeOK, AuthTypeOK, MessagesFit
  <2>6. OneAttempt' /\ OneShake' /\ NothingOutlivesDialog' /\ NoExtraAttempt'
    BY <1>1, <1>4, <2>1, <2>2, <2>3, <2>4 DEF DialogInv, OneAttempt, OneShake, NothingOutlivesDialog, NoExtraAttempt
  <2> QED BY <2>5, <2>6 DEF DialogInv
<1> QED BY <1>2, <1>3, <1>4 DEF VerifyDone

LEMMA MessageKeeps == ASSUME DialogInv, Message PROVE DialogInv'
<1> USE BoundsAssumption, DialogAssumption DEF MainLoop
<1>1. /\ crashed = "no" /\ setting' \in Settings /\ idles' = Tail(idles) /\ idles # <<>>
      /\ UNCHANGED <<worker, completed>>
  BY DialogTypes DEF Message, ForgetMessage, BeginSetResponse, Settings
<1>2. idles' \in Seq(Messages) /\ Len(idles') = Len(idles) - 1 /\ Len(idles) \in Nat
  BY <1>1, DialogTypes, HeadTailProperties
<1>3. /\ auth' \in Auths /\ auth'.cancelled = auth.cancelled /\ crashed' \in {"no", "message"}
      /\ Len(auth'.ids) <= MaxMessages /\ (crashed' = "no" => Len(auth'.ids) <= Len(idles'))
  <2>1. CASE crashed' = "message" /\ UNCHANGED auth
    BY <2>1, DialogTypes
  <2>2. ASSUME NEW i \in DOMAIN auth.ids, auth' = [auth EXCEPT !.ids = RemoveAt(@, i)], UNCHANGED crashed
        PROVE  <1>3!:
    <3>1. auth.ids \in Seq(Ids) /\ Len(auth.ids) <= Len(idles) /\ Len(auth.ids) \in Nat
      BY <1>1, DialogTypes DEF Auths, DialogInv, MessagesFit
    <3>2. RemoveAt(auth.ids, i) \in Seq(Ids) /\ Len(RemoveAt(auth.ids, i)) = Len(auth.ids) - 1
      BY <2>2, <3>1, RemoveOne
    <3>3. auth' \in Auths /\ auth'.ids = RemoveAt(auth.ids, i) /\ auth'.cancelled = auth.cancelled
      BY <2>2, <3>2, DialogTypes DEF Auths
    <3> QED BY <1>1, <1>2, <2>2, <3>1, <3>2, <3>3, DialogTypes
  <2> QED BY <2>1, <2>2 DEF Message, ForgetMessage
<1>4. dialog' \in Dialogs /\ dialog'.alive = dialog.alive /\ dialog'.failures = dialog.failures
      /\ dialog'.shake = dialog.shake /\ (~dialog.alive => dialog' = dialog)
  <2>1. CASE ~dialog.alive
    BY <2>1, DialogTypes DEF Message
  <2>2. CASE dialog.alive
    <3> DEFINE shown == [dialog EXCEPT !.shown = TRUE, !.timeout = dialog.timeout \/ ~dialog.shown]
               clicked == UnlockClickedOn(shown)
    <3>1. PICK d \in {shown, clicked} :
            dialog' \in {d, [d EXCEPT !.sensitive = TRUE, !.timeout = TRUE]}
      BY <2>2 DEF Message
    <3>2. /\ shown \in Dialogs /\ shown.alive = dialog.alive /\ shown.failures = dialog.failures
          /\ shown.shake = dialog.shake
      BY DialogTypes, Zenon DEF Dialogs
    <3> HIDE DEF shown
    <3>3. /\ clicked \in Dialogs /\ clicked.alive = dialog.alive /\ clicked.failures = dialog.failures
          /\ clicked.shake = dialog.shake
      BY <3>2, Zenon DEF UnlockClickedOn, Dialogs
    <3> HIDE DEF clicked
    <3>4. /\ d \in Dialogs /\ d.alive = dialog.alive /\ d.failures = dialog.failures /\ d.shake = dialog.shake
      BY <3>1, <3>2, <3>3
    <3>5. LET e == [d EXCEPT !.sensitive = TRUE, !.timeout = TRUE]
          IN  e \in Dialogs /\ e.alive = d.alive /\ e.failures = d.failures /\ e.shake = d.shake
      BY <3>4, Zenon DEF Dialogs
    <3> QED BY <2>2, <3>1, <3>4, <3>5
  <2> QED BY <2>1, <2>2
<1>5. TypeOK'
  BY <1>1, <1>2, <1>3, <1>4, DialogTypes DEF TypeOK, AuthTypeOK, Asserts
<1>6. MessagesFit'
  BY <1>1, <1>2, <1>3 DEF DialogInv, MessagesFit
<1>7. OneAttempt' /\ OneShake' /\ NothingOutlivesDialog' /\ NoExtraAttempt'
  BY <1>1, <1>3, <1>4 DEF DialogInv, OneAttempt, OneShake, NothingOutlivesDialog, NoExtraAttempt
<1> QED BY <1>5, <1>6, <1>7 DEF DialogInv

LEMMA AnswerKeeps ==
    ASSUME DialogInv, UNCHANGED dialog, StoreResponse \/ SignalResponse PROVE DialogInv'
<1>1. CASE StoreResponse
  <2>1. /\ auth' \in Auths /\ auth'.ids = auth.ids /\ auth'.cancelled = auth.cancelled
        /\ setting' \in Settings /\ crashed' \in {"no", "response"} /\ crashed = "no"
        /\ UNCHANGED <<worker, idles, completed>>
    BY <1>1, DialogTypes DEF StoreResponse, Auths, Settings
  <2>2. TypeOK' /\ MessagesFit'
    BY <2>1, DialogTypes DEF TypeOK, AuthTypeOK, Asserts, DialogInv, MessagesFit
  <2>3. OneAttempt' /\ OneShake' /\ NothingOutlivesDialog' /\ NoExtraAttempt'
    BY <2>1 DEF DialogInv, OneAttempt, OneShake, NothingOutlivesDialog, NoExtraAttempt
  <2> QED BY <2>2, <2>3 DEF DialogInv
<1>2. CASE SignalResponse
  <2>1. /\ worker' \in Workers /\ worker'.todo = worker.todo
        /\ worker'.pc = worker.pc \/ (worker.pc = "wait" /\ worker'.pc = "woken")
        /\ setting' = "no" /\ UNCHANGED <<auth, idles, completed, crashed>>
    <3>1. CASE worker.pc = "wait" /\ worker' = [worker EXCEPT !.pc = "woken"]
      <4>1. worker' \in Workers /\ worker'.todo = worker.todo /\ worker'.pc = "woken"
        BY <3>1, DialogTypes, Zenon DEF Workers, Places
      <4> QED BY <1>2, <3>1, <4>1 DEF SignalResponse
    <3>2. CASE worker' = worker
      <4>1. setting' = "no" /\ UNCHANGED <<auth, idles, completed, crashed>>
        BY <1>2 DEF SignalResponse
      <4>2. worker \in Workers
        BY DialogTypes
      <4> QED BY <3>2, <4>1, <4>2, Zenon
    <3> QED BY <1>2, <3>1, <3>2 DEF SignalResponse
  <2>2. TypeOK' /\ MessagesFit'
    BY <2>1, DialogTypes DEF TypeOK, AuthTypeOK, Settings, DialogInv, MessagesFit
  <2>3. OneAttempt' /\ OneShake' /\ NothingOutlivesDialog' /\ NoExtraAttempt'
    BY <2>1 DEF DialogInv, OneAttempt, OneShake, NothingOutlivesDialog, NoExtraAttempt
  <2> QED BY <2>2, <2>3 DEF DialogInv
<1> QED BY <1>1, <1>2

LEMMA DialogStep == ASSUME DialogInv, [Next]_vars PROVE DialogInv'
<1>1. CASE Close \/ EmitCancel
  BY <1>1, DestroyKeeps DEF Close, EmitCancel, Running, MainLoop
<1>2. CASE Unlock \/ SwitchUser \/ SeatReady \/ GreeterReply \/ CancelTimeout \/ ResetIdle
  BY <1>2, UserKeeps
<1>3. CASE ShakeDone \/ Message \/ VerifyDone
  BY <1>3, ShakeKeeps, MessageKeeps, VerifyKeeps
<1>4. CASE UNCHANGED dialog /\ (StoreResponse \/ SignalResponse)
  BY <1>4, AnswerKeeps
<1>5. CASE ThreadStep
  BY <1>5, ThreadKeeps DEF ThreadStep, Thread
<1>6. CASE UNCHANGED vars
  BY <1>6 DEF vars, authVars, DialogInv, TypeOK, AuthTypeOK, MessagesFit, OneAttempt, OneShake,
       NothingOutlivesDialog, NoExtraAttempt
<1> QED BY <1>1, <1>2, <1>3, <1>4, <1>5, <1>6 DEF Next, MainLoopStep

(* The dialog is never asked to shake while it shakes, nothing that was meant *)
(* for it outlives it, and it makes no attempt beyond MAX_FAILURES: for any   *)
(* number of failures, of messages and of conversations, whatever PAM says    *)
(* and whenever its thread runs.                                              *)
THEOREM DialogAlwaysSafe ==
    Spec => [](TypeOK /\ OneShake /\ NothingOutlivesDialog /\ NoExtraAttempt)
<1>1. Init => DialogInv
  BY DialogBegins
<1>2. DialogInv /\ [Next]_vars => DialogInv'
  BY DialogStep
<1>3. DialogInv => TypeOK /\ OneShake /\ NothingOutlivesDialog /\ NoExtraAttempt
  BY DEF DialogInv
<1> QED BY <1>1, <1>2, <1>3, PTL DEF Spec

(* ------------------------------------------------------------ the grab ---- *)
LEMMA SeatTypes == ASSUME Seat!SeatInv, [Seat!Next]_(Seat!vars) PROVE Seat!TypeOK'
<1> USE SeatAssumption DEF Seat!SeatInv, Seat!TypeOK
<1>0. 0 \in 0..Retries /\ (x7 + 1 < Retries => x7 + 1 \in 0..Retries)
  OBVIOUS
<1>1. CASE Seat!Take \/ Seat!Move
  BY <1>0, <1>1 DEF Seat!Take, Seat!Move, Seat!Start
<1>2. CASE Seat!TakeAttempt
  <2>1. x5 \in Windows
    BY <1>2 DEF Seat!TakeAttempt
  <2> QED BY <1>0, <1>2, <2>1 DEF Seat!TakeAttempt, Seat!Done, Seat!Idle, Seat!MoveInputFocus
<1>3. CASE Seat!MoveAttempt
  <2>1. x5 \in Windows
    BY <1>3 DEF Seat!MoveAttempt
  <2> QED BY <1>0, <1>3, <2>1 DEF Seat!MoveAttempt, Seat!Done, Seat!Idle, Seat!Released
<1>4. CASE Seat!Release \/ Seat!Goes \/ Seat!OtherTakes \/ Seat!OtherReleases
  BY <1>4 DEF Seat!Release, Seat!Released, Seat!Goes, Seat!OtherTakes, Seat!OtherReleases, Seat!running
<1>5. CASE UNCHANGED Seat!vars
  BY <1>5 DEF Seat!vars, Seat!running
<1> QED BY <1>1, <1>2, <1>3, <1>4, <1>5 DEF Seat!Next

LEMMA SeatStep == ASSUME Seat!SeatInv, [Seat!Next]_(Seat!vars) PROVE Seat!SeatInv'
<1>0. /\ x3 \subseteq Windows /\ x4 \in {"none", "take", "move"} /\ x10 \in Windows \cup {None}
      /\ Seat!TypeOK'
  BY SeatTypes DEF Seat!SeatInv, Seat!TypeOK
<1> USE <1>0, SeatAssumption DEF Seat!SeatInv, Seat!SeatIsKnown
<1>1. CASE Seat!Take
  BY <1>1 DEF Seat!Take, Seat!Start
<1>2. CASE Seat!TakeAttempt
  BY <1>2 DEF Seat!TakeAttempt, Seat!Done, Seat!Idle, Seat!Granted, Seat!MoveInputFocus
<1>3. CASE Seat!Move
  BY <1>3 DEF Seat!Move, Seat!Start
<1>4. CASE Seat!MoveAttempt
  BY <1>4 DEF Seat!MoveAttempt, Seat!Done, Seat!Idle, Seat!Granted, Seat!Released
<1>5. CASE Seat!Release
  BY <1>5 DEF Seat!Release, Seat!Released, Seat!running
<1>6. CASE Seat!Goes
  BY <1>6 DEF Seat!Goes, Seat!running
<1>7. CASE Seat!OtherTakes
  BY <1>7 DEF Seat!OtherTakes, Seat!running
<1>9. CASE Seat!OtherReleases
  BY <1>9 DEF Seat!OtherReleases, Seat!running
<1>8. CASE UNCHANGED Seat!vars
  BY <1>8 DEF Seat!vars, Seat!running
<1> HIDE DEF Seat!SeatInv, Seat!SeatIsKnown
<1> QED BY <1>1, <1>2, <1>3, <1>4, <1>5, <1>6, <1>7, <1>8, <1>9 DEF Seat!Next

LEMMA SeatBegins == ASSUME Seat!Init PROVE Seat!SeatInv
<1>1. 0 \in 0..Retries
  BY SeatAssumption
<1>2. Seat!TypeOK
  BY <1>1, Zenon DEF Seat!Init, Seat!TypeOK
<1>3. Seat!SeatIsKnown
  BY SeatAssumption DEF Seat!Init, Seat!SeatIsKnown
<1> QED BY <1>2, <1>3 DEF Seat!Init, Seat!SeatInv

(* GfGrab always knows where keyboard and pointer are, for any windows and    *)
(* any number of retries, whatever other programs take.                       *)
THEOREM SeatAlwaysKnown == AllSpec => []SeatIsKnown
<1> DEFINE Inv == part = "seat" => Seat!SeatInv
<1>1. AllInit => Inv
  BY SeatBegins DEF AllInit, DialogInit
<1>2. Inv /\ [AllNext]_all => Inv'
  <2> SUFFICES ASSUME part' = "seat", Inv, [AllNext]_all PROVE Seat!SeatInv'
    OBVIOUS
  <2>1. part = "seat" /\ [Seat!Next]_(Seat!vars)
    BY DEF AllNext, all, rest, InDialog, InListener, InAgent, InSeat, InGamma, Seat!vars, Seat!running
  <2> QED BY <2>1, SeatStep
<1>3. Inv => SeatIsKnown
  BY DEF SeatIsKnown, Seat!SeatInv
<1> QED BY <1>1, <1>2, <1>3, PTL DEF AllSpec

(* ------------------------------------------------------------ the fade ---- *)
(* A bright shade that is dimmed to a step is at that step.                   *)
LEMMA DimOfBright ==
    ASSUME NEW shade \in Gamma!Shades, shade.step = Full, NEW a \in 0..Full
    PROVE  /\ Gamma!Dim(shade, a) \in Gamma!Shades /\ Gamma!Dim(shade, a).step = a
           /\ Gamma!Dim(shade, Full) = shade
<1>1. Gamma!Dim(shade, a) = [shade EXCEPT !.step = a] /\ Gamma!Dim(shade, Full) = [shade EXCEPT !.step = Full]
  BY DEF Gamma!Dim, Gamma!Shades
<1> QED BY <1>1 DEF Gamma!Shades

(* What set_alpha writes, when what is saved is bright.                       *)
LEMMA SetAlphaShows ==
    ASSUME Gamma!FadeInv, NEW a \in 0..Full, Gamma!SetAlpha(a)
    PROVE  /\ x2 = None => x6' = x6
           /\ x2 # None => /\ x6'.ramp = Gamma!Dim(x2.shade, a) /\ x6' \in [number : Gamma!Shades, ramp : Gamma!Shades]
                           /\ x2.how = "ramp" => x6'.number = x6.number
                           /\ x2.how # "ramp" => x6'.number = Gamma!Dim(x2.shade, a)
<1>1. CASE x2 = None
  BY <1>1 DEF Gamma!SetAlpha, Gamma!WhackGamma
<1>2. CASE x2 # None
  <2>1. /\ x1 # "none" /\ x2.shade \in Gamma!Shades /\ x2.shade.step = Full
        /\ x6 \in [number : Gamma!Shades, ramp : Gamma!Shades]
    BY <1>2 DEF Gamma!FadeInv, Gamma!TypeOK, Gamma!GammaComesBack
  <2> DEFINE dim == Gamma!Dim(x2.shade, a)
  <2>2. dim \in Gamma!Shades
    BY <2>1, DimOfBright
  <2>3. x6' = IF x2.how = "ramp" THEN [x6 EXCEPT !.ramp = dim] ELSE [number |-> dim, ramp |-> dim]
    BY <1>2, <2>1 DEF Gamma!SetAlpha, Gamma!WhackGamma
  <2> HIDE DEF dim
  <2>4. /\ x6'.ramp = dim /\ x6' \in [number : Gamma!Shades, ramp : Gamma!Shades]
        /\ x2.how = "ramp" => x6'.number = x6.number
        /\ x2.how # "ramp" => x6'.number = dim
    BY <2>1, <2>2, <2>3
  <2> QED BY <1>2, <2>4 DEF dim
<1> QED BY <1>1, <1>2

(* The gamma is restored, and what was saved is forgotten.                    *)
LEMMA GammaRestored ==
    ASSUME Gamma!FadeInv, Gamma!SetAlpha(Full), x2' = None, x7' = x7,
           x1' \in Gamma!CheckGammaExtension, x3' = Full, x4' = FALSE, x5' \in 0..MaxTasks
    PROVE  Gamma!FadeInv'
<1>0. Full \in 0..Full
  BY GammaAssumption
<1>1. /\ x6 \in [number : Gamma!Shades, ramp : Gamma!Shades]
      /\ x7 \in [gamma : Gammas, how : {"ramp", "number"}] \cup {None}
      /\ x2 \in [how : {"ramp", "number"}, shade : Gamma!Shades] \cup {None}
      /\ x2 # None => x2.shade.step = Full
      /\ x2 = None => x6.number.step = Full /\ x6.ramp.step = Full
      /\ x7 # None => IF x2 = None THEN x6.ramp = Gamma!Bright(x7.gamma) ELSE x2.shade = Gamma!Bright(x7.gamma)
      /\ x2 # None /\ x2.how = "ramp" => x6.number.step = Full
      /\ x7 # None /\ x7.how = "number" /\ (x2 = None \/ x2.how = "ramp") => x6.number = Gamma!Bright(x7.gamma)
  BY DEF Gamma!FadeInv, Gamma!TypeOK, Gamma!GammaComesBack
<1>2. /\ x6' \in [number : Gamma!Shades, ramp : Gamma!Shades] /\ x6'.number.step = Full /\ x6'.ramp.step = Full
      /\ x7 # None => x6'.ramp = Gamma!Bright(x7.gamma)
      /\ x7 # None /\ x7.how = "number" => x6'.number = Gamma!Bright(x7.gamma)
  <2>1. CASE x2 = None
    BY <1>0, <1>1, <2>1, SetAlphaShows
  <2>2. CASE x2 # None
    <3>1. x2.shade \in Gamma!Shades /\ Gamma!Dim(x2.shade, Full) = x2.shade
      BY <1>0, <1>1, <2>2, DimOfBright
    <3>2. /\ x6' \in [number : Gamma!Shades, ramp : Gamma!Shades] /\ x6'.ramp = x2.shade
          /\ x2.how = "ramp" => x6'.number = x6.number
          /\ x2.how # "ramp" => x6'.number = x2.shade
      BY <1>0, <2>2, <3>1, SetAlphaShows
    <3> QED BY <1>1, <2>2, <3>2
  <2> QED BY <2>1, <2>2
<1> QED BY <1>0, <1>1, <1>2 DEF Gamma!FadeInv, Gamma!TypeOK, Gamma!GammaComesBack

LEMMA GammaStep == ASSUME Gamma!FadeInv, [Gamma!Next]_(Gamma!vars) PROVE Gamma!FadeInv'
<1> USE GammaAssumption
<1>0. /\ x1 \in Gamma!CheckGammaExtension /\ x2 \in [how : {"ramp", "number"}, shade : Gamma!Shades] \cup {None}
      /\ x3 \in 0..Full /\ x4 \in BOOLEAN /\ x5 \in 0..MaxTasks
      /\ x6 \in [number : Gamma!Shades, ramp : Gamma!Shades]
      /\ x7 \in [gamma : Gammas, how : {"ramp", "number"}] \cup {None}
      /\ x2 # None => x2.shade.step = Full
      /\ x2 = None => x6.number.step = Full /\ x6.ramp.step = Full
      /\ x7 # None => IF x2 = None THEN x6.ramp = Gamma!Bright(x7.gamma) ELSE x2.shade = Gamma!Bright(x7.gamma)
      /\ x1 = "none" => x2 = None
      /\ x2 # None /\ x2.how = "ramp" => x6.number.step = Full
      /\ x7 # None /\ x7.how = "number" /\ (x2 = None \/ x2.how = "ramp") => x6.number = Gamma!Bright(x7.gamma)
  BY DEF Gamma!FadeInv, Gamma!TypeOK, Gamma!GammaComesBack
<1>s. Gamma!Zeroes \in Gamma!Shades /\ Gamma!Zeroes.step = Full
  BY DEF Gamma!Zeroes, Gamma!Bright, Gamma!Shades
<1>1. CASE Gamma!FadeAsync
  <2>1. UNCHANGED <<x3, x6>> /\ x5 < MaxTasks /\ Gamma!FadeStart
    BY <1>1 DEF Gamma!FadeAsync
  <2>2. x4' \in BOOLEAN /\ x5' \in 0..MaxTasks
    <3>1. 0 \in 0..MaxTasks /\ x5 + 1 \in 0..MaxTasks
      BY <1>0, <2>1
    <3>2. x4' \in {TRUE, FALSE} /\ x5' \in {x5 + 1, 0}
      BY <2>1 DEF Gamma!FadeStart
    <3> QED BY <3>1, <3>2
  <2>3. /\ x1' \in Gamma!CheckGammaExtension
        /\ x1' = "none" => x2' = None
        /\ x2' \in [how : {"ramp", "number"}, shade : Gamma!Shades] \cup {None}
        /\ x7' \in {x7, None}
        /\ x2 # None => x2' = x2
        /\ x2 = None /\ x2' # None =>
              /\ x2'.shade \in {x6.ramp, x6.number, Gamma!Zeroes}
              /\ x2'.shade = Gamma!Zeroes /\ x2'.shade # x6.number /\ x2'.shade # x6.ramp => x7' = None
              /\ x7' # None => IF x2'.how = "ramp" THEN x2'.shade = x6.ramp
                               ELSE x2'.shade = x6.number /\ x7'.how = "number"
    <3>1. CASE Gamma!Setup /\ x2 # None
      BY <1>0, <3>1 DEF Gamma!Setup
    <3>2. CASE Gamma!Setup /\ x2 = None
      <4>1. CASE x1' = "ramp" /\ x2' = [how |-> "ramp", shade |-> x6.ramp] /\ x7' = x7
        BY <1>0, <3>2, <4>1 DEF Gamma!CheckGammaExtension
      <4>2. CASE x1' = "number" /\ x2' = [how |-> "ramp", shade |-> Gamma!Zeroes] /\ x7' = None
        BY <1>0, <1>s, <3>2, <4>2 DEF Gamma!CheckGammaExtension
      <4>3. CASE /\ x1' = "number" /\ x2' = [how |-> "number", shade |-> x6.number]
                 /\ x7' = IF x7 # None /\ x7.how = "number" THEN x7 ELSE None
        BY <1>0, <3>2, <4>3 DEF Gamma!CheckGammaExtension
      <4> QED BY <3>2, <4>1, <4>2, <4>3 DEF Gamma!Setup, Gamma!Reads
    <3>3. CASE ~Gamma!Setup
      BY <1>0, <2>1, <3>3 DEF Gamma!FadeStart, Gamma!CheckGammaExtension
    <3> QED BY <3>1, <3>2, <3>3
  <2>4. /\ x2' # None => x2'.shade.step = Full
        /\ x7' # None => IF x2' = None THEN x6.ramp = Gamma!Bright(x7'.gamma) ELSE x2'.shade = Gamma!Bright(x7'.gamma)
        /\ x2' # None /\ x2'.how = "ramp" => x6.number.step = Full
        /\ x2' = None => x2 = None
        /\ x7' # None /\ x7'.how = "number" /\ (x2' = None \/ x2'.how = "ramp") => x6.number = Gamma!Bright(x7'.gamma)
    <3>1. CASE x2 # None
      BY <1>0, <2>3, <3>1
    <3>2. CASE x2 = None
      BY <1>0, <1>s, <2>3, <3>2
    <3> QED BY <3>1, <3>2
  <2>5. x7' \in [gamma : Gammas, how : {"ramp", "number"}] \cup {None}
    BY <1>0, <2>3
  <2>9. /\ x1' \in Gamma!CheckGammaExtension' /\ x3' \in 0..Full
        /\ x2' \in [how : {"ramp", "number"}, shade : Gamma!Shades] \cup {None}
        /\ x6' \in [number : Gamma!Shades, ramp : Gamma!Shades]
    <3>1. x3' = x3 /\ x6' = x6
      BY <2>1
    <3> QED BY ONLY <3>1, <1>0, <2>3, Zenon DEF Gamma!CheckGammaExtension
  <2>6. Gamma!TypeOK'
    BY ONLY <2>2, <2>5, <2>9 DEF Gamma!TypeOK, Gamma!Shades
  <2>7. x6' = x6 /\ (x2' = None => x6.number.step = Full /\ x6.ramp.step = Full)
    BY <1>0, <2>1, <2>4
  <2>8. Gamma!GammaComesBack'
    BY ONLY <2>4, <2>7, Zenon DEF Gamma!GammaComesBack, Gamma!Bright
  <2>a. /\ x2' # None /\ x2'.how = "ramp" => x6'.number.step = Full
        /\ x7' # None /\ x7'.how = "number" /\ (x2' = None \/ x2'.how = "ramp") => x6'.number = Gamma!Bright(x7'.gamma)
    BY ONLY <2>4, <2>7, Zenon
  <2>b. x1' = "none" => x2' = None
    BY <2>3
  <2> QED BY ONLY <2>6, <2>8, <2>a, <2>b, Zenon DEF Gamma!FadeInv, Gamma!Bright
<1>3. CASE Gamma!FadeOut
  <2>1. /\ UNCHANGED <<x1, x2, x7>> /\ x4' \in BOOLEAN /\ x5' \in 0..MaxTasks
        /\ \/ UNCHANGED <<x3, x6>>
           \/ x3' = x3 - 1 /\ x3 # 0 /\ Gamma!SetAlpha(x3 - 1)
    <3>0. 0 \in 0..MaxTasks
      OBVIOUS
    <3>1. CASE x3 = 0
      BY <1>0, <1>3, <3>0, <3>1, Zenon DEF Gamma!FadeOut
    <3>2. CASE x3 # 0
      BY <1>0, <1>3, <3>2, Zenon DEF Gamma!FadeOut
    <3> QED BY <3>1, <3>2
  <2>2. x3 # 0 => x3 - 1 \in 0..Full
    BY <1>0
  <2>3. CASE UNCHANGED <<x3, x6>>
    BY <1>0, <2>1, <2>3 DEF Gamma!FadeInv, Gamma!TypeOK, Gamma!GammaComesBack
  <2>4. CASE x3' = x3 - 1 /\ x3 # 0 /\ Gamma!SetAlpha(x3 - 1)
    <3>1. /\ x2 = None => x6' = x6
          /\ x2 # None => x6' \in [number : Gamma!Shades, ramp : Gamma!Shades]
          /\ x2 # None /\ x2.how = "ramp" => x6'.number = x6.number
      BY <2>2, <2>4, SetAlphaShows
    <3>2. x3' \in 0..Full
      BY <2>2, <2>4
    <3> QED BY <1>0, <2>1, <3>1, <3>2 DEF Gamma!FadeInv, Gamma!TypeOK, Gamma!GammaComesBack
  <2> QED BY <2>1, <2>3, <2>4
<1>4. CASE Gamma!Reset
  BY <1>0, <1>4, GammaRestored DEF Gamma!Reset
<1>5. CASE Gamma!Dispose
  <2>1. 0 \in 0..MaxTasks
    OBVIOUS
  <2> QED BY <1>5, <2>1, GammaRestored DEF Gamma!Dispose
<1>6. CASE Gamma!OtherSets
  <2>1. PICK g \in Gammas, how \in {"ramp", "number"} :
          /\ x6' = [number |-> IF how = "number" THEN Gamma!Bright(g) ELSE x6.number, ramp |-> Gamma!Bright(g)]
          /\ x7' = IF x2 = None THEN [gamma |-> g, how |-> how] ELSE None
          /\ UNCHANGED <<x1, x2, x3, x4, x5>>
    BY <1>6 DEF Gamma!OtherSets
  <2>2. Gamma!Bright(g) \in Gamma!Shades /\ Gamma!Bright(g).step = Full
    BY DEF Gamma!Bright, Gamma!Shades
  <2> HIDE DEF Gamma!Bright
  <2>3. /\ x6' \in [number : Gamma!Shades, ramp : Gamma!Shades] /\ x6'.ramp = Gamma!Bright(g)
        /\ x6'.number = IF how = "number" THEN Gamma!Bright(g) ELSE x6.number
    BY <1>0, <2>1, <2>2
  <2>4. /\ x7' \in [gamma : Gammas, how : {"ramp", "number"}] \cup {None}
        /\ x2 # None => x7' = None
        /\ x2 = None => x7'.gamma = g /\ x7'.how = how
    BY <2>1
  <2> QED BY <1>0, <2>1, <2>2, <2>3, <2>4 DEF Gamma!FadeInv, Gamma!TypeOK, Gamma!GammaComesBack
<1>7. CASE UNCHANGED Gamma!vars
  BY <1>0, <1>7 DEF Gamma!vars, Gamma!FadeInv, Gamma!TypeOK, Gamma!GammaComesBack
<1> QED BY <1>1, <1>3, <1>4, <1>5, <1>6, <1>7 DEF Gamma!Next

LEMMA GammaBegins == ASSUME Gamma!Init PROVE Gamma!FadeInv
<1>1. Full \in 0..Full /\ 0 \in 0..MaxTasks
  BY GammaAssumption
<1>2. PICK g \in Gammas : /\ x6 = [number |-> Gamma!Bright(g), ramp |-> Gamma!Bright(g)]
                          /\ x7 = [gamma |-> g, how |-> "number"]
  BY DEF Gamma!Init
<1>3. Gamma!Bright(g) \in Gamma!Shades /\ Gamma!Bright(g).step = Full
  BY <1>1 DEF Gamma!Bright, Gamma!Shades
<1>4. /\ x6 \in [number : Gamma!Shades, ramp : Gamma!Shades] /\ x6.ramp = Gamma!Bright(g) /\ x6.number = Gamma!Bright(g)
      /\ x7 \in [gamma : Gammas, how : {"ramp", "number"}] /\ x7.gamma = g
  BY <1>2, <1>3
<1>5. /\ x1 \in Gamma!CheckGammaExtension /\ x2 = None /\ x3 = Full /\ x4 = FALSE /\ x5 = 0
  BY DEF Gamma!Init
<1> QED BY <1>1, <1>3, <1>4, <1>5 DEF Gamma!FadeInv, Gamma!TypeOK, Gamma!GammaComesBack

(* A dark screen always comes back, for any gammas and steps, although other  *)
(* programs set the gamma during a fade; to the very gamma that was chosen    *)
(* last, unless it was lost in one of the three ways GammaComesBack names.    *)
THEOREM GammaAlwaysComesBack == AllSpec => []GammaComesBack
<1> DEFINE Inv == part = "gamma" => Gamma!FadeInv
<1>1. AllInit => Inv
  BY GammaBegins DEF AllInit, DialogInit
<1>2. Inv /\ [AllNext]_all => Inv'
  <2> SUFFICES ASSUME part' = "gamma", Inv, [AllNext]_all PROVE Gamma!FadeInv'
    OBVIOUS
  <2>1. part = "gamma" /\ [Gamma!Next]_(Gamma!vars)
    BY DEF AllNext, all, rest, InDialog, InListener, InAgent, InSeat, InGamma, Gamma!vars
  <2> QED BY <2>1, GammaStep
<1>3. Inv => GammaComesBack
  BY DEF GammaComesBack, Gamma!FadeInv
<1> QED BY <1>1, <1>2, <1>3, PTL DEF AllSpec

(* ------------------------------------------------- the polkit agent -------- *)

(* flashback_authenticator_cancel ends the session and the prompt; the rest   *)
(* of the authenticator stays.                                                *)
LEMMA CancelEnds ==
    ASSUME NEW a \in Agent!Authenticators
    PROVE  /\ Agent!CancelAuth(a) \in Agent!Authenticators
           /\ Agent!CancelAuth(a).session # "live"
           /\ Agent!CancelAuth(a).pc = a.pc /\ Agent!CancelAuth(a).tries = a.tries
           /\ a.pc = "prompting" =>
                Agent!CancelAuth(a).innerQuit /\ Agent!CancelAuth(a).response = "cancel"
<1> DEFINE b == Agent!CancelDialog(a)
<1>1. /\ b \in Agent!Authenticators /\ b.pc = a.pc /\ b.tries = a.tries
      /\ a.pc = "prompting" => b.innerQuit /\ b.response = "cancel"
  <2>1. CASE a.pc \in {"choosing", "prompting"}
    <3>1. b = [a EXCEPT !.response = "cancel", !.innerQuit = TRUE] BY <2>1 DEF Agent!CancelDialog
    <3>2. b \in Agent!Authenticators BY <3>1 DEF Agent!Authenticators
    <3>3. b.pc = a.pc /\ b.tries = a.tries /\ b.innerQuit /\ b.response = "cancel"
      BY <3>1 DEF Agent!Authenticators
    <3> QED BY <3>2, <3>3
  <2>2. CASE a.pc \notin {"choosing", "prompting"} BY <2>2 DEF Agent!CancelDialog
  <2> QED BY <2>1, <2>2
<1> HIDE DEF b
<1>2. /\ Agent!CancelSession(b) \in Agent!Authenticators
      /\ Agent!CancelSession(b).session # "live"
      /\ Agent!CancelSession(b).pc = b.pc /\ Agent!CancelSession(b).tries = b.tries
      /\ Agent!CancelSession(b).innerQuit = b.innerQuit
      /\ Agent!CancelSession(b).response = b.response
  <2>1. CASE b.session = "live"
    <3>1. Agent!CancelSession(b) = [b EXCEPT !.session = "over", !.gained = FALSE, !.outerQuit = TRUE]
      BY <2>1 DEF Agent!CancelSession
    <3>2. Agent!CancelSession(b) \in Agent!Authenticators BY <1>1, <3>1 DEF Agent!Authenticators
    <3>3. /\ Agent!CancelSession(b).session = "over"
          /\ Agent!CancelSession(b).pc = b.pc /\ Agent!CancelSession(b).tries = b.tries
          /\ Agent!CancelSession(b).innerQuit = b.innerQuit
          /\ Agent!CancelSession(b).response = b.response
      BY <1>1, <3>1 DEF Agent!Authenticators
    <3> QED BY <3>2, <3>3
  <2>2. CASE b.session # "live" BY <1>1, <2>2 DEF Agent!CancelSession
  <2> QED BY <2>1, <2>2
<1> QED BY <1>1, <1>2 DEF Agent!CancelAuth, b

(* ... and whatever it ends is consistent.                                    *)
LEMMA CancelledIsOfUser ==
    ASSUME NEW a \in Agent!Authenticators, a.pc # "shaking" => a.tries < 3
    PROVE  Agent!SessionIsOfUser(Agent!CancelAuth(a))
  BY CancelEnds DEF Agent!SessionIsOfUser

(* The session that do_initiate makes is of the user who is chosen then.      *)
LEMMA StartedIsOfUser ==
    ASSUME NEW a \in Agent!Authenticators, a.tries < 3, NEW b \in Agent!StartSession(a)
    PROVE  b \in Agent!Authenticators /\ Agent!SessionIsOfUser(b)
<1>1. PICK s \in {"live", "over"} :
        b = [a EXCEPT !.pc = "talking", !.session = s, !.sessionUser = a.user,
                      !.gained = IF s = "over" THEN FALSE ELSE @,
                      !.innerQuit = FALSE, !.outerQuit = FALSE]
  BY DEF Agent!StartSession
<1>2. b \in Agent!Authenticators BY <1>1 DEF Agent!Authenticators
<1>3. b.pc = "talking" /\ b.sessionUser = b.user /\ b.outerQuit = FALSE /\ b.tries = a.tries
  BY <1>1 DEF Agent!Authenticators
<1> QED BY <1>2, <1>3 DEF Agent!SessionIsOfUser

(* A new authenticator has no session.                                        *)
LEMMA NewIsOfUser ==
    ASSUME NEW u \in Users \cup {None}
    PROVE  Agent!New(u) \in Agent!Authenticators /\ Agent!SessionIsOfUser(Agent!New(u))
<1>1. 0 \in 0 .. 3 /\ 0 < 3 OBVIOUS
<1> QED BY <1>1 DEF Agent!New, Agent!Authenticators, Agent!SessionIsOfUser

(* g_list_remove of the first link leaves the others.                         *)
LEMMA RemoveHead ==
    ASSUME NEW S, NEW s \in Seq(S), s # <<>>
    PROVE  Agent!RemoveFirst(s, Head(s)) = Tail(s)
<1>1. Len(s) \in Nat /\ Len(s) > 0 /\ Head(s) = s[1] BY EmptySeq
<1> DEFINE I == {i \in 1 .. Len(s) : s[i] = Head(s)}
<1>2. 1 \in I /\ \A i \in I : i \in Nat /\ 1 <= i BY <1>1
<1>3. Agent!Min(I) = 1
  <2>1. \A y \in I : 1 <= y BY <1>2
  <2>2. \A x \in I : (\A y \in I : x <= y) => x = 1
    BY <1>2
  <2> HIDE DEF I
  <2> QED BY <1>2, <2>1, <2>2 DEF Agent!Min
<1>4. Agent!SelectInSeq(s, LAMBDA v : v = Head(s)) = 1
  BY <1>2, <1>3 DEF Agent!SelectInSeq
<1>5. Agent!RemoveAt(s, 1) = Tail(s)
  <2>1. SubSeq(s, 1, 0) = <<>> /\ SubSeq(s, 2, Len(s)) = Tail(s) BY <1>1
  <2>2. Tail(s) \in Seq(S) BY <1>1
  <2>3. <<>> \o Tail(s) = Tail(s) BY <2>2
  <2> QED BY <2>1, <2>3 DEF Agent!RemoveAt
<1>6. \E i \in 1 .. Len(s) : s[i] = Head(s) BY <1>2
<1> QED BY <1>4, <1>5, <1>6 DEF Agent!RemoveFirst

(* maybe_initiate_next_authenticator takes the first that waits, if none is   *)
(* active, and begins with no session.                                        *)
LEMMA NextIsFirst ==
    ASSUME NEW queue \in Seq(Requests), NEW current \in Requests \cup {None},
           Agent!InitiateNext(queue, current), None \notin Requests,
           current = None \/ (queue # <<>> /\ current = Head(queue)),
           x3 \in Agent!Authenticators, Agent!SessionIsOfUser(x3)
    PROVE  /\ x2' = IF queue = <<>> THEN None ELSE Head(queue)
           /\ x2' \in Requests \cup {None}
           /\ x3' \in Agent!Authenticators /\ Agent!SessionIsOfUser(x3')
<1>1. queue # <<>> => Head(queue) \in Requests BY EmptySeq
<1>2. CASE current = None /\ queue # <<>>
  <2>1. PICK u \in Agent!Preselected : x3' = Agent!New(u) /\ x2' = Head(queue)
    BY <1>2 DEF Agent!InitiateNext
  <2>2. u \in Users \cup {None} BY DEF Agent!Preselected
  <2> QED BY <1>1, <1>2, <2>1, <2>2, NewIsOfUser
<1>3. CASE ~(current = None /\ queue # <<>>)
  <2>1. x2' = current /\ x3' = x3 BY <1>3 DEF Agent!InitiateNext
  <2> QED BY <1>1, <1>3, <2>1
<1> QED BY <1>2, <1>3

(* completed_cb: the request that is active has its answer, the next one of   *)
(* the list becomes active.                                                   *)
LEMMA AnswersFirst ==
    ASSUME Agent!AgentInv, x2 # None, NEW dismissed, Agent!Completed(dismissed), None \notin Requests
    PROVE  /\ x1' \in Seq(Requests) /\ x2' \in Requests \cup {None}
           /\ x3' \in Agent!Authenticators /\ Agent!SessionIsOfUser(x3')
           /\ x6' \in [Requests -> {"new", "waiting", "failed", "cancelled", "dismissed", "done"}]
           /\ Agent!ServedInOrder' /\ Agent!ListedOnce'
<1>1. /\ x1 \in Seq(Requests) /\ x1 # <<>> /\ x2 = Head(x1) /\ x2 \in Requests
  BY DEF Agent!AgentInv, Agent!TypeOK, Agent!ServedInOrder
<1>2. x1' = Tail(x1) BY <1>1, RemoveHead DEF Agent!Completed
<1>3. /\ Len(x1) \in Nat /\ Len(x1) > 0 /\ x2 = x1[1]
      /\ x1' \in Seq(Requests) /\ Len(x1') = Len(x1) - 1
      /\ \A i \in 1 .. Len(x1) - 1 : x1'[i] = x1[i + 1]
  BY <1>1, <1>2, EmptySeq
<1>4. /\ DOMAIN x1 = 1 .. Len(x1) /\ DOMAIN x1' = 1 .. Len(x1) - 1
  BY <1>1, <1>3
<1>5. Agent!ToSet(x1') = Agent!ToSet(x1) \ {x2}
  <2>1. \A i, j \in DOMAIN x1 : x1[i] = x1[j] => i = j BY DEF Agent!AgentInv, Agent!ListedOnce
  <2>2. ASSUME NEW r \in Agent!ToSet(x1') PROVE r \in Agent!ToSet(x1) \ {x2}
    <3>1. PICK i \in 1 .. Len(x1) - 1 : r = x1'[i] BY <1>4, <2>2 DEF Agent!ToSet
    <3>2. i + 1 \in DOMAIN x1 /\ r = x1[i + 1] /\ 1 \in DOMAIN x1 /\ i + 1 # 1 BY <1>3, <1>4, <3>1
    <3>3. r # x1[1] BY <2>1, <3>2
    <3> QED BY <1>3, <3>2, <3>3 DEF Agent!ToSet
  <2>3. ASSUME NEW r \in Agent!ToSet(x1) \ {x2} PROVE r \in Agent!ToSet(x1')
    <3>1. PICK i \in 1 .. Len(x1) : r = x1[i] BY <1>4, <2>3 DEF Agent!ToSet
    <3>2. i # 1 BY <1>3, <2>3, <3>1
    <3>3. i - 1 \in 1 .. Len(x1) - 1 /\ (i - 1) + 1 = i BY <1>3, <3>1, <3>2
    <3>4. x1'[i - 1] = r BY <1>3, <3>1, <3>3
    <3> QED BY <1>4, <3>3, <3>4 DEF Agent!ToSet
  <2> QED BY <2>2, <2>3
<1>6. /\ x6' \in [Requests -> {"new", "waiting", "failed", "cancelled", "dismissed", "done"}]
      /\ x6'[x2] # "waiting" /\ \A r \in Requests \ {x2} : x6'[r] = x6[r]
  <2>1. PICK answer \in {"cancelled", "dismissed", "done"} : x6' = [x6 EXCEPT ![x2] = answer]
    BY DEF Agent!Completed
  <2>2. x6 \in [Requests -> {"new", "waiting", "failed", "cancelled", "dismissed", "done"}]
    BY DEF Agent!AgentInv, Agent!TypeOK
  <2> QED BY <1>1, <2>1, <2>2
<1>7. {r \in Requests : x6'[r] = "waiting"} = Agent!ToSet(x1')
  BY <1>1, <1>5, <1>6 DEF Agent!AgentInv, Agent!ServedInOrder
<1>8. Agent!ListedOnce'
  <2>1. \A i, j \in 1 .. Len(x1) : x1[i] = x1[j] => i = j
    BY <1>4 DEF Agent!AgentInv, Agent!ListedOnce
  <2>2. ASSUME NEW i \in 1 .. Len(x1) - 1, NEW j \in 1 .. Len(x1) - 1, x1'[i] = x1'[j] PROVE i = j
    <3>1. i + 1 \in 1 .. Len(x1) /\ j + 1 \in 1 .. Len(x1) /\ x1[i + 1] = x1[j + 1]
      BY <1>3, <2>2
    <3>2. i + 1 = j + 1 BY <2>1, <3>1
    <3> QED BY <3>2
  <2> QED BY <1>4, <2>2 DEF Agent!ListedOnce
<1>9. /\ x2' = IF x1' = <<>> THEN None ELSE Head(x1')
      /\ x2' \in Requests \cup {None}
      /\ x3' \in Agent!Authenticators /\ Agent!SessionIsOfUser(x3')
  <2>1. Agent!InitiateNext(x1', None) BY DEF Agent!Completed
  <2>2. x3 \in Agent!Authenticators /\ Agent!SessionIsOfUser(x3) BY DEF Agent!AgentInv, Agent!TypeOK
  <2> QED BY <1>3, <2>1, <2>2, NextIsFirst
<1> QED BY <1>3, <1>6, <1>7, <1>8, <1>9 DEF Agent!ServedInOrder

(* A step that changes nothing but the authenticator and was_cancelled.       *)
LEMMA KeepsTheList ==
    ASSUME Agent!AgentInv, x3' \in Agent!Authenticators, Agent!SessionIsOfUser(x3'),
           x1' = x1, x2' = x2, x6' = x6, x4' \subseteq Requests, x5' \subseteq Requests
    PROVE  Agent!AgentInv'
<1>1. Agent!ServedInOrder' /\ Agent!ListedOnce'
  BY DEF Agent!AgentInv, Agent!ServedInOrder, Agent!ListedOnce
<1>2. Agent!TypeOK' BY DEF Agent!AgentInv, Agent!TypeOK
<1>3. Agent!SessionIsOfUser(x3)' BY DEF Agent!SessionIsOfUser
<1> QED BY <1>1, <1>2, <1>3 DEF Agent!AgentInv

(* The calls of polkitd: a request is listed once, and the first is active.   *)
LEMMA PolkitdKeeps ==
    ASSUME Agent!AgentInv, None \notin Requests, NEW r \in Requests,
           Agent!InitiateAuthentication(r) \/ Agent!CancelRequest(r)
    PROVE  Agent!AgentInv'
<1>1. /\ x1 \in Seq(Requests) /\ x3 \in Agent!Authenticators /\ Agent!SessionIsOfUser(x3)
      /\ x4 \subseteq Requests /\ x5 \subseteq Requests
      /\ x2 = IF x1 = <<>> THEN None ELSE Head(x1)
      /\ {s \in Requests : x6[s] = "waiting"} = Agent!ToSet(x1)
      /\ x6 \in [Requests -> {"new", "waiting", "failed", "cancelled", "dismissed", "done"}]
  BY DEF Agent!AgentInv, Agent!TypeOK, Agent!ServedInOrder
<1>2. CASE Agent!CancelRequest(r)
  <2>1. x3 = x3 /\ (x3.pc # "shaking" => x3.tries < 3) BY <1>1 DEF Agent!SessionIsOfUser
  <2>2. x3' \in Agent!Authenticators /\ Agent!SessionIsOfUser(x3')
    BY <1>1, <1>2, <2>1, CancelEnds, CancelledIsOfUser DEF Agent!CancelRequest
  <2> QED BY <1>1, <1>2, <2>2, KeepsTheList DEF Agent!CancelRequest
<1>3. CASE Agent!InitiateAuthentication(r)
  <2>1. x6[r] = "new" /\ x4' = x4 /\ x5' = x5 BY <1>3 DEF Agent!InitiateAuthentication
  <2>2. CASE x6' = [x6 EXCEPT ![r] = "failed"] /\ UNCHANGED <<x1, x2, x3>>
    <3>1. /\ x6' \in [Requests -> {"new", "waiting", "failed", "cancelled", "dismissed", "done"}]
          /\ \A s \in Requests : x6'[s] = "waiting" <=> x6[s] = "waiting"
      BY <1>1, <2>1, <2>2
    <3>2. Agent!ServedInOrder' /\ Agent!ListedOnce'
      BY <1>1, <2>2, <3>1 DEF Agent!AgentInv, Agent!ServedInOrder, Agent!ListedOnce
    <3> QED BY <1>1, <2>1, <2>2, <3>1, <3>2
            DEF Agent!AgentInv, Agent!TypeOK, Agent!SessionIsOfUser
  <2>3. CASE /\ x6' = [x6 EXCEPT ![r] = "waiting"] /\ x1' = Append(x1, r)
             /\ Agent!InitiateNext(x1', x2)
    <3>1. /\ Len(x1) \in Nat /\ DOMAIN x1 = 1 .. Len(x1)
          /\ x1' \in Seq(Requests) /\ Len(x1') = Len(x1) + 1 /\ DOMAIN x1' = 1 .. Len(x1) + 1
          /\ x1'[Len(x1) + 1] = r /\ \A i \in 1 .. Len(x1) : x1'[i] = x1[i]
      BY <1>1, <2>3
    <3>2. x1' # <<>> /\ (x1 # <<>> => Head(x1') = Head(x1))
      <4>1. x1' # <<>> BY <3>1
      <4>2. ASSUME x1 # <<>> PROVE Head(x1') = Head(x1)
        <5>1. Len(x1) > 0 /\ Head(x1) = x1[1] BY <1>1, <4>2, EmptySeq
        <5>2. Head(x1') = x1'[1] BY <3>1, <4>1
        <5> QED BY <3>1, <5>1, <5>2
      <4> QED BY <4>1, <4>2
    <3>3. x2 \in Requests \cup {None} /\ (x2 = None \/ (x1' # <<>> /\ x2 = Head(x1')))
      BY <1>1, <3>2, EmptySeq
    <3>4. /\ x2' = Head(x1') /\ x2' \in Requests \cup {None}
          /\ x3' \in Agent!Authenticators /\ Agent!SessionIsOfUser(x3')
      BY <1>1, <2>3, <3>1, <3>2, <3>3, NextIsFirst
    <3>5. /\ x6' \in [Requests -> {"new", "waiting", "failed", "cancelled", "dismissed", "done"}]
          /\ x6'[r] = "waiting" /\ \A s \in Requests \ {r} : x6'[s] = x6[s]
      BY <1>1, <2>3
    <3>6. Agent!ToSet(x1') = Agent!ToSet(x1) \cup {r}
      <4>1. \A s : s \in Agent!ToSet(x1') <=> \E i \in 1 .. Len(x1) + 1 : s = x1'[i]
        BY <3>1 DEF Agent!ToSet
      <4>2. \A s : s \in Agent!ToSet(x1) <=> \E i \in 1 .. Len(x1) : s = x1[i]
        BY <3>1 DEF Agent!ToSet
      <4>3. \A i : i \in 1 .. Len(x1) + 1 <=> (i \in 1 .. Len(x1) \/ i = Len(x1) + 1)
        BY <3>1
      <4> QED BY <3>1, <4>1, <4>2, <4>3
    <3>7. Agent!ServedInOrder' BY <1>1, <3>2, <3>4, <3>5, <3>6 DEF Agent!ServedInOrder
    <3>8. Agent!ListedOnce'
      <4>1. r \notin Agent!ToSet(x1) BY <1>1, <2>1
      <4>2. \A i \in 1 .. Len(x1) : x1'[i] # x1'[Len(x1) + 1]
        BY <3>1, <4>1 DEF Agent!ToSet
      <4>3. \A i, j \in 1 .. Len(x1) : x1'[i] = x1'[j] => i = j
        BY <3>1 DEF Agent!AgentInv, Agent!ListedOnce
      <4>4. \A i : i \in 1 .. Len(x1) + 1 <=> (i \in 1 .. Len(x1) \/ i = Len(x1) + 1)
        BY <3>1
      <4> QED BY <3>1, <4>2, <4>3, <4>4 DEF Agent!ListedOnce
    <3>9. Agent!TypeOK' BY <1>1, <2>1, <3>1, <3>4, <3>5 DEF Agent!TypeOK
    <3> QED BY <3>4, <3>7, <3>8, <3>9 DEF Agent!AgentInv, Agent!SessionIsOfUser
  <2> QED BY <1>3, <2>2, <2>3 DEF Agent!InitiateAuthentication
<1> QED BY <1>2, <1>3

(* Where a request is completed, all of the invariant holds afterwards.       *)
LEMMA CompletedKeeps ==
    ASSUME Agent!AgentInv, x2 # None, NEW dismissed, Agent!Completed(dismissed), None \notin Requests,
           x4' \subseteq Requests, x5' = x5
    PROVE  Agent!AgentInv'
<1>1. /\ x1' \in Seq(Requests) /\ x2' \in Requests \cup {None}
      /\ x3' \in Agent!Authenticators /\ Agent!SessionIsOfUser(x3')
      /\ x6' \in [Requests -> {"new", "waiting", "failed", "cancelled", "dismissed", "done"}]
      /\ Agent!ServedInOrder' /\ Agent!ListedOnce'
  BY AnswersFirst
<1>2. Agent!TypeOK' BY <1>1 DEF Agent!TypeOK, Agent!AgentInv
<1> QED BY <1>1, <1>2 DEF Agent!AgentInv, Agent!SessionIsOfUser

(* do_initiate: a loop that returns.                                          *)
LEMMA ReturnsKeep ==
    ASSUME Agent!AgentInv, None \notin Requests, Agent!Returns
    PROVE  Agent!AgentInv'
<1>1. /\ x3 \in Agent!Authenticators /\ Agent!SessionIsOfUser(x3) /\ x2 # None /\ x2 \in Requests
      /\ x4 \subseteq Requests /\ x5 \subseteq Requests
  BY DEF Agent!AgentInv, Agent!TypeOK, Agent!Returns, Agent!DoInitiate, Agent!LeaveChoosing,
         Agent!LeavePrompt, Agent!LeaveLoop, Agent!LeaveShaking
<1>2. x3.tries \in 0 .. 3 /\ (x3.pc # "shaking" => x3.tries < 3)
  BY <1>1 DEF Agent!Authenticators, Agent!SessionIsOfUser
<1>3. CASE Agent!DoInitiate
  <2>1. CASE x3' = [x3 EXCEPT !.pc = "choosing"]
    <3>1. x3' \in Agent!Authenticators /\ Agent!SessionIsOfUser(x3')
      BY <1>1, <1>2, <2>1, <1>3 DEF Agent!Authenticators, Agent!SessionIsOfUser, Agent!DoInitiate
    <3> QED BY <1>1, <1>3, <3>1, KeepsTheList DEF Agent!DoInitiate
  <2>2. CASE x3' \in Agent!StartSession(x3)
    <3>1. x3.tries < 3 BY <1>2, <1>3 DEF Agent!DoInitiate
    <3>2. x3' \in Agent!Authenticators /\ Agent!SessionIsOfUser(x3')
      BY <1>1, <2>2, <3>1, StartedIsOfUser
    <3> QED BY <1>1, <1>3, <3>2, KeepsTheList DEF Agent!DoInitiate
  <2> QED BY <1>3, <2>1, <2>2 DEF Agent!DoInitiate
<1>4. CASE Agent!LeaveChoosing
  <2>1. CASE x3.response = "user"
    <3>1. x3.tries < 3 /\ x3' \in Agent!StartSession(x3) BY <1>2, <1>4, <2>1 DEF Agent!LeaveChoosing
    <3>2. x3' \in Agent!Authenticators /\ Agent!SessionIsOfUser(x3')
      BY <1>1, <3>1, StartedIsOfUser
    <3> QED BY <1>1, <1>4, <2>1, <3>2, KeepsTheList DEF Agent!LeaveChoosing
  <2>2. CASE x3.response # "user"
    BY <1>1, <1>4, <2>2, CompletedKeeps DEF Agent!LeaveChoosing
  <2> QED BY <2>1, <2>2
<1>5. CASE Agent!LeavePrompt
  <2> DEFINE back == [x3 EXCEPT !.pc = "talking", !.innerQuit = FALSE]
  <2>1. /\ back \in Agent!Authenticators /\ back.pc = "talking" /\ back.session = x3.session
        /\ back.sessionUser = x3.sessionUser /\ back.user = x3.user /\ back.outerQuit = x3.outerQuit
        /\ back.tries = x3.tries /\ x3.pc = "prompting"
    BY <1>1, <1>5 DEF Agent!Authenticators, Agent!LeavePrompt
  <2>2. CASE x3.response = "ok"
    <3>1. x3' = back BY <1>5, <2>2 DEF Agent!LeavePrompt
    <3>2. x3' \in Agent!Authenticators /\ Agent!SessionIsOfUser(x3')
      BY <1>1, <1>2, <2>1, <3>1 DEF Agent!SessionIsOfUser
    <3> QED BY <1>1, <1>5, <2>2, <3>2, KeepsTheList DEF Agent!LeavePrompt
  <2>3. CASE x3.response # "ok"
    <3> DEFINE c == [back EXCEPT !.newUser = @ \/ x3.response = "user"]
    <3>1. c \in Agent!Authenticators /\ c.pc = "talking" /\ c.tries = x3.tries
      BY <2>1 DEF Agent!Authenticators
    <3>2. x3' = Agent!CancelAuth(c) BY <1>5, <2>3 DEF Agent!LeavePrompt
    <3> HIDE DEF c
    <3>3. x3' \in Agent!Authenticators /\ Agent!SessionIsOfUser(x3')
      BY <1>2, <2>1, <3>1, <3>2, CancelEnds, CancelledIsOfUser
    <3>4. /\ x1' = x1 /\ x2' = x2 /\ x6' = x6 /\ x5' = x5 /\ x4' = x4 \cup {x2}
      BY <1>5, <2>3 DEF Agent!LeavePrompt
    <3> QED BY <1>1, <3>3, <3>4, KeepsTheList
  <2> QED BY <2>2, <2>3
<1>6. CASE Agent!LeaveLoop
  <2>1. x3.pc = "talking" /\ x3.session # "live" /\ x3.tries < 3
    BY <1>1, <1>2, <1>6 DEF Agent!LeaveLoop, Agent!SessionIsOfUser
  <2>2. CASE x3.newUser
    <3> DEFINE c == [x3 EXCEPT !.newUser = FALSE]
    <3>1. c \in Agent!Authenticators /\ c.tries < 3 BY <1>1, <2>1 DEF Agent!Authenticators
    <3>2. x3' \in Agent!StartSession(c) BY <1>6, <2>2 DEF Agent!LeaveLoop
    <3> HIDE DEF c
    <3>3. x3' \in Agent!Authenticators /\ Agent!SessionIsOfUser(x3')
      BY <3>1, <3>2, StartedIsOfUser
    <3> QED BY <1>1, <1>6, <2>2, <3>3, KeepsTheList DEF Agent!LeaveLoop
  <2>3. CASE ~x3.newUser /\ ~x3.gained /\ x2 \notin x4
    <3>1. x3' = [x3 EXCEPT !.pc = "shaking", !.tries = @ + 1] BY <1>6, <2>3 DEF Agent!LeaveLoop
    <3>2. x3.tries + 1 \in 0 .. 3 BY <1>2, <2>1
    <3>3. x3' \in Agent!Authenticators BY <1>1, <3>1, <3>2 DEF Agent!Authenticators
    <3>4. /\ x3'.pc = "shaking" /\ x3'.session = x3.session /\ x3'.outerQuit = x3.outerQuit
      BY <1>1, <3>1 DEF Agent!Authenticators
    <3>5. Agent!SessionIsOfUser(x3') BY <2>1, <3>4 DEF Agent!SessionIsOfUser
    <3> QED BY <1>1, <1>6, <2>3, <3>3, <3>5, KeepsTheList DEF Agent!LeaveLoop
  <2>4. CASE ~x3.newUser /\ ~(~x3.gained /\ x2 \notin x4)
    BY <1>1, <1>6, <2>4, CompletedKeeps DEF Agent!LeaveLoop
  <2> QED BY <2>2, <2>3, <2>4
<1>7. CASE Agent!LeaveShaking
  <2>1. CASE x3.tries < 3
    <3>1. x3' \in Agent!StartSession(x3) BY <1>7, <2>1 DEF Agent!LeaveShaking
    <3>2. x3' \in Agent!Authenticators /\ Agent!SessionIsOfUser(x3')
      BY <1>1, <2>1, <3>1, StartedIsOfUser
    <3> QED BY <1>1, <1>7, <2>1, <3>2, KeepsTheList DEF Agent!LeaveShaking
  <2>2. CASE ~(x3.tries < 3)
    BY <1>1, <1>7, <2>2, CompletedKeeps DEF Agent!LeaveShaking
  <2> QED BY <2>1, <2>2
<1> QED BY <1>3, <1>4, <1>5, <1>6, <1>7 DEF Agent!Returns

(* A session asks, or ends.                                                   *)
LEMMA SessionKeeps ==
    ASSUME Agent!AgentInv, Agent!Session
    PROVE  Agent!AgentInv'
<1>1. /\ x3 \in Agent!Authenticators /\ Agent!SessionIsOfUser(x3)
      /\ x4 \subseteq Requests /\ x5 \subseteq Requests /\ x3.session = "live"
      /\ x1' = x1 /\ x2' = x2 /\ x5' = x5 /\ x6' = x6 /\ x4' \subseteq x4
  BY DEF Agent!AgentInv, Agent!TypeOK, Agent!Session, Agent!SessionRequest, Agent!SessionCompleted
<1>2. x3' \in Agent!Authenticators /\ Agent!SessionIsOfUser(x3')
  <2>1. CASE Agent!SessionRequest
    <3>1. /\ x3.pc = "talking"
          /\ x3' = [x3 EXCEPT !.pc = "prompting", !.newUser = FALSE, !.innerQuit = FALSE]
      BY <2>1 DEF Agent!SessionRequest
    <3>2. x3' \in Agent!Authenticators BY <1>1, <3>1 DEF Agent!Authenticators
    <3>3. /\ x3'.session = "live" /\ x3'.sessionUser = x3.sessionUser /\ x3'.user = x3.user
          /\ x3'.outerQuit = x3.outerQuit /\ x3'.tries = x3.tries
      BY <1>1, <3>1 DEF Agent!Authenticators
    <3> QED BY <1>1, <3>1, <3>2, <3>3 DEF Agent!SessionIsOfUser
  <2>2. ASSUME NEW gained \in BOOLEAN, Agent!SessionCompleted(gained)
        PROVE  x3' \in Agent!Authenticators /\ Agent!SessionIsOfUser(x3')
    <3>1. x3' = [x3 EXCEPT !.session = "over", !.gained = gained, !.outerQuit = TRUE]
      BY <2>2 DEF Agent!SessionCompleted
    <3>2. x3' \in Agent!Authenticators BY <1>1, <3>1 DEF Agent!Authenticators
    <3>3. /\ x3'.session = "over" /\ x3'.sessionUser = x3.sessionUser /\ x3'.user = x3.user
          /\ x3'.pc = x3.pc /\ x3'.tries = x3.tries
          /\ x3'.innerQuit = x3.innerQuit /\ x3'.response = x3.response
      BY <1>1, <3>1 DEF Agent!Authenticators
    <3> QED BY <1>1, <3>2, <3>3 DEF Agent!SessionIsOfUser
  <2> QED BY <2>1, <2>2 DEF Agent!Session
<1> QED BY <1>1, <1>2, KeepsTheList

(* A response to a prompt that waits for one leaves the session its user.     *)
LEMMA ResponseKeeps ==
    ASSUME Agent!AgentInv, NEW response \in {"ok", "cancel", "user"}, NEW closing \in BOOLEAN, NEW b,
           b = [Agent!Respond(x3, response) EXCEPT !.closing = closing],
           x3.pc = "prompting" => ~x3.innerQuit \/ response # "ok"
    PROVE  b \in Agent!Authenticators /\ Agent!SessionIsOfUser(b)
<1>1. x3 \in Agent!Authenticators /\ Agent!SessionIsOfUser(x3) BY DEF Agent!AgentInv, Agent!TypeOK
<1>2. PICK quit \in BOOLEAN :
        /\ Agent!Respond(x3, response) = [x3 EXCEPT !.response = response, !.innerQuit = quit]
        /\ x3.pc = "prompting" => quit
  <2> DEFINE q == x3.innerQuit \/ Agent!IsRunning
  <2>1. q \in BOOLEAN BY <1>1 DEF Agent!Authenticators, Agent!IsRunning
  <2>2. x3.pc = "prompting" => q BY DEF Agent!IsRunning
  <2>3. Agent!Respond(x3, response) = [x3 EXCEPT !.response = response, !.innerQuit = q]
    BY DEF Agent!Respond
  <2> QED BY <2>1, <2>2, <2>3
<1>3. b = [[x3 EXCEPT !.response = response, !.innerQuit = quit] EXCEPT !.closing = closing]
  BY <1>2
<1>4. b \in Agent!Authenticators BY <1>1, <1>3 DEF Agent!Authenticators
<1>5. /\ b.session = x3.session /\ b.sessionUser = x3.sessionUser /\ b.user = x3.user
      /\ b.pc = x3.pc /\ b.tries = x3.tries /\ b.outerQuit = x3.outerQuit
      /\ b.innerQuit = quit /\ b.response = response
  BY <1>1, <1>3 DEF Agent!Authenticators
<1> QED BY <1>1, <1>2, <1>4, <1>5 DEF Agent!SessionIsOfUser

(* The user in front of the dialog.                                           *)
LEMMA ClickKeeps ==
    ASSUME Agent!AgentInv, Agent!Click
    PROVE  Agent!AgentInv'
<1>1. /\ x3 \in Agent!Authenticators /\ Agent!SessionIsOfUser(x3) /\ x2 \in Requests \cup {None}
      /\ x4 \subseteq Requests /\ x5 \subseteq Requests
      /\ x1' = x1 /\ x2' = x2 /\ x5' = x5 /\ x6' = x6
      /\ x2 # None /\ (x3.pc = "prompting" => ~x3.innerQuit)
  BY DEF Agent!AgentInv, Agent!TypeOK, Agent!Click, Agent!AuthButtonClicked, Agent!CancelButtonClicked,
         Agent!WindowClosed, Agent!SelectUser, Agent!MayClick, Agent!IsRunning
<1>2. CASE Agent!AuthButtonClicked
  <2>1. x3' = Agent!Respond(x3, "ok") /\ x4' = x4 BY <1>2 DEF Agent!AuthButtonClicked
  <2>2. /\ Agent!Respond(x3, "ok") = [Agent!Respond(x3, "ok") EXCEPT !.closing = x3.closing]
        /\ x3.closing \in BOOLEAN
    BY <1>1 DEF Agent!Authenticators, Agent!Respond
  <2>3. x3' \in Agent!Authenticators /\ Agent!SessionIsOfUser(x3') BY <1>1, <2>1, <2>2, ResponseKeeps
  <2> QED BY <1>1, <2>1, <2>3, KeepsTheList
<1>3. CASE Agent!CancelButtonClicked
  <2>1. x3' = [Agent!Respond(x3, "cancel") EXCEPT !.closing = TRUE] /\ x4' = x4
    BY <1>3 DEF Agent!CancelButtonClicked
  <2>2. x3' \in Agent!Authenticators /\ Agent!SessionIsOfUser(x3') BY <2>1, ResponseKeeps
  <2> QED BY <1>1, <2>1, <2>2, KeepsTheList
<1>4. CASE Agent!WindowClosed
  <2>1. x3' = [x3 EXCEPT !.closing = TRUE] /\ x4' = x4 BY <1>4 DEF Agent!WindowClosed
  <2>2. x3' \in Agent!Authenticators BY <1>1, <2>1 DEF Agent!Authenticators
  <2>3. /\ x3'.session = x3.session /\ x3'.sessionUser = x3.sessionUser /\ x3'.user = x3.user
        /\ x3'.pc = x3.pc /\ x3'.tries = x3.tries /\ x3'.outerQuit = x3.outerQuit
        /\ x3'.innerQuit = x3.innerQuit /\ x3'.response = x3.response
    BY <1>1, <2>1 DEF Agent!Authenticators
  <2>4. Agent!SessionIsOfUser(x3') BY <1>1, <2>3 DEF Agent!SessionIsOfUser
  <2> QED BY <1>1, <2>1, <2>2, <2>4, KeepsTheList
<1>5. ASSUME NEW u \in Users, Agent!SelectUser(u) PROVE Agent!AgentInv'
  <2> DEFINE chosen == [x3 EXCEPT !.user = u]
             notified == Agent!CancelAuth(chosen)
  <2>1. x3' = [notified EXCEPT !.newUser = TRUE, !.response = "user"] /\ x4' = x4 \cup {x2}
    BY <1>5 DEF Agent!SelectUser
  <2>2. chosen \in Agent!Authenticators BY <1>1 DEF Agent!Authenticators
  <2>3. chosen.pc = x3.pc /\ chosen.tries = x3.tries BY <1>1 DEF Agent!Authenticators
  <2> HIDE DEF chosen
  <2>4. /\ notified \in Agent!Authenticators /\ notified.session # "live"
        /\ notified.pc = x3.pc /\ notified.tries = x3.tries
        /\ notified.pc = "prompting" => notified.innerQuit
    BY <2>2, <2>3, CancelEnds
  <2> HIDE DEF notified
  <2>5. x3' \in Agent!Authenticators BY <2>1, <2>4 DEF Agent!Authenticators
  <2>6. /\ x3'.session # "live" /\ x3'.pc = x3.pc /\ x3'.tries = x3.tries /\ x3'.response = "user"
        /\ x3'.pc = "prompting" => x3'.innerQuit
    BY <2>1, <2>4 DEF Agent!Authenticators
  <2>7. Agent!SessionIsOfUser(x3') BY <1>1, <2>6 DEF Agent!SessionIsOfUser
  <2> QED BY <1>1, <2>1, <2>5, <2>7, KeepsTheList
<1> QED BY <1>2, <1>3, <1>4, <1>5 DEF Agent!Click

(* delete_event_cb.                                                           *)
LEMMA DeleteKeeps ==
    ASSUME Agent!AgentInv, Agent!DeleteEvent
    PROVE  Agent!AgentInv'
<1> DEFINE closed == [x3 EXCEPT !.closing = FALSE]
<1>1. /\ x3 \in Agent!Authenticators /\ Agent!SessionIsOfUser(x3) /\ x2 \in Requests
      /\ x4 \subseteq Requests /\ x5 \subseteq Requests
      /\ x1' = x1 /\ x2' = x2 /\ x5' = x5 /\ x6' = x6
  BY DEF Agent!AgentInv, Agent!TypeOK, Agent!DeleteEvent
<1>2. CASE Agent!IsRunning
  <2>1. x3' = Agent!Respond(closed, "cancel") /\ x4' = x4 BY <1>2 DEF Agent!DeleteEvent
  <2>2. Agent!Respond(closed, "cancel") = [Agent!Respond(x3, "cancel") EXCEPT !.closing = FALSE]
    BY <1>1 DEF Agent!Respond, Agent!Authenticators
  <2>3. x3' \in Agent!Authenticators /\ Agent!SessionIsOfUser(x3')
    BY <2>1, <2>2, ResponseKeeps
  <2> QED BY <1>1, <2>1, <2>3, KeepsTheList
<1>3. CASE ~Agent!IsRunning
  <2>1. x3' = Agent!CancelAuth(closed) /\ x4' = x4 \cup {x2} BY <1>3 DEF Agent!DeleteEvent
  <2>2. closed \in Agent!Authenticators /\ closed.pc = x3.pc /\ closed.tries = x3.tries
    BY <1>1 DEF Agent!Authenticators
  <2> HIDE DEF closed
  <2>3. x3.pc # "shaking" => x3.tries < 3 BY <1>1 DEF Agent!SessionIsOfUser
  <2>4. x3' \in Agent!Authenticators /\ Agent!SessionIsOfUser(x3')
    BY <2>1, <2>2, <2>3, CancelEnds, CancelledIsOfUser
  <2> QED BY <1>1, <2>1, <2>4, KeepsTheList
<1> QED BY <1>2, <1>3

LEMMA AgentStep ==
    ASSUME Agent!AgentInv, [Agent!Next]_(Agent!vars)
    PROVE  Agent!AgentInv'
<1>1. CASE Agent!Next
  BY <1>1, AgentAssumption, PolkitdKeeps, ReturnsKeep, SessionKeeps, ClickKeeps, DeleteKeeps DEF Agent!Next
<1>2. CASE UNCHANGED Agent!vars
  BY <1>2 DEF Agent!vars, Agent!AgentInv, Agent!TypeOK, Agent!ServedInOrder, Agent!SessionIsOfUser,
              Agent!ListedOnce
<1> QED BY <1>1, <1>2

LEMMA AgentBegins ==
    ASSUME Agent!Init
    PROVE  Agent!AgentInv
<1>1. /\ x1 = <<>> /\ x2 = None /\ x3 = Agent!New(None) /\ x4 = {} /\ x5 = {}
      /\ x6 = [r \in Requests |-> "new"]
  BY DEF Agent!Init
<1>2. x3 \in Agent!Authenticators /\ Agent!SessionIsOfUser(x3) BY <1>1, NewIsOfUser
<1>3. Agent!ToSet(x1) = {} /\ \A r \in Requests : x6[r] # "waiting" BY <1>1 DEF Agent!ToSet
<1>4. Agent!ServedInOrder /\ Agent!ListedOnce
  BY <1>1, <1>3 DEF Agent!ServedInOrder, Agent!ListedOnce
<1>5. Agent!TypeOK BY <1>1, <1>2 DEF Agent!TypeOK
<1> QED BY <1>2, <1>4, <1>5 DEF Agent!AgentInv

(* The polkit agent, for any requests and users: those without an answer are  *)
(* exactly those listed, the first of them is active and no other, and a      *)
(* password goes only to the session of the user who is shown as chosen,      *)
(* whatever was chosen or cancelled while its prompt was up (the part of      *)
(* ServedAsChosen that is no liveness).                                       *)
THEOREM PasswordGoesToTheChosen ==
    AllSpec => /\ [](part = "agent" => Agent!AgentInv)
               /\ [][part = "agent" => Agent!GivenToChosenUser]_all
<1> DEFINE Inv == part = "agent" => Agent!AgentInv
           Given == part = "agent" => Agent!GivenToChosenUser
<1>1. AllInit => Inv
  BY AgentBegins DEF AllInit, DialogInit
<1>2. Inv /\ [AllNext]_all => Inv'
  <2> SUFFICES ASSUME part' = "agent", Inv, [AllNext]_all PROVE Agent!AgentInv'
    OBVIOUS
  <2>1. part = "agent" /\ [Agent!Next]_(Agent!vars)
    BY DEF AllNext, all, rest, InDialog, InListener, InAgent, InSeat, InGamma, Agent!vars
  <2> QED BY <2>1, AgentStep
<1>3. Inv => Given
  <2> SUFFICES ASSUME Agent!AgentInv, Agent!GivesPassword PROVE x3.sessionUser = x3.user
    BY DEF Agent!GivenToChosenUser
  <2> QED BY DEF Agent!AgentInv, Agent!SessionIsOfUser, Agent!GivesPassword
<1> HIDE DEF Inv, Given
<1>4. Inv /\ [AllNext]_all => [Given]_all BY <1>3
<1>5. AllSpec => []Inv BY <1>1, <1>2, PTL DEF AllSpec
<1>6. AllSpec => [][Given]_all BY <1>4, <1>5, PTL DEF AllSpec
<1> QED BY <1>5, <1>6 DEF Inv, Given
=============================================================================
