-------------------------- MODULE MCAuthentication --------------------------
(* The parts of the screen lock below its windows, and the polkit agent: the  *)
(* unlock dialog with PAM, the listener of the login manager, the agent, the  *)
(* grab and the fade. They share no state, so one run checks one part after   *)
(* the other: "part" names it, x1 to x10 are its variables, and the variables *)
(* of UnlockDialog stay as they begin in the other parts.                     *)
EXTENDS UnlockDialog

CONSTANTS
    None, Other,
    Requests, Users,        \* of the agent
    Windows, Retries,       \* of the grab
    Gammas, Full, MaxTasks  \* of the fade
ASSUME SeatAssumption ==
    None \notin Windows /\ Other \notin Windows /\ None # Other /\ Retries \in Nat \ {0}
ASSUME AgentAssumption == None \notin Requests
ASSUME GammaAssumption == Full \in Nat \ {0} /\ MaxTasks \in Nat /\ None \notin Gammas

VARIABLES part, x1, x2, x3, x4, x5, x6, x7, x8, x9, x10

(* What PAM says in one conversation.                                         *)
Prompt == {<<"prompt">>}
Texts == {<<>>, <<"prompt">>, <<"info", "prompt">>}

rest == <<x1, x2, x3, x4, x5, x6, x7, x8, x9, x10>>
all == <<part, vars, rest>>

Listener == INSTANCE LoginListener WITH
    MaxSleeps <- 2, MaxRestarts <- 1, MaxCrashes <- 1, MaxLocks <- 7, MaxCalls <- 1,
    logind <- x1, calls <- x2, inbox <- x3, fd <- x4, manager <- x5, stray <- x6, session <- x7, active <- x8,
    alive <- x9
Agent == INSTANCE PolkitAgent WITH
    SpawnFails <- TRUE,
    authenticators <- x1, active <- x2, auth <- x3, wasCancelled <- x4, cancelled <- x5, reply <- x6
Seat == INSTANCE Grab WITH
    seat <- x1, grabWindow <- x2, exists <- x3, call <- x4, target <- x5, old <- x6, attempt <- x7, focused <- x8,
    result <- x9, taken <- x10
Gamma == INSTANCE Fade WITH
    kind <- x1, info <- x2, alpha <- x3, timer <- x4, tasks <- x5, screen <- x6, chosen <- x7

InDialog(A) == part = "dialog" /\ A /\ UNCHANGED <<part, rest>>
InListener(A) == part = "listener" /\ A /\ UNCHANGED <<part, vars, x10>>
InAgent(A) == part = "agent" /\ A /\ UNCHANGED <<part, vars, x7, x8, x9, x10>>
InSeat(A) == part = "seat" /\ A /\ UNCHANGED <<part, vars>>
InGamma(A) == part = "gamma" /\ A /\ UNCHANGED <<part, vars, x8, x9, x10>>

DialogInit ==
    /\ part = "dialog" /\ Init
    /\ x1 = 0 /\ x2 = 0 /\ x3 = 0 /\ x4 = 0 /\ x5 = 0 /\ x6 = 0 /\ x7 = 0 /\ x8 = 0 /\ x9 = 0 /\ x10 = 0
AllInit ==
    \/ DialogInit
    \/ /\ Init
       /\ \/ part = "listener" /\ Listener!Init /\ x10 = 0
          \/ part = "agent" /\ Agent!Init /\ x7 = 0 /\ x8 = 0 /\ x9 = 0 /\ x10 = 0
          \/ part = "seat" /\ Seat!Init
          \/ part = "gamma" /\ Gamma!Init /\ x8 = 0 /\ x9 = 0 /\ x10 = 0
AllNext ==
    \/ InDialog(Next) \/ InListener(Listener!Next) \/ InAgent(Agent!Next) \/ InSeat(Seat!Next) \/ InGamma(Gamma!Next)

(* The fairness of each part, as its module states it.                        *)
AllFairness ==
    /\ WF_all(InDialog(ThreadStep /\ worker.pc \notin {"pam", "wait"}))
    /\ WF_all(InDialog(PamReturns /\ crashed = "no" /\ UNCHANGED dialog))
    /\ WF_all(InDialog(Message)) /\ WF_all(InDialog(VerifyDone))
    /\ WF_all(InDialog(ShakeDone)) /\ WF_all(InDialog(ResetIdle))
    /\ WF_all(InDialog(StoreResponse /\ UNCHANGED dialog)) /\ WF_all(InDialog(SignalResponse /\ UNCHANGED dialog))
    /\ WF_all(InListener(Listener!Callback)) /\ WF_all(InListener(Listener!Serve))
    /\ WF_all(InAgent(Agent!Returns)) /\ WF_all(InAgent(Agent!DeleteEvent))

AllSpec == AllInit /\ [][AllNext]_all /\ AllFairness
DialogSpec == DialogInit /\ [][InDialog(Next)]_all

-----------------------------------------------------------------------------
(* The properties of the parts, each stated and explained in its module       *)

(* The dialog (UnlockDialog): no second shake, no source outlives it, no       *)
(* attempt beyond MAX_FAILURES; the prompt comes back and the last failure    *)
(* closes the dialog.                                                         *)
DialogIsSound ==
    /\ [](TypeOK /\ OneShake /\ NothingOutlivesDialog /\ NoExtraAttempt)
    /\ PromptComesBack /\ LastFailureCloses

(* gf-listener.c: when the login manager stays, awake, the delay lock is held *)
(* in the end, and a lock survives a crash of the program.                    *)
LockIsNotLost ==
    /\ [](part = "listener" => Listener!TypeOK)
    /\ <>[](part = "listener" /\ Listener!Calm) => <>[](part = "listener" /\ Listener!HasLock)
    /\ (part = "listener" /\ Listener!WasLocked) ~> (part = "listener" /\ Listener!LockedAgain)

(* flashback-listener.c, flashback-authenticator.c: requests are served in    *)
(* order, none behind an agent that does nothing; a password goes to the      *)
(* conversation of the user who is shown as chosen, and a prompt that was     *)
(* cancelled is the end of its request.                                       *)
ServedAsChosen ==
    /\ [](part = "agent" => Agent!AgentInv)
    /\ [][part = "agent" => Agent!GivenToChosenUser]_all
    /\ \A r \in Requests : (part = "agent" /\ Agent!Refused(r)) ~> (part = "agent" /\ x6[r] # "waiting")

(* gf-grab.c: the program knows where the seat is.                            *)
SeatIsKnown == part = "seat" => Seat!TypeOK /\ Seat!SeatIsKnown

(* gf-fade.c: the gamma to restore is never a darkened one, and the one that  *)
(* was chosen comes back unless the fade cannot save it.                      *)
GammaComesBack == part = "gamma" => Gamma!TypeOK /\ Gamma!GammaComesBack
=============================================================================
