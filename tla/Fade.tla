-------------------------------- MODULE Fade --------------------------------
(* GfFade: the screen is darkened by its gamma, which this program saves when *)
(* it begins and restores when it is told to. Other programs set the gamma    *)
(* too. Module Screensaver tells only the bright from the dark screen.        *)
EXTENDS Naturals

CONSTANTS
    Gammas, None,   \* what the user may have chosen; nothing saved
    Full,           \* the steps of a fade
    MaxTasks        \* bound

VARIABLES
    kind,      \* fade_type: "ramp", "number" or "none"
    info,      \* GfFade.info, vmg: what was saved, and what it is written as
    alpha,     \* current_alpha, in steps
    timer,     \* timeout_id # 0
    tasks,     \* how many callers wait for the end of a fade
    screen,    \* the gamma number of the server and the ramp that is shown
    chosen     \* what another program chose last; None when that may be lost
vars == <<kind, info, alpha, timer, tasks, screen, chosen>>

(* A gamma, and how far it is darkened; the ramp of zeroes shows nothing.     *)
Shades == [gamma : Gammas \cup {None}, step : 0..Full]
Bright(g) == [gamma |-> g, step |-> Full]
Zeroes == Bright(None)
Dim(shade, a) == [shade EXCEPT !.step = IF @ = Full THEN a ELSE (@ * a) \div Full]

(* gamma_fade_setup: a gamma that is saved is kept. A ramp that cannot be     *)
(* read makes it try the number; when only its size could be read the ramp of *)
(* zeroes made for it stays in info, and is what the fade will write. What    *)
(* the fade will not bring back is lost: a ramp that another program chose    *)
(* when it saves the number, anything when it keeps the zeroes.               *)
Reads(k, how, shade) == kind' = k /\ info' = [how |-> how, shade |-> shade]
Setup ==
    IF info # None THEN UNCHANGED <<kind, info, chosen>> /\ kind # "none"
    ELSE \/ kind = "ramp" /\ Reads("ramp", "ramp", screen.ramp) /\ UNCHANGED chosen
         \/ kind = "ramp" /\ Reads("number", "ramp", Zeroes) /\ chosen' = None
         \/ /\ kind \in {"ramp", "number"} /\ Reads("number", "number", screen.number)
            /\ chosen' = IF chosen # None /\ chosen.how = "number" THEN chosen ELSE None

(* xf86_whack_gamma, by what was saved and not by the type of the fade: the   *)
(* number gives every ramp its values, a ramp leaves the number alone.        *)
WhackGamma(a) ==
    screen' = CASE info = None -> screen
                [] info # None /\ info.how = "ramp" -> [screen EXCEPT !.ramp = Dim(info.shade, a)]
                [] OTHER -> [number |-> Dim(info.shade, a), ramp |-> Dim(info.shade, a)]
(* set_alpha                                                                  *)
SetAlpha(a) == IF kind = "none" THEN UNCHANGED screen ELSE WhackGamma(a)

(* fade_start: the fade goes on from where it is; one that cannot start tells *)
(* everyone who waits.                                                        *)
FadeStart ==
    \/ Setup /\ timer' = TRUE /\ tasks' = tasks + 1
    \/ /\ kind = "none" \/ info = None
       /\ kind' = "none" /\ UNCHANGED <<info, chosen>> /\ timer' = FALSE /\ tasks' = 0

(* gf_fade_async                                                              *)
FadeAsync ==
    /\ tasks < MaxTasks /\ FadeStart
    /\ UNCHANGED <<alpha, screen>>

(* fade_out_cb: one step darker; at the end everyone who waits is told.       *)
FadeOut ==
    /\ timer
    /\ IF alpha = 0 THEN timer' = FALSE /\ tasks' = 0 /\ UNCHANGED <<alpha, screen>>
       ELSE alpha' = alpha - 1 /\ SetAlpha(alpha - 1) /\ UNCHANGED <<timer, tasks>>
    /\ UNCHANGED <<kind, info, chosen>>

(* The gamma is forgotten before it is restored.                              *)
ResetForgetting ==
    /\ timer' = FALSE /\ alpha' = Full /\ info' = None
    /\ UNCHANGED <<kind, tasks, screen, chosen>>
(* gf_fade_reset, screen_fade_finish                                          *)
Reset ==
    /\ timer' = FALSE /\ alpha' = Full
    /\ SetAlpha(Full) /\ info' = None
    /\ UNCHANGED <<kind, tasks, chosen>>

(* The version of the extension, if there is one.                             *)
CheckGammaExtension == {"ramp", "number", "none"}

(* gf_screensaver_dispose: the manager, which is freed first, resets the      *)
(* fade; gf_fade_dispose then frees what is saved without restoring it, and   *)
(* nobody who waits is told. The screen saver that is made next has a new one.*)
Dispose ==
    /\ SetAlpha(Full) /\ info' = None
    /\ kind' \in CheckGammaExtension /\ alpha' = Full /\ timer' = FALSE /\ tasks' = 0
    /\ UNCHANGED chosen

(* Another program chooses a gamma, by its number or by the ramps; one that   *)
(* it chooses during a fade is lost when the older one is restored.           *)
OtherSets ==
    \E g \in Gammas, how \in {"ramp", "number"} :
        /\ screen' = [number |-> IF how = "number" THEN Bright(g) ELSE screen.number, ramp |-> Bright(g)]
        /\ chosen' = IF info = None THEN [gamma |-> g, how |-> how] ELSE None
        /\ UNCHANGED <<kind, info, alpha, timer, tasks>>

(* gf_fade_init                                                               *)
Init ==
    /\ kind \in CheckGammaExtension /\ info = None /\ alpha = Full /\ timer = FALSE /\ tasks = 0
    /\ \E g \in Gammas : /\ screen = [number |-> Bright(g), ramp |-> Bright(g)]
                         /\ chosen = [gamma |-> g, how |-> "number"]

Next == FadeAsync \/ FadeOut \/ Reset \/ Dispose \/ OtherSets
Spec == Init /\ [][Next]_vars

(* ---------------------------------------------------------- properties ---- *)
TypeOK ==
    /\ kind \in CheckGammaExtension
    /\ info \in [how : {"ramp", "number"}, shade : Shades] \cup {None}
    /\ alpha \in 0..Full /\ timer \in BOOLEAN /\ tasks \in 0..MaxTasks
    /\ screen \in [number : Shades, ramp : Shades]
    /\ chosen \in [gamma : Gammas, how : {"ramp", "number"}] \cup {None}

(* A dark screen comes back: what is saved is never a gamma this program has  *)
(* darkened itself, and a screen that is not waiting to be restored is as     *)
(* bright as the other programs made it - it shows the very gamma that was    *)
(* chosen last, unless that was lost. It is lost in three ways: the setup     *)
(* reads the size of the ramps but not the ramps, and every fade and reset    *)
(* then writes zeroes; the setup saves the number where a ramp was chosen;    *)
(* it was chosen during a fade. (A screen of zeroes counts as not darkened by *)
(* a step, and as nothing that was chosen.)                                   *)
GammaComesBack ==
    /\ info # None => info.shade.step = Full
    /\ info = None => screen.number.step = Full /\ screen.ramp.step = Full
    /\ chosen # None =>
          IF info = None THEN screen.ramp = Bright(chosen.gamma) ELSE info.shade = Bright(chosen.gamma)

(* Without a way to set the gamma nothing is saved: a reset that does nothing *)
(* has nothing to restore. A ramp leaves the number alone, and a number that  *)
(* was chosen is the number of the server until a fade by the number saves it.*)
FadeInv ==
    /\ TypeOK /\ GammaComesBack
    /\ kind = "none" => info = None
    /\ info # None /\ info.how = "ramp" => screen.number.step = Full
    /\ chosen # None /\ chosen.how = "number" /\ (info = None \/ info.how = "ramp") =>
          screen.number = Bright(chosen.gamma)
=============================================================================
