------------------------------ MODULE MCInput ------------------------------
(* The user at the keyboard: the idle monitor, which waits for the user to    *)
(* stop, and the input sources, which decide what the keys type. They share   *)
(* no state; "part" names the one that runs, x1 to x7 are the variables of    *)
(* the sources, and those of IdleMonitor stay as they begin in the other part.*)
EXTENDS IdleMonitor

CONSTANTS client, None, us, de, jp, w1
VARIABLES part, x1, x2, x3, x4, x5, x6, x7

rest == <<x1, x2, x3, x4, x5, x6, x7>>
all == <<part, vars, rest>>

(* A list that names an engine of IBus twice, once in each of its two groups; *)
(* and a list of one layout.                                                  *)
Sources == INSTANCE InputSources WITH
    SourceLists <- {<<us, jp, jp>>, <<de>>}, IBusIds <- {jp}, Default <- us, Windows <- {w1},
    GroupSize <- 2, MaxCalls <- 1,
    settings <- x1, manager <- x2, windows <- x3, popup <- x4, ibus <- x5, keyboard <- x6, x <- x7

InIdle(A) == part = "idle" /\ A /\ UNCHANGED <<part, rest>>
InSources(A) == part = "sources" /\ A /\ UNCHANGED <<part, vars>>

AllInit ==
    /\ Init
    /\ \/ part = "idle" /\ x1 = 0 /\ x2 = 0 /\ x3 = 0 /\ x4 = 0 /\ x5 = 0 /\ x6 = 0 /\ x7 = 0
       \/ part = "sources" /\ ~upower.lidClosed /\ ~upower.onBattery /\ Sources!Init
AllNext == InIdle(Next) \/ InSources(Sources!Next)
AllSpec == AllInit /\ [][AllNext]_all /\ Fairness /\ WF_all(InSources(Sources!EngineSet))

-----------------------------------------------------------------------------
(* The properties of IdleMonitor and of the sources, stated and explained in   *)
(* their modules: WatchesFire, and gf-input-source-manager.c: the order of    *)
(* use names every source, the group that is locked types the current source, *)
(* which is the one of the active window, and the keyboard that is grabbed to *)
(* switch is released.                                                        *)
TypesCurrentSource ==
    /\ [](part = "sources" =>
             Sources!TypeOK /\ Sources!MruIsComplete /\ Sources!TypesCurrentLayout /\ Sources!WindowHasCurrent)
    /\ []<>(part = "sources" => ~x7.grabbed)
=============================================================================
