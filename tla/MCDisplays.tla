----------------------------- MODULE MCDisplays -----------------------------
(* What the monitor manager stands on: the store of configurations with its   *)
(* parser, the conversion of layouts, the modes of a monitor and the CRTCs of *)
(* the X server. They share no state; "part" names the one that runs, x1 to   *)
(* x12 are its variables.                                                     *)
EXTENDS Integers, Sequences, FiniteSets

CONSTANTS
    k1, k2, laptop, c1, c2, o1, o2,
    Crtcs, Outputs, Layouts, Scales, NoCrtc, MaxTime,    \* of the X server
    Tile, Sizes, Rates, Flags, MaxModes,                 \* of the modes of a monitor
    Files, Specs, MaxEntries, MaxConfigs, PolicyFiles    \* of the parser
VARIABLES part, x1, x2, x3, x4, x5, x6, x7, x8, x9, x10, x11, x12
all == <<part, x1, x2, x3, x4, x5, x6, x7, x8, x9, x10, x11, x12>>

Store == INSTANCE ConfigStore WITH
    Keys <- {k1, k2}, Values <- {"asked"}, MaxSaves <- 3, MaxRestarts <- 1,
    system <- x1, policy <- x2, user <- x3, refused <- x4, outdated <- x5, configs <- x6, saves <- x7,
    cancellable <- x8, begun <- x9, restarts <- x10, changed <- x11, failed <- x12

(* A file of the user with monitors, and the policies of three files. The     *)
(* module ConfigParserProofs is ConfigParser with what is proved of it.       *)
OneFile == <<"user">>
ThreeFiles == <<"system", "system", "user">>
Parser == INSTANCE ConfigParserProofs WITH
    file <- x1, open <- x2, parser <- x3, policy <- x4, doc <- x5, last <- x6
Policies == INSTANCE ConfigParserProofs WITH
    Files <- PolicyFiles, MaxEntries <- 0, MaxConfigs <- 0,
    file <- x1, open <- x2, parser <- x3, policy <- x4, doc <- x5, last <- x6
ASSUME ParserAssumption == Parser!NamedSpecs

Conversion == INSTANCE LayoutConversion WITH
    Sizes <- {<<4, 2>>, <<2, 4>>, <<3, 2>>}, Offsets <- {0, 2, 4}, Scales <- {1, 2}, MaxMonitors <- 3,
    GlobalScale <- TRUE, file <- x1, ended <- x2, stored <- x3

(* One output on one CRTC, or two outputs side by side on two.                *)
At(x, n, outputs) == [x |-> x, width |-> n, outputs |-> outputs]
Alone(c, p) == [k \in {c} |-> p]
Side(p, q) == [k \in {c1, c2} |-> IF k = c1 THEN p ELSE q]
SomeLayouts ==
    {Alone(c2, At(0, 1, {o2})), Side(At(0, 1, {o1}), At(1, 1, {o2}))}
Server == INSTANCE CrtcAssignment WITH w <- x1
ASSUME ServerAssumption ==
    /\ IsFiniteSet(Crtcs) /\ MaxTime \in Nat \ {0}
    /\ \A f \in Layouts : DOMAIN f \subseteq Crtcs /\ f \in [DOMAIN f -> Server!Placement]

Modes == INSTANCE MonitorModes WITH
    outputs <- x1, phase <- x2, next <- x3, pending <- x4, best <- x5, modes <- x6, preferred <- x7, current <- x8,
    freed <- x9, aborted <- x10
ASSUME ModesAssumption == MaxModes \in Nat

Unused10 == x11 = 0 /\ x12 = 0
Unused6 == x7 = 0 /\ x8 = 0 /\ x9 = 0 /\ x10 = 0 /\ Unused10
Unused3 == x4 = 0 /\ x5 = 0 /\ x6 = 0 /\ Unused6

InStore(A) == part = "store" /\ A /\ UNCHANGED part
InParser(A) == part = "parser" /\ A /\ UNCHANGED <<part, x7, x8, x9, x10, x11, x12>>
InPolicies(A) == part = "policies" /\ A /\ UNCHANGED <<part, x7, x8, x9, x10, x11, x12>>
InConversion(A) == part = "conversion" /\ A /\ UNCHANGED <<part, x4, x5, x6, x7, x8, x9, x10, x11, x12>>
InServer(A) == part = "server" /\ A /\ UNCHANGED <<part, x2, x3, x4, x5, x6, x7, x8, x9, x10, x11, x12>>
InModes(A) == part = "modes" /\ A /\ UNCHANGED <<part, x11, x12>>

ParserInit == part = "parser" /\ Parser!Init /\ Unused6
Init ==
    \/ part = "store" /\ Store!Init
    \/ ParserInit
    \/ part = "policies" /\ Policies!Init /\ Unused6
    \/ part = "conversion" /\ Conversion!Init /\ Unused3
    \/ part = "server" /\ Server!Init /\ x2 = 0 /\ x3 = 0 /\ Unused3
    \/ part = "modes" /\ Modes!Init /\ Unused10
Next ==
    \/ InStore(Store!Next) \/ InParser(Parser!Next) \/ InPolicies(Policies!Next)
    \/ InConversion(Conversion!Next) \/ InServer(Server!Next) \/ InModes(Modes!Next)

(* The writes of the store end, as its module states it.                      *)
Fairness ==
    \A i \in 1..3 :
        /\ WF_all(InStore(i \in DOMAIN x7 /\ (Store!Land(i) \/ Store!Fail(i))))
        /\ WF_all(InStore(i \in DOMAIN x7 /\ Store!Saved(i)))

Spec == Init /\ [][Next]_all /\ Fairness
ParserSpec == ParserInit /\ [][InParser(Parser!Next)]_all

-----------------------------------------------------------------------------
(* gf-monitor-config-store.c: once every write is over the file says what was *)
(* added last, and every write ends with nothing left to wait for.            *)
FileCatchesUp ==
    /\ [](part = "store" => Store!TypeOK /\ Store!FileCatchesUp)
    /\ [](part = "store" /\ x7 # <<>> => <>(part = "store" /\ x8 = 0))

(* gf-monitor-config-store.c: what is stored for an element is what stands in *)
(* it, and the policy that was read first stays.                              *)
NothingCarriedOver == part = "parser" => Parser!Inv /\ Parser!NothingCarriedOver
FirstPolicyStays ==
    /\ [](part = "policies" => Policies!OnlySystemInPolicy)
    /\ [][part = "policies" => Policies!KeepsPolicy]_all

(* gf-monitor-config-store.c:1380 asserts that the element that ends is the   *)
(* one the parser is in: g_str_equal (element_name, "transform").             *)
NeverAborts == part = "parser" => Parser!NeverAborts

(* gf-monitor-config-store.c: a layout is converted unless its scales differ, *)
(* and monitors side by side stay so.                                         *)
OrderKept == part = "conversion" => Conversion!TypeOK /\ Conversion!OnlyScalesRefused /\ Conversion!OrderKept

(* gf-monitor-manager-xrandr.c: no CRTC is in the way of a new screen, the    *)
(* manager knows what is lit, a tiled monitor is named as long as it lives;   *)
(* and a change of the CRTCs keeps the configuration when it was made here.   *)
ScreenIsFree ==
    /\ [](part = "server" => Server!Inv)
    /\ [][part = "server" => Server!KeepsOurs]_all

(* gf-monitor.c, gf-monitor-normal.c, gf-monitor-tiled.c: an id names one     *)
(* mode, a monitor is lit one way and one of its modes is preferred.          *)
OneModePerId == part = "modes" => Modes!Inv /\ Modes!HasPreferredMode
=============================================================================
