--------------------------- MODULE DisplaysProofs ---------------------------
(* What is proved of the parts of MCDisplays: the modes of a monitor, the     *)
(* CRTCs of the X server and the parser of monitors.xml, whose lemmas are in  *)
(* ConfigParserProofs. Each part has its inductive invariant, Inv of its      *)
(* module; the theorems state what the run of MCDisplays checks.              *)
EXTENDS MCDisplays, FiniteSetTheorems, WellFoundedInduction, SequenceTheorems, TLAPS

(* ---------------------------------------------- the modes of a monitor ---- *)

(* RemoveAt takes one element of a sequence away, as g_list_remove_link does. *)
LEMMA RemovedAt ==
    ASSUME NEW S, NEW s \in Seq(S), NEW k \in 1 .. Len(s)
    PROVE  /\ Modes!RemoveAt(s, k) \in Seq(S)
           /\ Len(Modes!RemoveAt(s, k)) = Len(s) - 1
           /\ \A i \in 1 .. Len(s) - 1 :
                Modes!RemoveAt(s, k)[i] = IF i < k THEN s[i] ELSE s[i + 1]
<1> DEFINE a == SubSeq(s, 1, k - 1)  b == SubSeq(s, k + 1, Len(s))
<1>1. a \in Seq(S) /\ Len(a) = k - 1 /\ \A i \in 1 .. k - 1 : a[i] = s[i]
  OBVIOUS
<1>2. b \in Seq(S) /\ Len(b) = Len(s) - k /\ \A i \in 1 .. Len(s) - k : b[i] = s[k + i]
  OBVIOUS
<1> HIDE DEF a, b
<1>3. /\ a \o b \in Seq(S) /\ Len(a \o b) = Len(a) + Len(b)
      /\ \A i \in 1 .. Len(a) + Len(b) : (a \o b)[i] = IF i <= Len(a) THEN a[i] ELSE b[i - Len(a)]
  BY <1>1, <1>2, ConcatProperties
<1>4. Modes!RemoveAt(s, k) = a \o b BY DEF Modes!RemoveAt, a, b
<1>5. Len(a) + Len(b) = Len(s) - 1 BY <1>1, <1>2
<1>6. ASSUME NEW i \in 1 .. Len(s) - 1
      PROVE  (a \o b)[i] = IF i < k THEN s[i] ELSE s[i + 1]
  <2>1. CASE i < k BY <1>1, <1>2, <1>3, <2>1
  <2>2. CASE ~(i < k)
    <3>1. i - Len(a) \in 1 .. Len(s) - k /\ k + (i - Len(a)) = i + 1 BY <1>1, <2>2
    <3>2. (a \o b)[i] = b[i - Len(a)] BY <1>1, <1>2, <1>3, <2>2
    <3> QED BY <1>2, <2>2, <3>1, <3>2
  <2> QED BY <2>1, <2>2
<1> QED BY <1>3, <1>4, <1>5, <1>6

(* gf_monitor_add_mode: a mode whose id is known is not added, or replaces    *)
(* the one that has it; so an id names one mode after it as before.           *)
LEMMA AddModeKeepsIds ==
    ASSUME x6 \in Seq(Modes!Mode), Modes!OneModePerId, NEW m \in Modes!Mode, NEW r,
           NEW t, t = Modes!AddMode(m, r)
    PROVE  /\ t \in Seq(Modes!Mode) /\ t # <<>>
           /\ \A i, j \in DOMAIN t : Modes!Id(t[i]) = Modes!Id(t[j]) => i = j
<1>1. CASE ~Modes!Exists(m)
  <2>1. t = Append(x6, m) BY <1>1 DEF Modes!AddMode
  <2>2. t \in Seq(Modes!Mode) /\ Len(t) = Len(x6) + 1 /\ t[Len(x6) + 1] = m
        /\ \A i \in 1 .. Len(x6) : t[i] = x6[i]
    BY <2>1
  <2>3. \A i \in 1 .. Len(x6) : Modes!Id(x6[i]) # Modes!Id(m)
    BY <1>1 DEF Modes!Exists
  <2>4. ASSUME NEW i \in 1 .. Len(x6), NEW j \in 1 .. Len(x6), Modes!Id(x6[i]) = Modes!Id(x6[j])
        PROVE  i = j
    BY <2>4 DEF Modes!OneModePerId
  <2>5. ASSUME NEW i \in DOMAIN t, NEW j \in DOMAIN t, Modes!Id(t[i]) = Modes!Id(t[j])
        PROVE  i = j
    <3>1. i \in 1 .. Len(x6) + 1 /\ j \in 1 .. Len(x6) + 1 BY <2>2
    <3>2. CASE i = Len(x6) + 1 /\ j # Len(x6) + 1 BY <2>2, <2>3, <2>5, <3>1, <3>2
    <3>3. CASE i # Len(x6) + 1 /\ j = Len(x6) + 1 BY <2>2, <2>3, <2>5, <3>1, <3>3
    <3>4. CASE i # Len(x6) + 1 /\ j # Len(x6) + 1 BY <2>2, <2>4, <2>5, <3>1, <3>4
    <3> QED BY <3>1, <3>2, <3>3, <3>4
  <2> QED BY <2>2, <2>5
<1>2. CASE Modes!Exists(m) /\ r
  <2> DEFINE k == Modes!Existing(m)  u == Modes!RemoveAt(x6, k)
  <2>1. k \in 1 .. Len(x6) /\ Modes!Id(x6[k]) = Modes!Id(m)
    BY <1>2 DEF Modes!Exists, Modes!Existing
  <2>2. u \in Seq(Modes!Mode) /\ Len(u) = Len(x6) - 1
        /\ \A i \in 1 .. Len(x6) - 1 : u[i] = IF i < k THEN x6[i] ELSE x6[i + 1]
    BY <2>1, RemovedAt
  <2>3. t = Append(u, m) BY <1>2 DEF Modes!AddMode
  <2> HIDE DEF k, u
  <2>4. t \in Seq(Modes!Mode) /\ Len(t) = Len(x6) /\ t[Len(x6)] = m
        /\ \A i \in 1 .. Len(x6) - 1 : t[i] = IF i < k THEN x6[i] ELSE x6[i + 1]
    BY <2>1, <2>2, <2>3
  <2> DEFINE from(i) == IF i = Len(x6) THEN k ELSE IF i < k THEN i ELSE i + 1
  <2>5. \A i \in 1 .. Len(x6) : from(i) \in 1 .. Len(x6) /\ Modes!Id(t[i]) = Modes!Id(x6[from(i)])
    BY <2>1, <2>4
  <2>6. \A i, j \in 1 .. Len(x6) : from(i) = from(j) => i = j
    BY <2>1
  <2>7. \A i, j \in 1 .. Len(x6) : Modes!Id(x6[i]) = Modes!Id(x6[j]) => i = j
    BY DEF Modes!OneModePerId
  <2>8. DOMAIN t = 1 .. Len(x6) BY <2>1, <2>4
  <2>9. t # <<>> BY <2>1, <2>4
  <2> HIDE DEF from
  <2> QED BY <2>4, <2>5, <2>6, <2>7, <2>8, <2>9
<1>3. CASE Modes!Exists(m) /\ ~r
  BY <1>3 DEF Modes!AddMode, Modes!Exists, Modes!OneModePerId
<1> QED BY <1>1, <1>2, <1>3

(* No mode is NULL.                                                           *)
LEMMA ModeIsSomething == \A m \in Modes!Mode : m # Modes!None
<1> SUFFICES ASSUME NEW m \in Modes!Mode PROVE m # <<>> BY DEF Modes!None
<1>1. "ref" \in DOMAIN m BY DEF Modes!Mode
<1>2. DOMAIN <<>> = {} OBVIOUS
<1> QED BY <1>1, <1>2

(* A set of numbers that is not empty has a least one.                        *)
LEMMA LeastOf ==
    ASSUME NEW S, S \subseteq Nat, S # {}
    PROVE  Modes!Min(S) \in S
<1> DEFINE R == OpToRel(<, Nat)
<1>1. IsWellFoundedOn(R, Nat) BY NatLessThanWellFounded
<1>2. ASSUME NEW x \in Nat, NEW y \in Nat, y < x PROVE <<y, x>> \in R
  BY <1>2, <<y, x>> \in Nat \X Nat DEF OpToRel
<1> HIDE DEF R
<1>3. PICK x \in S : \A y \in S : ~(<<y, x>> \in R) BY <1>1, WFMin
<1>4. ASSUME NEW y \in S PROVE x <= y
  <2>1. x \in Nat /\ y \in Nat OBVIOUS
  <2>2. ~(y < x) BY <1>2, <1>3, <2>1, Zenon
  <2> QED BY <2>1, <2>2
<1> QED BY <1>4 DEF Modes!Min

(* The outputs of a monitor are one or two, each with modes of its own.       *)
LEMMA OutputFacts ==
    ASSUME Modes!TypeOK
    PROVE  /\ Len(x1) \in {1, 2} /\ DOMAIN x1 = 1 .. Len(x1)
           /\ \A o \in DOMAIN x1 :
                /\ x1[o].modes \in Seq(Modes!CrtcModes) /\ Len(x1[o].modes) \in Nat \ {0}
                /\ DOMAIN x1[o].modes = 1 .. Len(x1[o].modes)
                /\ x1[o].lit \in Nat
                /\ \A i \in DOMAIN x1[o].modes : Modes!CrtcMode(o, i) \in Modes!CrtcModes
<1>1. PICK n \in {1, 2} : x1 \in [1 .. n -> Modes!Output] BY DEF Modes!TypeOK
<1>2. DOMAIN x1 = 1 .. n /\ Len(x1) = n BY <1>1
<1>3. ASSUME NEW o \in DOMAIN x1
      PROVE  /\ x1[o].modes \in Seq(Modes!CrtcModes) /\ x1[o].modes # <<>> /\ x1[o].lit \in Nat
  BY <1>1, <1>2 DEF Modes!Output
<1>4. ASSUME NEW o \in DOMAIN x1
      PROVE  /\ Len(x1[o].modes) \in Nat \ {0} /\ DOMAIN x1[o].modes = 1 .. Len(x1[o].modes)
             /\ \A i \in DOMAIN x1[o].modes : x1[o].modes[i] \in Modes!CrtcModes
  BY <1>3
<1> QED BY <1>2, <1>3, <1>4 DEF Modes!CrtcMode

(* find_untiled_output finds an output.                                       *)
LEMMA MainIsAnOutput ==
    ASSUME Modes!TypeOK
    PROVE  Modes!Main \in DOMAIN x1
<1>1. ASSUME NEW o \in DOMAIN x1 PROVE Modes!Untiled(o) \in Int
  <2>1. Modes!TileModes(o) \subseteq 1 .. Len(x1[o].modes) BY OutputFacts DEF Modes!TileModes
  <2>2. Len(x1[o].modes) \in Nat BY OutputFacts
  <2>3. IsFiniteSet(1 .. Len(x1[o].modes)) BY <2>2, FS_Interval
  <2>4. IsFiniteSet(Modes!TileModes(o)) BY <2>1, <2>3, FS_Subset
  <2>5. Cardinality(Modes!TileModes(o)) \in Nat BY <2>4, FS_CardinalityType
  <2>6. Modes!Cardinality(Modes!TileModes(o)) = Cardinality(Modes!TileModes(o))
    BY DEF Modes!Cardinality, Cardinality
  <2> QED BY <2>2, <2>5, <2>6 DEF Modes!Untiled
<1>2. \E o \in DOMAIN x1 : /\ \A p \in DOMAIN x1 : Modes!Untiled(p) <= Modes!Untiled(o)
                           /\ \A p \in 1 .. o - 1 : Modes!Untiled(p) < Modes!Untiled(o)
  <2>1. CASE Len(x1) = 1
    <3>1. DOMAIN x1 = {1} BY <2>1, OutputFacts
    <3> QED BY <3>1, <1>1
  <2>2. CASE Len(x1) = 2
    <3>1. DOMAIN x1 = {1, 2} BY <2>2, OutputFacts
    <3>2. Modes!Untiled(1) \in Int /\ Modes!Untiled(2) \in Int BY <1>1, <3>1
    <3>3. CASE Modes!Untiled(1) < Modes!Untiled(2)
      <4>1. 1 .. 2 - 1 = {1} OBVIOUS
      <4> QED BY <3>1, <3>2, <3>3, <4>1
    <3>4. CASE Modes!Untiled(2) <= Modes!Untiled(1)
      <4>1. 1 .. 1 - 1 = {} OBVIOUS
      <4> QED BY <3>1, <3>2, <3>4, <4>1
    <3> QED BY <3>2, <3>3, <3>4
  <2> QED BY <2>1, <2>2, OutputFacts
<1> QED BY <1>2 DEF Modes!Main

(* generate_modes of gf-monitor-normal.c makes a mode of each mode of the     *)
(* output.                                                                    *)
LEMMA NormalModeType ==
    ASSUME Modes!TypeOK, NEW i \in DOMAIN x1[1].modes
    PROVE  Modes!NormalMode(i) \in Modes!Mode
<1>1. 1 \in DOMAIN x1 BY OutputFacts
<1>2. i \in Nat /\ Modes!CrtcMode(1, i) \in Modes!CrtcModes BY <1>1, OutputFacts
<1>3. <<i>> \in Seq(Nat) BY <1>2
<1> QED BY <1>2, <1>3 DEF Modes!NormalMode, Modes!Mode, Modes!CrtcModes

(* create_untiled_monitor_mode of gf-monitor-tiled.c makes one.               *)
LEMMA UntiledModeType ==
    ASSUME Modes!TypeOK, NEW i \in DOMAIN x1[Modes!Main].modes
    PROVE  Modes!UntiledMode(i) \in Modes!Mode
<1>1. i \in Nat /\ Modes!CrtcMode(Modes!Main, i) \in Modes!CrtcModes BY MainIsAnOutput, OutputFacts
<1>2. [o \in DOMAIN x1 |-> IF o = Modes!Main THEN i ELSE 0] \in Seq(Nat)
  <2>1. [o \in 1 .. Len(x1) |-> IF o = Modes!Main THEN i ELSE 0] \in Seq(Nat)
    BY <1>1, OutputFacts
  <2> QED BY <2>1, OutputFacts
<1> QED BY <1>1, <1>2 DEF Modes!UntiledMode, Modes!Mode, Modes!CrtcModes

(* create_tiled_monitor_mode of gf-monitor-tiled.c makes one.                 *)
LEMMA TiledModeType ==
    ASSUME Modes!TypeOK, Modes!IsTiled, NEW i \in DOMAIN x1[Modes!Main].modes
    PROVE  Modes!TiledMode(i) \in Modes!Mode
<1>1. i \in Nat /\ Modes!CrtcMode(Modes!Main, i) \in Modes!CrtcModes BY MainIsAnOutput, OutputFacts
<1>2. ASSUME NEW o \in DOMAIN x1 PROVE Modes!FindTiledCrtcMode(o, i) \in Nat
  <2> DEFINE same == {j \in Modes!TileModes(o) :
                        /\ Modes!CrtcMode(o, j).rate = Modes!CrtcMode(Modes!Main, i).rate
                        /\ Modes!CrtcMode(o, j).flags = Modes!CrtcMode(Modes!Main, i).flags}
  <2>1. same \subseteq Nat BY OutputFacts DEF Modes!TileModes
  <2>2. same # {} => Modes!Min(same) \in Nat BY <2>1, LeastOf
  <2>3. Modes!FindTiledCrtcMode(o, i) = IF Modes!Preferred \in Modes!TileModes(o) THEN Modes!Preferred
                                       ELSE IF same = {} THEN 0 ELSE Modes!Min(same)
    BY DEF Modes!FindTiledCrtcMode
  <2> HIDE DEF same
  <2> QED BY <2>2, <2>3 DEF Modes!Preferred
<1>3. [o \in DOMAIN x1 |-> Modes!FindTiledCrtcMode(o, i)] \in Seq(Nat)
  <2>1. [o \in 1 .. Len(x1) |-> Modes!FindTiledCrtcMode(o, i)] \in Seq(Nat)
    BY <1>2, OutputFacts
  <2> QED BY <2>1, OutputFacts
<1>4. Len(x1) = 2 BY OutputFacts DEF Modes!IsTiled
<1> QED BY <1>1, <1>3, <1>4 DEF Modes!TiledMode, Modes!Mode, Modes!CrtcModes

(* The outputs stay as they are while the modes are made.                     *)
LEMMA TypeKept ==
    ASSUME Modes!TypeOK, x1' = x1,
           x2' \in {"normal", "tiled", "adding", "untiled", "prefer", "best", "derive", "done"},
           x2' = "normal" => ~Modes!IsTiled, x2' \in {"tiled", "adding", "untiled"} => Modes!IsTiled,
           x3' \in Nat \ {0}, x4' \in Seq(Modes!Mode), x6' \in Seq(Modes!Mode),
           x5' \in Modes!Mode \cup {Modes!None}, x7' \in Modes!Mode \cup {Modes!None},
           x8' \in Modes!Mode \cup {Modes!None}
    PROVE  Modes!TypeOK'
<1>1. x1' \in [1 .. 1 -> Modes!Output] \cup [1 .. 2 -> Modes!Output] BY DEF Modes!TypeOK
<1>2. (Modes!IsTiled)' <=> Modes!IsTiled BY DEF Modes!IsTiled
<1>3. {x5', x7', x8'} \subseteq Modes!Mode \cup {Modes!None} OBVIOUS
<1> QED BY <1>1, <1>2, <1>3 DEF Modes!TypeOK

(* A round of the loop of generate_modes (gf-monitor-normal.c).               *)
LEMMA NormalStep ==
    ASSUME Modes!Inv, Modes!GenerateNormal
    PROVE  Modes!Inv'
<1> USE DEF Modes!Inv
<1>1. /\ x2 = "normal" /\ Len(x1) = 1 /\ 1 \in DOMAIN x1 /\ x3 \in Nat \ {0}
      /\ x1' = x1 /\ x4' = x4 /\ x5' = x5 /\ x9' = x9 /\ x10' = x10
  <2>1. x2 = "normal" /\ x1' = x1 /\ x4' = x4 /\ x5' = x5 /\ x9' = x9 /\ x10' = x10
    BY DEF Modes!GenerateNormal
  <2>2. x3 \in Nat \ {0} /\ ~(Len(x1) > 1) BY <2>1 DEF Modes!TypeOK, Modes!IsTiled
  <2> QED BY <2>1, <2>2, OutputFacts
<1>2. CASE x3 > Len(x1[1].modes)
  <2>1. x2' = "derive" /\ x3' = x3 /\ x6' = x6 /\ x7' = x7 /\ x8' = x8
    BY <1>2 DEF Modes!GenerateNormal
  <2>2. x7 # Modes!None
    BY <1>1, <1>2, OutputFacts DEF Modes!PreferredIsFound
  <2>3. Modes!TypeOK' BY <1>1, <2>1, TypeKept DEF Modes!TypeOK
  <2>4. Modes!OneModePerId' BY <2>1 DEF Modes!OneModePerId, Modes!Id
  <2> QED BY <1>1, <2>1, <2>2, <2>3, <2>4 DEF Modes!LitOneWay, Modes!LitBy, Modes!PreferredIsFound
<1>3. CASE ~(x3 > Len(x1[1].modes))
  <2> DEFINE mode == Modes!NormalMode(x3)
             replace == Modes!CrtcMode(1, x3).flags = Modes!CrtcMode(1, Modes!Preferred).flags
             added == replace \/ ~Modes!Exists(mode)
  <2>1. /\ x6' = Modes!AddMode(mode, replace)
        /\ x7' = IF added /\ x3 = Modes!Preferred THEN mode ELSE x7
        /\ x8' = IF added /\ x1[1].lit = x3 THEN mode ELSE x8
        /\ x3' = x3 + 1 /\ x2' = x2
    BY <1>3 DEF Modes!GenerateNormal
  <2>2. mode \in Modes!Mode /\ mode # Modes!None
    BY <1>1, <1>3, OutputFacts, NormalModeType, ModeIsSomething
  <2>3. x3 = 1 => added BY DEF Modes!Preferred
  <2>4. /\ x6' \in Seq(Modes!Mode)
        /\ \A i, j \in DOMAIN x6' : Modes!Id(x6'[i]) = Modes!Id(x6'[j]) => i = j
    <3> HIDE DEF mode, replace
    <3> QED BY <2>1, <2>2, AddModeKeepsIds DEF Modes!TypeOK
  <2> HIDE DEF mode, added
  <2>5. x7' # Modes!None
    BY <1>1, <2>1, <2>2, <2>3 DEF Modes!PreferredIsFound, Modes!Preferred
  <2>6. Modes!TypeOK'
    <3>1. x7' \in Modes!Mode \cup {Modes!None} /\ x8' \in Modes!Mode \cup {Modes!None}
      BY <2>1, <2>2 DEF Modes!TypeOK
    <3>2. x4' \in Seq(Modes!Mode) /\ x5' \in Modes!Mode \cup {Modes!None} /\ ~Modes!IsTiled
      BY <1>1 DEF Modes!TypeOK, Modes!IsTiled
    <3> QED BY <1>1, <2>1, <2>4, <3>1, <3>2, TypeKept
  <2>7. Modes!OneModePerId' BY <2>4 DEF Modes!OneModePerId, Modes!Id
  <2> QED BY <1>1, <2>1, <2>5, <2>6, <2>7 DEF Modes!LitOneWay, Modes!LitBy, Modes!PreferredIsFound
<1> QED BY <1>2, <1>3

(* A round of the loop of generate_tiled_monitor_modes.                       *)
LEMMA TiledStep ==
    ASSUME Modes!Inv, Modes!GenerateTiled
    PROVE  Modes!Inv'
<1> USE DEF Modes!Inv
<1>1. x2 = "tiled" /\ x1' = x1 /\ x5' = x5 /\ x6' = x6 /\ x9' = x9 /\ x10' = x10
  BY DEF Modes!GenerateTiled
<1>2. x3 \in Nat \ {0} /\ Modes!IsTiled /\ Modes!Main \in DOMAIN x1
  BY <1>1, MainIsAnOutput DEF Modes!TypeOK
<1>3. Modes!OneModePerId' BY <1>1 DEF Modes!OneModePerId, Modes!Id
<1>4. CASE x3 > Len(x1[Modes!Main].modes)
  <2>1. x2' = "adding" /\ x3' = 1 /\ x4' = x4 /\ x7' = x7 /\ x8' = x8
    BY <1>4 DEF Modes!GenerateTiled
  <2>2. Modes!TypeOK' BY <1>1, <1>2, <2>1, TypeKept DEF Modes!TypeOK
  <2> QED BY <1>1, <1>3, <2>1, <2>2 DEF Modes!LitOneWay, Modes!LitBy, Modes!PreferredIsFound
<1>5. CASE ~(x3 > Len(x1[Modes!Main].modes))
  <2> DEFINE mode == Modes!TiledMode(x3)
             made == x3 \in Modes!TileModes(Modes!Main) /\ 0 \notin Modes!ToSet(mode.crtcs)
  <2>1. /\ x4' = IF made THEN Append(x4, mode) ELSE x4
        /\ x8' = IF made /\ Modes!IsModeAssigned(mode) THEN mode ELSE x8
        /\ x7' = IF made /\ Modes!ToSet(mode.crtcs) = {Modes!Preferred} THEN mode ELSE x7
        /\ x3' = x3 + 1 /\ x2' = x2
    BY <1>5 DEF Modes!GenerateTiled
  <2>2. mode \in Modes!Mode /\ DOMAIN mode.crtcs = DOMAIN x1
    <3>1. x3 \in DOMAIN x1[Modes!Main].modes BY <1>2, <1>5, OutputFacts
    <3> QED BY <1>2, <3>1, TiledModeType DEF Modes!TiledMode
  <2>3. made /\ Modes!IsModeAssigned(mode) => \A o \in DOMAIN x1 : x1[o].lit # 0
    <3>1. ASSUME made, Modes!IsModeAssigned(mode), NEW o \in DOMAIN x1 PROVE x1[o].lit # 0
      <4>1. mode.crtcs[o] \in Modes!ToSet(mode.crtcs) BY <2>2 DEF Modes!ToSet
      <4>2. mode.crtcs[o] = x1[o].lit BY <3>1 DEF Modes!IsModeAssigned
      <4> QED BY <3>1, <4>1, <4>2
    <3> QED BY <3>1
  <2> HIDE DEF mode, made
  <2>4. Modes!TypeOK'
    <3>1. /\ x7' \in Modes!Mode \cup {Modes!None} /\ x8' \in Modes!Mode \cup {Modes!None}
          /\ x4' \in Seq(Modes!Mode) /\ x5' \in Modes!Mode \cup {Modes!None}
          /\ x6' \in Seq(Modes!Mode)
      BY <1>1, <2>1, <2>2 DEF Modes!TypeOK
    <3> QED BY <1>1, <1>2, <2>1, <3>1, TypeKept DEF Modes!TypeOK
  <2>5. Modes!LitBy' BY <1>1, <2>1, <2>3 DEF Modes!LitBy
  <2> QED BY <1>1, <1>3, <2>1, <2>4, <2>5 DEF Modes!LitOneWay, Modes!PreferredIsFound
<1> QED BY <1>4, <1>5

(* A mode that was made is added.                                             *)
LEMMA AddTiledStep ==
    ASSUME Modes!Inv, Modes!AddTiled
    PROVE  Modes!Inv'
<1> USE DEF Modes!Inv
<1>1. x2 = "adding" /\ x1' = x1 /\ x3' = x3 /\ x8' = x8 /\ x10' = x10
  BY DEF Modes!AddTiled
<1>2. CASE x4 = <<>>
  <2>1. /\ x2' = "untiled" /\ x7' = (IF x5 # Modes!None THEN x5 ELSE x7)
        /\ x4' = x4 /\ x5' = x5 /\ x6' = x6
    BY <1>2 DEF Modes!AddTiled
  <2>2. Modes!TypeOK'
    <3>1. x7' \in Modes!Mode \cup {Modes!None} BY <2>1 DEF Modes!TypeOK
    <3> QED BY <1>1, <2>1, <3>1, TypeKept DEF Modes!TypeOK
  <2>3. Modes!OneModePerId' BY <2>1 DEF Modes!OneModePerId, Modes!Id
  <2>4. Modes!LitBy' BY <1>1, <2>1 DEF Modes!LitBy
  <2> QED BY <1>1, <2>1, <2>2, <2>3, <2>4 DEF Modes!LitOneWay, Modes!PreferredIsFound
<1>3. CASE x4 # <<>>
  <2> DEFINE mode == Head(x4)
  <2>1. /\ x4' = Tail(x4) /\ x6' = Modes!AddMode(mode, FALSE)
        /\ x5' \in {mode, x5} /\ x2' = x2 /\ x7' = x7
    BY <1>3 DEF Modes!AddTiled
  <2>2. mode \in Modes!Mode /\ x4' \in Seq(Modes!Mode) BY <1>3, <2>1 DEF Modes!TypeOK
  <2>3. /\ x6' \in Seq(Modes!Mode)
        /\ \A i, j \in DOMAIN x6' : Modes!Id(x6'[i]) = Modes!Id(x6'[j]) => i = j
    <3> HIDE DEF mode
    <3> QED BY <2>1, <2>2, AddModeKeepsIds DEF Modes!TypeOK
  <2>4. Modes!TypeOK'
    <3> HIDE DEF mode
    <3>1. x5' \in Modes!Mode \cup {Modes!None} BY <2>1, <2>2 DEF Modes!TypeOK
    <3> QED BY <1>1, <2>1, <2>2, <2>3, <3>1, TypeKept DEF Modes!TypeOK
  <2>5. Modes!OneModePerId' BY <2>3 DEF Modes!OneModePerId, Modes!Id
  <2>6. Modes!LitBy' BY <1>1, <2>1 DEF Modes!LitBy
  <2> QED BY <1>1, <2>1, <2>4, <2>5, <2>6 DEF Modes!LitOneWay, Modes!PreferredIsFound
<1> QED BY <1>2, <1>3

(* A round of the loop of generate_untiled_monitor_modes.                     *)
LEMMA UntiledStep ==
    ASSUME Modes!Inv, Modes!GenerateUntiled
    PROVE  Modes!Inv'
<1> USE DEF Modes!Inv
<1>1. x2 = "untiled" /\ x1' = x1 /\ x4' = x4 /\ x5' = x5
  BY DEF Modes!GenerateUntiled
<1>2. /\ x3 \in Nat \ {0} /\ Modes!IsTiled /\ Modes!Main \in DOMAIN x1
      /\ DOMAIN x1 = {1, 2} /\ \A o \in DOMAIN x1 : x1[o].lit \in Nat
  <2>1. x3 \in Nat \ {0} /\ Modes!IsTiled BY <1>1 DEF Modes!TypeOK
  <2>2. DOMAIN x1 = 1 .. 2 BY <2>1, OutputFacts DEF Modes!IsTiled
  <2> QED BY <2>1, <2>2, OutputFacts, MainIsAnOutput
<1>3. CASE x3 > Len(x1[Modes!Main].modes)
  <2>1. x2' = "prefer" /\ x3' = x3 /\ x6' = x6 /\ x7' = x7 /\ x8' = x8 /\ x10' = x10
    BY <1>3 DEF Modes!GenerateUntiled
  <2>2. Modes!TypeOK' BY <1>1, <1>2, <2>1, TypeKept DEF Modes!TypeOK
  <2>3. Modes!OneModePerId' BY <2>1 DEF Modes!OneModePerId, Modes!Id
  <2> QED BY <1>1, <2>1, <2>2, <2>3 DEF Modes!LitOneWay, Modes!LitBy, Modes!PreferredIsFound
<1>4. CASE ~(x3 > Len(x1[Modes!Main].modes))
  <2> DEFINE mode == Modes!UntiledMode(x3)
             made == x3 \notin Modes!TileModes(Modes!Main)
             added == made /\ ~Modes!Exists(mode)
             on == added /\ Modes!IsModeAssigned(mode)
             onAll == \A o \in DOMAIN x1 : x1[o].lit # 0
             alone(n) == \E o \in DOMAIN x1 :
                           /\ x1[o].lit \in 1 .. n - 1
                           /\ \A p \in DOMAIN x1 \ {o} : x1[p].lit = 0
  <2>1. /\ x6' = IF made THEN Modes!AddMode(mode, FALSE) ELSE x6
        /\ x10' = (x10 \/ (on /\ x8 # Modes!None))
        /\ x8' = IF on THEN mode ELSE x8
        /\ x7' \in {mode, x7}
        /\ x3' = x3 + 1 /\ x2' = x2
    <3>1. x7' = IF added /\ x7 = Modes!None /\ x3 = Modes!Preferred THEN mode ELSE x7
      BY <1>4 DEF Modes!GenerateUntiled
    <3>2. x7' \in {mode, x7} BY <3>1
    <3> QED BY <1>4, <3>2 DEF Modes!GenerateUntiled
  <2>2. mode \in Modes!Mode
    <3>1. x3 \in DOMAIN x1[Modes!Main].modes BY <1>2, <1>4, OutputFacts
    <3> QED BY <3>1, UntiledModeType
  <2>3. on => /\ x1[Modes!Main].lit = x3
              /\ \A o \in DOMAIN x1 \ {Modes!Main} : x1[o].lit = 0
    <3>1. \A o \in DOMAIN x1 : mode.crtcs[o] = IF o = Modes!Main THEN x3 ELSE 0
      BY DEF Modes!UntiledMode
    <3> HIDE DEF mode
    <3> QED BY <1>2, <3>1 DEF Modes!IsModeAssigned
  <2>4. /\ x6' \in Seq(Modes!Mode)
        /\ \A i, j \in DOMAIN x6' : Modes!Id(x6'[i]) = Modes!Id(x6'[j]) => i = j
    <3>1. CASE made
      <4> HIDE DEF mode, made
      <4> QED BY <2>1, <2>2, <3>1, AddModeKeepsIds DEF Modes!TypeOK
    <3>2. CASE ~made
      <4>1. x6' = x6 BY <2>1, <3>2
      <4> QED BY <4>1 DEF Modes!TypeOK, Modes!OneModePerId
    <3> QED BY <3>1, <3>2
  <2> HIDE DEF mode, made, added, on
  <2>5. x8 # Modes!None => onAll \/ alone(x3)
    BY <1>1 DEF Modes!LitBy
  <2>6. on => ~onAll /\ ~alone(x3) /\ alone(x3')
    <3> SUFFICES ASSUME on PROVE ~onAll /\ ~alone(x3) /\ alone(x3') OBVIOUS
    <3>1. PICK p \in DOMAIN x1 : p # Modes!Main BY <1>2
    <3>2. x1[p].lit = 0 BY <2>3, <3>1
    <3>3. ~alone(x3)
      <4> SUFFICES ASSUME NEW o \in DOMAIN x1, x1[o].lit \in 1 .. x3 - 1,
                          \A q \in DOMAIN x1 \ {o} : x1[q].lit = 0
                   PROVE  FALSE
        OBVIOUS
      <4>1. CASE o = Modes!Main BY <1>2, <2>3, <4>1
      <4>2. CASE o # Modes!Main BY <2>3, <4>2
      <4> QED BY <4>1, <4>2
    <3>4. x1[Modes!Main].lit \in 1 .. x3' - 1 BY <1>2, <2>1, <2>3
    <3> QED BY <1>2, <2>3, <3>1, <3>2, <3>3, <3>4
  <2>7. alone(x3) => alone(x3')
    <3>1. 1 .. x3 - 1 \subseteq 1 .. x3' - 1 BY <1>2, <2>1
    <3> QED BY <3>1
  <2>8. Modes!LitOneWay'
    <3>1. ~(on /\ x8 # Modes!None) BY <2>5, <2>6
    <3> QED BY <2>1, <3>1 DEF Modes!LitOneWay
  <2>9. x8' # Modes!None => onAll \/ alone(x3')
    BY <2>1, <2>5, <2>6, <2>7
  <2>10. Modes!LitBy' BY <1>1, <2>1, <2>9 DEF Modes!LitBy
  <2>11. Modes!TypeOK'
    <3>1. x7' \in Modes!Mode \cup {Modes!None} /\ x8' \in Modes!Mode \cup {Modes!None}
      BY <2>1, <2>2 DEF Modes!TypeOK
    <3>2. x4' \in Seq(Modes!Mode) /\ x5' \in Modes!Mode \cup {Modes!None} BY <1>1 DEF Modes!TypeOK
    <3>3. x3' \in Nat \ {0} /\ x2' = "untiled" BY <1>1, <1>2, <2>1
    <3>4. x6' \in Seq(Modes!Mode) BY <2>4
    <3>5. Modes!TypeOK BY DEF Modes!Inv
    <3> QED BY ONLY <1>1, <1>2, <3>1, <3>2, <3>3, <3>4, <3>5, TypeKept
  <2>12. Modes!OneModePerId' BY <2>4 DEF Modes!OneModePerId, Modes!Id
  <2> QED BY <1>1, <2>1, <2>8, <2>10, <2>11, <2>12 DEF Modes!PreferredIsFound
<1> QED BY <1>3, <1>4

(* The preferred mode, or the search for one, begins.                         *)
LEMMA PreferStep ==
    ASSUME Modes!Inv, Modes!Prefer
    PROVE  Modes!Inv'
<1> USE DEF Modes!Inv
<1>1. /\ x1' = x1 /\ x4' = x4 /\ x6' = x6 /\ x7' = x7 /\ x8' = x8 /\ x10' = x10
      /\ x3' = 1 /\ x5' = Modes!None /\ x2' = (IF x7 = Modes!None THEN "best" ELSE "derive")
  BY DEF Modes!Prefer
<1>2. Modes!TypeOK' BY <1>1, TypeKept DEF Modes!TypeOK
<1>3. Modes!OneModePerId' BY <1>1 DEF Modes!OneModePerId, Modes!Id
<1> QED BY <1>1, <1>2, <1>3 DEF Modes!LitOneWay, Modes!LitBy, Modes!PreferredIsFound

(* A round of find_best_mode: the first mode it looks at is one.              *)
LEMMA FindBestStep ==
    ASSUME Modes!Inv, Modes!FindBestMode
    PROVE  Modes!Inv'
<1> USE DEF Modes!Inv
<1>1. /\ x2 = "best" /\ x1' = x1 /\ x4' = x4 /\ x6' = x6 /\ x8' = x8 /\ x10' = x10
      /\ x3 \in Nat \ {0} /\ x6 \in Seq(Modes!Mode)
  BY DEF Modes!FindBestMode, Modes!TypeOK
<1>2. Modes!OneModePerId' BY <1>1 DEF Modes!OneModePerId, Modes!Id
<1>3. CASE x3 > Len(x6)
  <2>1. x2' = "derive" /\ x7' = x5 /\ x3' = x3 /\ x5' = x5 BY <1>3 DEF Modes!FindBestMode
  <2>2. Modes!TypeOK' BY <1>1, <2>1, TypeKept DEF Modes!TypeOK
  <2>3. x6 # <<>> => x3 > 1 BY <1>1, <1>3
  <2> QED BY <1>1, <1>2, <2>1, <2>2, <2>3 DEF Modes!LitOneWay, Modes!LitBy, Modes!PreferredIsFound
<1>4. CASE ~(x3 > Len(x6))
  <2>1. /\ x5' = (IF x5 = Modes!None \/ x6[x3].size > x5.size \/ x6[x3].rate > x5.rate THEN x6[x3] ELSE x5)
        /\ x3' = x3 + 1 /\ x2' = x2 /\ x7' = x7
    BY <1>4 DEF Modes!FindBestMode
  <2>2. x6[x3] \in Modes!Mode BY <1>1, <1>4
  <2>3. x5' \in Modes!Mode
    <3>1. x5 = Modes!None => x5' = x6[x3] BY <2>1
    <3>2. x5' \in {x5, x6[x3]} BY <2>1
    <3> QED BY <2>2, <3>1, <3>2 DEF Modes!TypeOK
  <2>4. x5' # Modes!None BY <2>3, ModeIsSomething
  <2>5. Modes!TypeOK' BY <1>1, <2>1, <2>3, TypeKept DEF Modes!TypeOK
  <2> QED BY <1>1, <1>2, <2>1, <2>4, <2>5 DEF Modes!LitOneWay, Modes!LitBy, Modes!PreferredIsFound
<1> QED BY <1>3, <1>4

(* gf_monitor_derive_current_mode.                                            *)
LEMMA DeriveStep ==
    ASSUME Modes!Inv, Modes!DeriveCurrentMode
    PROVE  Modes!Inv'
<1> USE DEF Modes!Inv
<1> DEFINE on == {i \in DOMAIN x6 : Modes!IsModeAssigned(x6[i])}
<1>1. /\ x2 = "derive" /\ x2' = "done" /\ x1' = x1 /\ x3' = x3 /\ x4' = x4 /\ x5' = x5
      /\ x6' = x6 /\ x7' = x7 /\ x10' = x10 /\ x6 \in Seq(Modes!Mode)
      /\ x8' = IF on = {} THEN Modes!None ELSE x6[Modes!Min(on)]
  BY DEF Modes!DeriveCurrentMode, Modes!TypeOK
<1>2. on \subseteq Nat /\ on \subseteq DOMAIN x6 BY <1>1
<1>3. x8' \in Modes!Mode \cup {Modes!None}
  <2> HIDE DEF on
  <2>1. CASE on = {} BY <1>1, <2>1
  <2>2. CASE on # {}
    <3>1. Modes!Min(on) \in DOMAIN x6 BY <1>2, <2>2, LeastOf
    <3>2. x6[Modes!Min(on)] \in Modes!Mode BY <1>1, <3>1
    <3> QED BY <1>1, <2>2, <3>2
  <2> QED BY <2>1, <2>2
<1> HIDE DEF on
<1>4. Modes!TypeOK' BY <1>1, <1>3, TypeKept DEF Modes!TypeOK
<1>5. Modes!OneModePerId' BY <1>1 DEF Modes!OneModePerId, Modes!Id
<1> QED BY <1>1, <1>4, <1>5 DEF Modes!LitOneWay, Modes!LitBy, Modes!PreferredIsFound

(* A monitor has no modes before they are generated.                          *)
LEMMA ModesInit ==
    ASSUME Modes!Init
    PROVE  Modes!Inv
<1> DEFINE Given == {o \in [modes : UNION {[1 .. k -> Modes!CrtcModes] : k \in 1 .. MaxModes}, lit : 0 .. MaxModes] :
                       o.lit <= Len(o.modes)}
<1>1. PICK n \in 1 .. 2 : x1 \in [1 .. n -> Given] BY DEF Modes!Init, Modes!AddTiledMonitorOutputs
<1>2. Given \subseteq Modes!Output
  <2> SUFFICES ASSUME NEW o \in Given PROVE o \in Modes!Output OBVIOUS
  <2>1. PICK k \in 1 .. MaxModes : o.modes \in [1 .. k -> Modes!CrtcModes] OBVIOUS
  <2>2. k \in Nat \ {0} BY ModesAssumption
  <2>3. o.modes \in Seq(Modes!CrtcModes) /\ o.modes # <<>> BY <2>1, <2>2
  <2>4. o \in [modes : UNION {[1 .. m -> Modes!CrtcModes] : m \in 1 .. MaxModes}, lit : 0 .. MaxModes] OBVIOUS
  <2> HIDE DEF Given
  <2>5. o.lit \in Nat /\ o = [modes |-> o.modes, lit |-> o.lit] BY <2>4, ModesAssumption
  <2> QED BY <2>3, <2>5 DEF Modes!Output
<1> HIDE DEF Given
<1>3. n \in {1, 2} /\ x1 \in [1 .. n -> Modes!Output] BY <1>1, <1>2
<1>4. /\ x2 = (IF Modes!IsTiled THEN "tiled" ELSE "normal") /\ x3 = 1 /\ x4 = <<>>
      /\ x5 = Modes!None /\ x6 = <<>> /\ x7 = Modes!None /\ x8 = Modes!None /\ x10 = FALSE
  BY DEF Modes!Init
<1>5. Modes!TypeOK
  <2>1. x1 \in [1 .. 1 -> Modes!Output] \cup [1 .. 2 -> Modes!Output] BY <1>3
  <2> QED BY <1>4, <2>1 DEF Modes!TypeOK
<1>6. Modes!OneModePerId BY <1>4 DEF Modes!OneModePerId
<1> QED BY <1>4, <1>5, <1>6 DEF Modes!Inv, Modes!LitOneWay, Modes!LitBy, Modes!PreferredIsFound

ModesInv == part = "modes" => Modes!Inv

(* gf-monitor.c, gf-monitor-normal.c, gf-monitor-tiled.c: while the modes of  *)
(* a monitor are generated, an id names one mode, the monitor is lit one way  *)
(* at most, and a monitor with modes has a preferred one in the end; for all  *)
(* modes, rates, flags and tiles.                                             *)
THEOREM ModesHaveOneId == Spec => []OneModePerId
<1>1. Init => ModesInv BY ModesInit DEF Init, ModesInv, ParserInit
<1>2. ModesInv /\ [Next]_all => ModesInv'
  <2> SUFFICES ASSUME ModesInv, [Next]_all, part' = "modes" PROVE Modes!Inv'
    BY DEF ModesInv
  <2>1. part = "modes"
    BY DEF Next, all, InStore, InParser, InPolicies, InConversion, InServer, InModes
  <2>2. Modes!Inv BY <2>1 DEF ModesInv
  <2>3. CASE Modes!Next
    BY <2>2, <2>3, NormalStep, TiledStep, AddTiledStep, UntiledStep, PreferStep, FindBestStep, DeriveStep
    DEF Modes!Next
  <2>4. CASE UNCHANGED all
    BY <2>2, <2>4 DEF all, Modes!Inv, Modes!TypeOK, Modes!IsTiled, Modes!OneModePerId, Modes!Id, Modes!LitOneWay,
      Modes!LitBy, Modes!PreferredIsFound
  <2> QED BY <2>1, <2>3, <2>4
    DEF Next, InStore, InParser, InPolicies, InConversion, InServer, InModes
<1>3. ModesInv => OneModePerId
  BY DEF ModesInv, OneModePerId, Modes!Inv, Modes!PreferredIsFound, Modes!HasPreferredMode
<1> QED BY <1>1, <1>2, <1>3, PTL DEF Spec

(* ---------------------------------------------- the CRTCs of the server ---- *)

(* A finite set of numbers that is not empty has a greatest one, by induction *)
(* on its size.                                                               *)
LEMMA GreatestOf ==
    ASSUME NEW S, S \subseteq Nat, S # {}, IsFiniteSet(S)
    PROVE  Server!Max(S) \in S /\ \A y \in S : y <= Server!Max(S)
<1> DEFINE HasMax(T) == \E m \in T : \A y \in T : y <= m
           Without == {n \in Nat : \E T \in SUBSET Nat :
                          T # {} /\ IsFiniteSet(T) /\ Cardinality(T) = n /\ ~HasMax(T)}
           R == OpToRel(<, Nat)
<1>1. IsWellFoundedOn(R, Nat) BY NatLessThanWellFounded
<1>2. ASSUME NEW m \in Nat, NEW n \in Nat, n < m PROVE <<n, m>> \in R
  BY <1>2, <<n, m>> \in Nat \X Nat DEF OpToRel
<1> HIDE DEF R
<1>3. Without = {}
  <2> SUFFICES ASSUME Without # {} PROVE FALSE OBVIOUS
  <2>1. Without \subseteq Nat OBVIOUS
  <2> HIDE DEF Without
  <2>2. PICK n \in Without : \A k \in Without : ~(<<k, n>> \in R) BY <1>1, <2>1, WFMin
  <2> USE DEF Without
  <2>3. PICK T \in SUBSET Nat : T # {} /\ IsFiniteSet(T) /\ Cardinality(T) = n /\ ~HasMax(T) OBVIOUS
  <2>4. PICK a \in T : TRUE BY <2>3
  <2> DEFINE U == T \ {a}
  <2>5. IsFiniteSet(U) /\ Cardinality(U) = Cardinality(T) - 1 BY <2>3, <2>4, FS_RemoveElement
  <2>6. n \in Nat /\ Cardinality(U) \in Nat BY <2>3, <2>5, FS_CardinalityType
  <2>7. CASE U = {}
    <3>1. T = {a} BY <2>4, <2>7
    <3> QED BY <2>3, <3>1
  <2>8. CASE U # {}
    <3>1. Cardinality(U) \notin Without
      <4>1. Cardinality(U) < n BY <2>3, <2>5, <2>6
      <4>2. <<Cardinality(U), n>> \in R BY <1>2, <2>6, <4>1
      <4> QED BY <2>2, <4>2
    <3>2. U \in SUBSET Nat OBVIOUS
    <3>3. HasMax(U) BY <2>5, <2>6, <2>8, <3>1, <3>2
    <3>4. PICK m \in U : \A y \in U : y <= m BY <3>3
    <3>5. m \in Nat /\ a \in Nat OBVIOUS
    <3>6. CASE m <= a BY <2>3, <2>4, <3>2, <3>4, <3>5, <3>6
    <3>7. CASE a < m BY <2>3, <2>4, <3>2, <3>4, <3>5, <3>7
    <3> QED BY <3>5, <3>6, <3>7
  <2> QED BY <2>7, <2>8
<1>4. Cardinality(S) \in Nat BY FS_CardinalityType
<1>5. HasMax(S) BY <1>3, <1>4
<1>6. PICK m \in S : \A y \in S : y <= m BY <1>5
<1>7. \E m2 \in S : \A y \in S : m2 >= y BY <1>6
<1>8. Server!Max(S) \in S /\ \A y \in S : Server!Max(S) >= y BY <1>7 DEF Server!Max
<1> QED BY <1>8

(* The end of all that is lit is beyond the end of each, and no further than  *)
(* it must be.                                                                *)
LEMMA EndsOf ==
    ASSUME NEW D, IsFiniteSet(D), NEW f \in [D -> Server!Placement]
    PROVE  /\ Server!Ends(f) \in Nat
           /\ \A c \in D : Server!End(f[c]) \in Nat /\ Server!End(f[c]) <= Server!Ends(f)
           /\ \A n \in Nat : (\A c \in D : Server!End(f[c]) <= n) => Server!Ends(f) <= n
<1>1. \A c \in D : Server!End(f[c]) \in Nat BY DEF Server!End, Server!Placement
<1> DEFINE T == {Server!End(f[c]) : c \in D}
           S == {0} \cup T
           g == [c \in D |-> Server!End(f[c])]
<1>2. IsFiniteSet(T)
  <2>1. g \in Surjection(D, T) BY DEF Surjection
  <2> QED BY <2>1, FS_Surjection
<1>3. IsFiniteSet(S)
  <2>1. IsFiniteSet(T \cup {0}) BY <1>2, FS_AddElement
  <2>2. S = T \cup {0} OBVIOUS
  <2> QED BY <2>1, <2>2
<1>4. S \subseteq Nat BY <1>1
<1>5. Server!Ends(f) = Server!Max(S)
  <2>1. DOMAIN f = D OBVIOUS
  <2>2. {Server!End(f[c]) : c \in DOMAIN f} = T BY <2>1
  <2>3. Server!Ends(f) = Server!Max({0} \cup {Server!End(f[c]) : c \in DOMAIN f}) BY DEF Server!Ends
  <2> HIDE DEF T
  <2> QED BY <2>2, <2>3
<1>6. \A c \in D : Server!End(f[c]) \in S OBVIOUS
<1>7. \A y \in S : y = 0 \/ \E c \in D : y = Server!End(f[c]) OBVIOUS
<1>8. 0 \in S OBVIOUS
<1> HIDE DEF S
<1>9. Server!Max(S) \in S /\ \A y \in S : y <= Server!Max(S) BY <1>3, <1>4, <1>8, GreatestOf
<1>10. Server!Ends(f) \in S /\ \A y \in S : y <= Server!Ends(f) BY <1>5, <1>9
<1>11. \A c \in D : Server!End(f[c]) <= Server!Ends(f) BY <1>6, <1>10
<1>12. ASSUME NEW n \in Nat, \A c \in D : Server!End(f[c]) <= n PROVE Server!Ends(f) <= n
  <2>1. CASE Server!Ends(f) = 0 BY <2>1
  <2>2. ASSUME NEW c \in D, Server!Ends(f) = Server!End(f[c]) PROVE Server!Ends(f) <= n
    BY <1>12, <2>2
  <2> QED BY <1>7, <1>10, <2>1, <2>2
<1> QED BY <1>1, <1>4, <1>10, <1>11, <1>12

(* What the monitors are rebuilt from stays as it is.                         *)
Stays(u, v) ==
    /\ u.size = v.size /\ u.lit = v.lit /\ u.known = v.known /\ u.assigned = v.assigned
    /\ u.time = v.time /\ u.stamp = v.stamp /\ u.lastSet = v.lastSet /\ u.by = v.by
    /\ u.events = v.events /\ u.failed = v.failed /\ u.complained = v.complained
    /\ u.current = v.current /\ u.tiles = v.tiles

(* A World stays one when a field takes another value of its type.            *)
LEMMA WorldWith ==
    ASSUME NEW v \in Server!World
    PROVE  /\ \A y \in Nat : [v EXCEPT !.size = y] \in Server!World
           /\ \A y \in [Crtcs -> Server!Placement] : [v EXCEPT !.lit = y] \in Server!World
           /\ \A y \in 1 .. MaxTime : [v EXCEPT !.time = y] \in Server!World
           /\ \A y \in 1 .. MaxTime : [v EXCEPT !.stamp = y] \in Server!World
           /\ \A y \in 1 .. MaxTime : [v EXCEPT !.lastSet = y] \in Server!World
           /\ \A y \in 0 .. MaxTime : [v EXCEPT !.plugged = y] \in Server!World
           /\ \A y \in Nat : [v EXCEPT !.events = y] \in Server!World
           /\ \A y \in [Crtcs -> Server!Placement] : [v EXCEPT !.read = y] \in Server!World
           /\ \A y \in [Crtcs -> Server!Placement] : [v EXCEPT !.known = y] \in Server!World
           /\ \A y \in [Outputs -> Crtcs \cup {NoCrtc}] : [v EXCEPT !.assigned = y] \in Server!World
           /\ \A y \in Server!Configs \cup {Server!NoConfig} : [v EXCEPT !.current = y] \in Server!World
           /\ \A y \in SUBSET (Nat \X Nat) : [v EXCEPT !.layout = y] \in Server!World
           /\ \A y \in Scales \cup {Server!Auto} : [v EXCEPT !.scale = y] \in Server!World
           /\ \A y \in {"none", "listed", "old"} : [v EXCEPT !.held = y] \in Server!World
           /\ \A y \in Nat : [v EXCEPT !.atoms = y] \in Server!World
           /\ \A y \in {"manager", "client"} : [v EXCEPT !.by = y] \in Server!World
           /\ \A y \in BOOLEAN : [v EXCEPT !.mark = y] \in Server!World
           /\ \A y \in BOOLEAN : [v EXCEPT !.marked = y] \in Server!World
           /\ \A y \in BOOLEAN : [v EXCEPT !.tiles = y] \in Server!World
           /\ \A y \in BOOLEAN : [v EXCEPT !.listed = y] \in Server!World
           /\ \A y \in BOOLEAN : [v EXCEPT !.registered = y] \in Server!World
           /\ \A y \in BOOLEAN : [v EXCEPT !.failed = y] \in Server!World
           /\ \A y \in BOOLEAN : [v EXCEPT !.complained = y] \in Server!World
<1>1. \A y \in Nat : [v EXCEPT !.size = y] \in Server!World
  BY DEF Server!World
<1>2. \A y \in [Crtcs -> Server!Placement] : [v EXCEPT !.lit = y] \in Server!World
  BY DEF Server!World
<1>3. \A y \in 1 .. MaxTime : [v EXCEPT !.time = y] \in Server!World
  BY DEF Server!World
<1>4. \A y \in 1 .. MaxTime : [v EXCEPT !.stamp = y] \in Server!World
  BY DEF Server!World
<1>5. \A y \in 1 .. MaxTime : [v EXCEPT !.lastSet = y] \in Server!World
  BY DEF Server!World
<1>6. \A y \in 0 .. MaxTime : [v EXCEPT !.plugged = y] \in Server!World
  BY DEF Server!World
<1>7. \A y \in Nat : [v EXCEPT !.events = y] \in Server!World
  BY DEF Server!World
<1>8. \A y \in [Crtcs -> Server!Placement] : [v EXCEPT !.read = y] \in Server!World
  BY DEF Server!World
<1>9. \A y \in [Crtcs -> Server!Placement] : [v EXCEPT !.known = y] \in Server!World
  BY DEF Server!World
<1>10. \A y \in [Outputs -> Crtcs \cup {NoCrtc}] : [v EXCEPT !.assigned = y] \in Server!World
  BY DEF Server!World
<1>11. \A y \in Server!Configs \cup {Server!NoConfig} : [v EXCEPT !.current = y] \in Server!World
  BY DEF Server!World
<1>12. \A y \in SUBSET (Nat \X Nat) : [v EXCEPT !.layout = y] \in Server!World
  BY DEF Server!World
<1>13. \A y \in Scales \cup {Server!Auto} : [v EXCEPT !.scale = y] \in Server!World
  BY DEF Server!World
<1>14. \A y \in {"none", "listed", "old"} : [v EXCEPT !.held = y] \in Server!World
  BY DEF Server!World
<1>15. \A y \in Nat : [v EXCEPT !.atoms = y] \in Server!World
  BY DEF Server!World
<1>16. \A y \in {"manager", "client"} : [v EXCEPT !.by = y] \in Server!World
  BY DEF Server!World
<1>17. \A y \in BOOLEAN : [v EXCEPT !.mark = y] \in Server!World
  BY DEF Server!World
<1>18. \A y \in BOOLEAN : [v EXCEPT !.marked = y] \in Server!World
  BY DEF Server!World
<1>19. \A y \in BOOLEAN : [v EXCEPT !.tiles = y] \in Server!World
  BY DEF Server!World
<1>20. \A y \in BOOLEAN : [v EXCEPT !.listed = y] \in Server!World
  BY DEF Server!World
<1>21. \A y \in BOOLEAN : [v EXCEPT !.registered = y] \in Server!World
  BY DEF Server!World
<1>22. \A y \in BOOLEAN : [v EXCEPT !.failed = y] \in Server!World
  BY DEF Server!World
<1>23. \A y \in BOOLEAN : [v EXCEPT !.complained = y] \in Server!World
  BY DEF Server!World
<1> QED BY <1>1, <1>2, <1>3, <1>4, <1>5, <1>6, <1>7, <1>8, <1>9, <1>10, <1>11, <1>12, <1>13, <1>14, <1>15, <1>16, <1>17, <1>18, <1>19, <1>20, <1>21, <1>22, <1>23

(* A GfMonitorTiled goes.                                                     *)
LEMMA RemovedFrom ==
    ASSUME NEW v \in Server!World, v.atoms # 0, NEW u, u = Server!Removed(v)
    PROVE  /\ u \in Server!World /\ Stays(u, v)
           /\ u.atoms = v.atoms - 1 /\ (u.registered <=> v.registered /\ v.atoms > 1)
           /\ u.listed = v.listed /\ u.held = v.held
<1>1. PICK r \in BOOLEAN : r = (v.registered /\ v.atoms > 1) OBVIOUS
<1>2. v.atoms \in Nat BY DEF Server!World
<1>3. PICK n \in Nat : n = v.atoms - 1 BY <1>2
<1>4. u = [v EXCEPT !.atoms = n, !.registered = r] BY <1>1, <1>3 DEF Server!Removed
<1>5. u \in Server!World
  <2> DEFINE a == [v EXCEPT !.atoms = n]
  <2>1. a \in Server!World BY WorldWith
  <2> HIDE DEF a
  <2>2. [a EXCEPT !.registered = r] \in Server!World BY <2>1, WorldWith
  <2> QED BY <1>4, <2>2 DEF a
<1>6. Stays(u, v) /\ u.atoms = n /\ u.registered = r /\ u.listed = v.listed /\ u.held = v.held
  BY <1>4 DEF Server!World, Stays
<1> QED BY <1>1, <1>3, <1>5, <1>6

(* rebuild_monitors keeps count of the atoms: the tiled monitor of the list   *)
(* goes unless a logical monitor refers to it, and a new one is added.        *)
LEMMA RebuiltMonitors ==
    ASSUME NEW v \in Server!World, Server!Named(v), NEW u, u = Server!RebuildMonitors(v)
    PROVE  u \in Server!World /\ Server!Named(u) /\ Stays(u, v)
<1> DEFINE held == IF v.held = "listed" THEN "old" ELSE v.held
           gone == [v EXCEPT !.listed = FALSE, !.held = held]
           freed == IF v.listed /\ v.held # "listed" THEN Server!Removed(gone) ELSE gone
<1>1. /\ v.held \in {"none", "listed", "old"} /\ v.atoms \in Nat
      /\ v.listed \in BOOLEAN /\ v.registered \in BOOLEAN /\ v.tiles \in BOOLEAN
  BY DEF Server!World
<1>2. gone \in Server!World /\ Stays(gone, v) /\ gone.listed = FALSE
      /\ gone.held = held /\ gone.atoms = v.atoms /\ gone.registered = v.registered
  <2>1. PICK h \in {"none", "listed", "old"} : h = held BY <1>1
  <2>2. gone = [v EXCEPT !.listed = FALSE, !.held = h] BY <2>1
  <2> HIDE DEF gone, held
  <2>3. gone \in Server!World
    <3> DEFINE a == [v EXCEPT !.listed = FALSE]
    <3>1. a \in Server!World BY WorldWith
    <3> HIDE DEF a
    <3>2. [a EXCEPT !.held = h] \in Server!World BY <3>1, WorldWith
    <3> QED BY <2>2, <3>2 DEF a
  <2>4. /\ Stays(gone, v) /\ gone.listed = FALSE
        /\ gone.held = h /\ gone.atoms = v.atoms /\ gone.registered = v.registered
    BY <2>2 DEF Server!World, Stays
  <2> QED BY <2>1, <2>3, <2>4
<1>3. u = IF v.tiles THEN Server!Added(freed) ELSE freed
  BY DEF Server!RebuildMonitors
<1> HIDE DEF gone
<1>4. freed \in Server!World /\ Stays(freed, v) /\ Server!Named(freed) /\ freed.listed = FALSE
  <2>1. CASE v.listed /\ v.held # "listed"
    <3>1. freed = Server!Removed(gone) BY <2>1
    <3>2. gone.atoms # 0 /\ gone.held = v.held
      BY <1>1, <1>2, <2>1 DEF Server!Named
    <3>3. /\ freed \in Server!World /\ Stays(freed, gone)
          /\ freed.atoms = gone.atoms - 1 /\ (freed.registered <=> gone.registered /\ gone.atoms > 1)
          /\ freed.listed = gone.listed /\ freed.held = gone.held
      BY <1>2, <3>1, <3>2, RemovedFrom
    <3>4. v.atoms = 1 + (IF v.held = "old" THEN 1 ELSE 0) /\ (v.registered <=> v.atoms > 0)
      BY <2>1 DEF Server!Named
    <3>5. Server!Named(freed)
      <4>1. CASE v.held = "old" BY <1>1, <1>2, <3>2, <3>3, <3>4, <4>1 DEF Server!Named
      <4>2. CASE v.held = "none" BY <1>1, <1>2, <3>2, <3>3, <3>4, <4>2 DEF Server!Named
      <4> QED BY <1>1, <2>1, <4>1, <4>2
    <3> QED BY <1>2, <3>3, <3>5 DEF Stays
  <2>2. CASE ~(v.listed /\ v.held # "listed")
    <3>1. freed = gone BY <2>2
    <3>2. Server!Named(gone) BY <1>1, <1>2, <2>2 DEF Server!Named
    <3> QED BY <1>2, <3>1, <3>2
  <2> QED BY <2>1, <2>2
<1> HIDE DEF freed
<1>5. CASE v.tiles
  <2>1. u = [freed EXCEPT !.atoms = freed.atoms + 1, !.registered = TRUE, !.listed = TRUE]
    BY <1>3, <1>5 DEF Server!Added
  <2>2. freed.atoms \in Nat /\ freed.held \in {"none", "listed", "old"} BY <1>4 DEF Server!World
  <2>3. u \in Server!World /\ Stays(u, freed)
    <3>1. PICK n \in Nat : n = freed.atoms + 1 BY <2>2
    <3>2. PICK t \in BOOLEAN : t = TRUE OBVIOUS
    <3>3. u = [freed EXCEPT !.atoms = n, !.registered = t, !.listed = t] BY <2>1, <3>1, <3>2
    <3>4. u \in Server!World
      <4> DEFINE a == [freed EXCEPT !.atoms = n]  b == [a EXCEPT !.registered = t]
      <4>1. a \in Server!World BY <1>4, WorldWith
      <4> HIDE DEF a
      <4>2. b \in Server!World BY <4>1, WorldWith
      <4> HIDE DEF b
      <4>3. [b EXCEPT !.listed = t] \in Server!World BY <4>2, WorldWith
      <4> QED BY <3>3, <4>3 DEF a, b
    <3> QED BY <1>4, <3>3, <3>4 DEF Server!World, Stays
  <2>4. u.atoms = freed.atoms + 1 /\ u.registered = TRUE /\ u.listed = TRUE /\ u.held = freed.held
    BY <1>4, <2>1 DEF Server!World
  <2>5. Server!Named(u) BY <1>4, <2>2, <2>4 DEF Server!Named
  <2> QED BY <1>4, <2>3, <2>5 DEF Stays
<1>6. CASE ~v.tiles BY <1>3, <1>4, <1>6
<1> QED BY <1>5, <1>6

(* gf_monitor_manager_rebuild_derived frees the old logical monitors, and     *)
(* with them the tiled monitor that only they referred to.                    *)
LEMMA RebuiltDerived ==
    ASSUME NEW v \in Server!World, Server!Named(v),
           NEW config \in Server!Configs \cup {Server!NoConfig},
           NEW u, u = Server!RebuildDerived(v, config)
    PROVE  /\ u \in Server!World /\ Server!Named(u) /\ Stays(u, v)
           /\ u.scale = config.scale
<1> DEFINE freed == IF v.held = "old" THEN Server!Removed(v) ELSE v
           layout == {<<v.known[c].x, v.known[c].width>> : c \in Server!Lit(v.known)}
           held == IF v.listed /\ Server!Lit(v.known) # {} THEN "listed" ELSE "none"
<1>1. /\ v.held \in {"none", "listed", "old"} /\ v.atoms \in Nat
      /\ v.listed \in BOOLEAN /\ v.registered \in BOOLEAN /\ v.known \in [Crtcs -> Server!Placement]
  BY DEF Server!World
<1>2. freed \in Server!World /\ Stays(freed, v) /\ freed.listed = v.listed
      /\ freed.atoms = (IF v.listed THEN 1 ELSE 0) /\ (freed.registered <=> v.listed)
  <2>1. CASE v.held = "old"
    <3>1. freed = Server!Removed(v) /\ v.atoms # 0 BY <1>1, <2>1 DEF Server!Named
    <3>2. /\ freed \in Server!World /\ Stays(freed, v)
          /\ freed.atoms = v.atoms - 1 /\ (freed.registered <=> v.registered /\ v.atoms > 1)
          /\ freed.listed = v.listed
      BY <3>1, RemovedFrom
    <3> QED BY <1>1, <2>1, <3>2 DEF Server!Named
  <2>2. CASE v.held # "old"
    <3>1. freed = v BY <2>2
    <3>2. v.atoms = (IF v.listed THEN 1 ELSE 0) /\ (v.registered <=> v.listed)
      BY <1>1, <2>2 DEF Server!Named
    <3> QED BY <3>1, <3>2 DEF Stays
  <2> QED BY <2>1, <2>2
<1>3. u = [freed EXCEPT !.layout = layout, !.scale = config.scale, !.held = held]
  BY DEF Server!RebuildDerived
<1>4. layout \subseteq Nat \X Nat
  <2>1. \A c \in Server!Lit(v.known) : v.known[c] \in Server!Placement BY <1>1 DEF Server!Lit
  <2>2. \A c \in Server!Lit(v.known) : <<v.known[c].x, v.known[c].width>> \in Nat \X Nat
    BY <2>1 DEF Server!Placement
  <2> QED BY <2>2
<1>5. config.scale \in Scales \cup {Server!Auto} BY DEF Server!Configs, Server!NoConfig
<1>6. held \in {"none", "listed", "old"} /\ (held = "listed" => v.listed) /\ held # "old" OBVIOUS
<1> HIDE DEF freed, layout, held
<1>7. u \in Server!World /\ Stays(u, freed)
  <2>1. PICK l \in SUBSET (Nat \X Nat) : l = layout BY <1>4
  <2>2. PICK s \in Scales \cup {Server!Auto} : s = config.scale BY <1>5
  <2>3. PICK h \in {"none", "listed", "old"} : h = held BY <1>6
  <2>4. u = [freed EXCEPT !.layout = l, !.scale = s, !.held = h] BY <1>3, <2>1, <2>2, <2>3
  <2> DEFINE a == [freed EXCEPT !.layout = l]  b == [a EXCEPT !.scale = s]
  <2>5. a \in Server!World BY <1>2, WorldWith
  <2> HIDE DEF a
  <2>6. b \in Server!World BY <2>5, WorldWith
  <2> HIDE DEF b
  <2>7. u \in Server!World
    <3>1. [b EXCEPT !.held = h] \in Server!World BY <2>6, WorldWith
    <3> QED BY <2>4, <3>1 DEF a, b
  <2> QED BY <1>2, <2>4, <2>7 DEF Server!World, Stays
<1>8. /\ u.scale = config.scale /\ u.held = held /\ u.atoms = freed.atoms
      /\ u.listed = freed.listed /\ u.registered = freed.registered
  BY <1>2, <1>3 DEF Server!World
<1>9. Server!Named(u) BY <1>1, <1>2, <1>6, <1>8 DEF Server!Named
<1> QED BY <1>2, <1>7, <1>8, <1>9 DEF Stays

(* A configuration places CRTCs of the server.                                *)
LEMMA ConfigTypes ==
    ASSUME NEW config \in Server!Configs \cup {Server!NoConfig}, NEW D, D = DOMAIN config.crtcs
    PROVE  /\ D \subseteq Crtcs /\ IsFiniteSet(D) /\ config.crtcs \in [D -> Server!Placement]
           /\ config.mark \in BOOLEAN
<1>1. CASE config \in Server!Configs
  <2>1. config.crtcs \in Layouts /\ config.mark \in BOOLEAN BY <1>1 DEF Server!Configs
  <2>2. D \subseteq Crtcs /\ config.crtcs \in [D -> Server!Placement] BY <2>1, ServerAssumption
  <2> QED BY <2>1, <2>2, ServerAssumption, FS_Subset
<1>2. CASE config = Server!NoConfig
  <2>1. config.crtcs = <<>> /\ config.mark = FALSE BY <1>2 DEF Server!NoConfig
  <2>2. D = {} BY <2>1
  <2>3. <<>> \in [{} -> Server!Placement] OBVIOUS
  <2> QED BY <2>1, <2>2, <2>3, FS_EmptySet
<1> QED BY <1>1, <1>2

(* The outputs are driven by CRTCs of the server.                             *)
LEMMA DriversType ==
    ASSUME NEW D \in SUBSET Crtcs, NEW f \in [D -> Server!Placement]
    PROVE  Server!Drivers(f) \in [Outputs -> Crtcs \cup {NoCrtc}]
<1>1. ASSUME NEW o \in Outputs PROVE Server!Driver(f, o) \in Crtcs \cup {NoCrtc}
  <2> DEFINE cs == {c \in DOMAIN f : o \in f[c].outputs}
  <2>1. cs \subseteq Crtcs OBVIOUS
  <2>2. Server!Driver(f, o) = IF cs = {} THEN NoCrtc ELSE CHOOSE c \in cs : TRUE BY DEF Server!Driver
  <2> HIDE DEF cs
  <2>3. cs # {} => (CHOOSE c \in cs : TRUE) \in cs OBVIOUS
  <2> QED BY <2>1, <2>2, <2>3
<1> QED BY <1>1 DEF Server!Drivers

(* The X server takes the outputs that are asked for from the other CRTCs.    *)
LEMMA SetByServer ==
    ASSUME NEW lit \in [Crtcs -> Server!Placement], NEW D \in SUBSET Crtcs,
           NEW crtcs \in [D -> Server!Placement], NEW on \in SUBSET D, NEW n \in Nat,
           \A c \in Crtcs : Server!End(lit[c]) <= n, \A c \in on : Server!End(crtcs[c]) <= n,
           NEW r, r = Server!Set(lit, crtcs, on)
    PROVE  /\ r \in [Crtcs -> Server!Placement]
           /\ \A c \in Crtcs : Server!End(r[c]) <= n
           /\ \A c \in on : r[c] = crtcs[c]
           /\ \A c \in Crtcs : c \notin on /\ lit[c] = Server!Off => r[c] = Server!Off
<1> DEFINE left(c) == lit[c].outputs \ UNION {crtcs[d].outputs : d \in on}
           at(c) == IF c \in on THEN crtcs[c]
                    ELSE IF left(c) = {} THEN Server!Off ELSE [lit[c] EXCEPT !.outputs = left(c)]
<1>1. r = [c \in Crtcs |-> at(c)] BY DEF Server!Set
<1>2. Server!Off \in Server!Placement /\ Server!End(Server!Off) = 0 /\ Server!Off.outputs = {}
  BY DEF Server!Off, Server!Placement, Server!End
<1>3. ASSUME NEW c \in Crtcs PROVE at(c) \in Server!Placement /\ Server!End(at(c)) <= n
  <2>1. CASE c \in on BY <2>1
  <2>2. CASE c \notin on /\ left(c) = {} BY <1>2, <2>2
  <2>3. CASE c \notin on /\ left(c) # {}
    <3> DEFINE l == left(c)
    <3>1. l \subseteq lit[c].outputs OBVIOUS
    <3>2. at(c) = [lit[c] EXCEPT !.outputs = l] BY <2>3
    <3>3. lit[c] \in Server!Placement OBVIOUS
    <3> HIDE DEF l, at
    <3>4. at(c) \in Server!Placement /\ at(c).x = lit[c].x /\ at(c).width = lit[c].width
      BY <3>1, <3>2, <3>3 DEF Server!Placement
    <3> QED BY <3>4 DEF Server!End
  <2> QED BY <2>1, <2>2, <2>3
<1>4. ASSUME NEW c \in Crtcs, c \notin on, lit[c] = Server!Off PROVE at(c) = Server!Off
  <2>1. left(c) = {} BY <1>2, <1>4
  <2> QED BY <1>4, <2>1
<1>5. \A c \in on : at(c) = crtcs[c] OBVIOUS
<1> HIDE DEF at
<1>6. r \in [Crtcs -> Server!Placement] /\ \A c \in Crtcs : r[c] = at(c) BY <1>1, <1>3
<1>7. \A c \in Crtcs : c \notin on /\ lit[c] = Server!Off => r[c] = Server!Off BY <1>4, <1>6
<1> QED BY <1>3, <1>5, <1>6, <1>7

(* What is read from the server is known.                                     *)
LEMMA ReadIsKnown ==
    ASSUME NEW v \in Server!World, Server!Ends(v.lit) <= v.size, Server!Timed(v), Server!Named(v),
           ~v.complained, NEW u, u = Server!ReadCurrentState(v)
    PROVE  /\ Server!Good(u)
           /\ u.time = v.time /\ u.current = v.current /\ u.by = v.by
           /\ u.stamp = v.stamp /\ u.lastSet = v.lastSet
<1>1. v.lit \in [Crtcs -> Server!Placement] /\ v.mark \in BOOLEAN BY DEF Server!World
<1>2. PICK d \in [Outputs -> Crtcs \cup {NoCrtc}] : d = Server!Drivers(v.lit) BY <1>1, DriversType
<1> DEFINE a == [v EXCEPT !.read = v.lit]  b == [a EXCEPT !.known = v.lit]
           c == [b EXCEPT !.assigned = d]  e == [c EXCEPT !.marked = v.mark]
           f == [e EXCEPT !.failed = FALSE]
<1>3. f \in Server!World
  <2>1. a \in Server!World BY <1>1, WorldWith
  <2> HIDE DEF a
  <2>2. b \in Server!World BY <1>1, <2>1, WorldWith
  <2> HIDE DEF b
  <2>3. c \in Server!World BY <2>2, WorldWith
  <2> HIDE DEF c
  <2>4. e \in Server!World BY <1>1, <2>3, WorldWith
  <2> HIDE DEF e
  <2> QED BY <2>4, WorldWith
<1>4. /\ f.size = v.size /\ f.lit = v.lit /\ f.known = v.lit /\ f.assigned = Server!Drivers(v.lit)
      /\ f.time = v.time /\ f.stamp = v.stamp /\ f.lastSet = v.lastSet /\ f.by = v.by
      /\ f.complained = v.complained /\ f.current = v.current
      /\ f.listed = v.listed /\ f.held = v.held /\ f.atoms = v.atoms /\ f.registered = v.registered
  BY <1>2 DEF Server!World
<1>5. u = Server!RebuildMonitors(f) BY <1>2 DEF Server!ReadCurrentState
<1> HIDE DEF f
<1>6. u \in Server!World /\ Server!Named(u) /\ Stays(u, f)
  <2>1. Server!Named(f) BY <1>4 DEF Server!Named
  <2> QED BY <1>3, <1>5, <2>1, RebuiltMonitors
<1>7. Server!Typed(u) BY <1>4, <1>6 DEF Server!Typed, Stays
<1>8. Server!Synced(u) BY <1>4, <1>6 DEF Server!Synced, Stays
<1>9. Server!Timed(u) BY <1>4, <1>6 DEF Server!Timed, Stays
<1> QED BY <1>4, <1>6, <1>7, <1>8, <1>9 DEF Server!Good, Server!Free, Stays

(* The monitors that are derived change nothing that is good.                 *)
LEMMA DerivedIsGood ==
    ASSUME NEW v, Server!Good(v), NEW config \in Server!Configs \cup {Server!NoConfig},
           NEW u, u = Server!RebuildDerived(v, config)
    PROVE  /\ Server!Good(u) /\ u.scale = config.scale
           /\ u.time = v.time /\ u.current = v.current /\ u.by = v.by
           /\ u.stamp = v.stamp /\ u.lastSet = v.lastSet
<1>1. /\ v \in Server!World /\ Server!Ends(v.lit) <= v.size /\ Server!Named(v) /\ Server!Synced(v)
      /\ Server!Timed(v) /\ ~v.complained
  BY DEF Server!Good, Server!Free, Server!Typed
<1>2. u \in Server!World /\ Server!Named(u) /\ Stays(u, v) /\ u.scale = config.scale
  BY <1>1, RebuiltDerived
<1>3. Server!Typed(u) BY <1>1, <1>2 DEF Server!Typed, Stays
<1>4. Server!Synced(u) BY <1>1, <1>2 DEF Server!Synced, Stays
<1>5. Server!Timed(u) BY <1>1, <1>2 DEF Server!Timed, Stays
<1> QED BY <1>1, <1>2, <1>3, <1>4, <1>5 DEF Server!Good, Server!Free, Stays


(* The values that apply_crtc_assignments computes on its way: what is lit    *)
(* once CRTCs are turned off, the size of the screen, the CRTCs that are lit  *)
(* and what is lit in the end.                                                *)
LitLeft(v, crtcs, refused) ==
    [c \in Crtcs |-> IF c \in Server!TurnedOff(v, crtcs) \ refused THEN Server!Off ELSE v.lit[c]]
Fits(v, crtcs, refused) ==
    crtcs # <<>> /\ Server!Ends(LitLeft(v, crtcs, refused)) <= Server!Ends(crtcs)
SizeThen(v, crtcs, refused) == IF Fits(v, crtcs, refused) THEN Server!Ends(crtcs) ELSE v.size
TurnedOn(v, crtcs, refused) ==
    {c \in DOMAIN crtcs \ refused : Server!End(crtcs[c]) <= SizeThen(v, crtcs, refused)}
LitThen(v, crtcs, refused) == Server!Set(LitLeft(v, crtcs, refused), crtcs, TurnedOn(v, crtcs, refused))

LitAsAsked(v, crtcs, refused) ==
    /\ \A c \in TurnedOn(v, crtcs, refused) : LitThen(v, crtcs, refused)[c] = crtcs[c]
    /\ \A c \in Crtcs : c \notin TurnedOn(v, crtcs, refused) /\ LitLeft(v, crtcs, refused)[c] = Server!Off
                      => LitThen(v, crtcs, refused)[c] = Server!Off

(* apply_crtc_assignments: nothing that is left lit is in the way of the new  *)
(* size when the CRTCs are known and no request is refused; what is lit then  *)
(* is on the screen.                                                          *)
LEMMA ScreenGetsItsSize ==
    ASSUME NEW v, Server!Good(v), NEW config \in Server!Configs \cup {Server!NoConfig}, NEW refused
    PROVE  /\ SizeThen(v, config.crtcs, refused) \in Nat
           /\ LitLeft(v, config.crtcs, refused) \in [Crtcs -> Server!Placement]
           /\ LitThen(v, config.crtcs, refused) \in [Crtcs -> Server!Placement]
           /\ Server!Ends(LitThen(v, config.crtcs, refused)) <= SizeThen(v, config.crtcs, refused)
           /\ LitAsAsked(v, config.crtcs, refused)
           /\ v.known = v.lit /\ refused = {} /\ config.crtcs # <<>> => Fits(v, config.crtcs, refused)
<1> DEFINE crtcs == config.crtcs
           off == Server!TurnedOff(v, crtcs)
           lit1 == LitLeft(v, crtcs, refused)
           fits == Fits(v, crtcs, refused)
           size1 == SizeThen(v, crtcs, refused)
           on == TurnedOn(v, crtcs, refused)
           lit2 == LitThen(v, crtcs, refused)
<1>0. /\ crtcs = config.crtcs /\ off = Server!TurnedOff(v, crtcs)
      /\ lit1 = [c \in Crtcs |-> IF c \in off \ refused THEN Server!Off ELSE v.lit[c]]
      /\ fits = (crtcs # <<>> /\ Server!Ends(lit1) <= Server!Ends(crtcs))
      /\ size1 = IF fits THEN Server!Ends(crtcs) ELSE v.size
      /\ on = {c \in DOMAIN crtcs \ refused : Server!End(crtcs[c]) <= size1}
      /\ lit2 = Server!Set(lit1, crtcs, on)
  BY DEF LitLeft, Fits, SizeThen, TurnedOn, LitThen
<1> HIDE DEF crtcs, off, lit1, fits, size1, on, lit2
<1> USE <1>0
<1>1. /\ v \in Server!World /\ Server!Ends(v.lit) <= v.size BY DEF Server!Good, Server!Free, Server!Typed
<1>2. /\ v.lit \in [Crtcs -> Server!Placement] /\ v.known \in [Crtcs -> Server!Placement]
      /\ v.size \in Nat
  BY <1>1 DEF Server!World
<1>3. PICK D \in SUBSET Crtcs : D = DOMAIN crtcs /\ IsFiniteSet(D) /\ crtcs \in [D -> Server!Placement]
  BY ConfigTypes
<1>4. IsFiniteSet(Crtcs) BY ServerAssumption
<1>5. Server!Off \in Server!Placement /\ Server!End(Server!Off) = 0
  BY DEF Server!Off, Server!Placement, Server!End
<1>6. lit1 \in [Crtcs -> Server!Placement]
      /\ \A c \in Crtcs : lit1[c] = IF c \in off \ refused THEN Server!Off ELSE v.lit[c]
  BY <1>2, <1>5
<1>7. /\ Server!Ends(lit1) \in Nat
      /\ \A c \in Crtcs : Server!End(lit1[c]) \in Nat /\ Server!End(lit1[c]) <= Server!Ends(lit1)
      /\ \A n \in Nat : (\A c \in Crtcs : Server!End(lit1[c]) <= n) => Server!Ends(lit1) <= n
  BY <1>4, <1>6, EndsOf
<1>8. /\ Server!Ends(crtcs) \in Nat
      /\ \A c \in D : Server!End(crtcs[c]) \in Nat /\ Server!End(crtcs[c]) <= Server!Ends(crtcs)
  BY <1>3, EndsOf
<1>9. /\ Server!Ends(v.lit) \in Nat
      /\ \A c \in Crtcs : Server!End(v.lit[c]) \in Nat /\ Server!End(v.lit[c]) <= Server!Ends(v.lit)
  BY <1>2, <1>4, EndsOf
<1>10. \A c \in Crtcs : Server!End(lit1[c]) <= v.size
  <2> SUFFICES ASSUME NEW c \in Crtcs PROVE Server!End(lit1[c]) <= v.size OBVIOUS
  <2>1. CASE c \in off \ refused BY <1>2, <1>5, <1>6, <2>1
  <2>2. CASE c \notin off \ refused
    <3>1. lit1[c] = v.lit[c] BY <1>6, <2>2
    <3> QED BY <1>1, <1>2, <1>9, <3>1
  <2> QED BY <2>1, <2>2
<1>11. size1 \in Nat /\ \A c \in Crtcs : Server!End(lit1[c]) <= size1
  <2>1. CASE fits
    <3>1. size1 = Server!Ends(crtcs) /\ Server!Ends(lit1) <= Server!Ends(crtcs) BY <2>1
    <3> QED BY <1>7, <1>8, <3>1
  <2>2. CASE ~fits BY <1>2, <1>10, <2>2
  <2> QED BY <2>1, <2>2
<1>12. on \in SUBSET D /\ \A c \in on : Server!End(crtcs[c]) <= size1 BY <1>3
<1>13. /\ lit2 \in [Crtcs -> Server!Placement]
       /\ \A c \in Crtcs : Server!End(lit2[c]) <= size1
       /\ \A c \in on : lit2[c] = crtcs[c]
       /\ \A c \in Crtcs : c \notin on /\ lit1[c] = Server!Off => lit2[c] = Server!Off
  <2>1. lit2 = Server!Set(lit1, crtcs, on) BY <1>0
  <2> QED BY ONLY <1>3, <1>6, <1>11, <1>12, <2>1, SetByServer
<1>14. Server!Ends(lit2) <= size1 BY ONLY <1>4, <1>11, <1>13, EndsOf
<1>15. ASSUME v.known = v.lit, refused = {}, crtcs # <<>> PROVE fits
  <2>1. ASSUME NEW c \in Crtcs PROVE Server!End(lit1[c]) <= Server!Ends(crtcs)
    <3>1. CASE c \in off
      <4>1. lit1[c] = Server!Off BY <1>6, <1>15, <3>1
      <4> QED BY <1>5, <1>8, <4>1
    <3>2. CASE c \notin off /\ c \notin Server!Lit(v.known)
      <4>1. v.known[c] = Server!Off BY <1>2, <3>2 DEF Server!Lit
      <4>2. lit1[c] = Server!Off BY <1>6, <1>15, <3>2, <4>1
      <4> QED BY <1>5, <1>8, <4>2
    <3>3. CASE c \notin off /\ c \in Server!Lit(v.known)
      <4>1. ~(Server!End(v.known[c]) > Server!Ends(crtcs)) BY <3>3 DEF Server!TurnedOff
      <4>2. lit1[c] = v.known[c] BY <1>6, <1>15, <3>3
      <4> QED BY <1>7, <1>8, <4>1, <4>2
    <3> QED BY <3>1, <3>2, <3>3
  <2>2. Server!Ends(lit1) <= Server!Ends(crtcs) BY <1>7, <1>8, <2>1
  <2> QED BY <1>15, <2>2
<1>16. LitAsAsked(v, crtcs, refused) BY <1>13 DEF LitAsAsked, lit1, on, lit2
<1> QED BY <1>6, <1>11, <1>13, <1>14, <1>15, <1>16 DEF crtcs, off, lit1, fits, size1, on, lit2

(* apply_crtc_assignments keeps all that is good, whatever is refused.        *)
LEMMA AppliedIsGood ==
    ASSUME NEW v, Server!Good(v), v.time < MaxTime, NEW config \in Server!Configs \cup {Server!NoConfig},
           NEW refused, NEW u, u = Server!ApplyCrtcAssignments(v, config, refused)
    PROVE  Server!Good(u) /\ u.current = v.current
<1>1. /\ v \in Server!World /\ Server!Ends(v.lit) <= v.size /\ Server!Named(v) /\ Server!Synced(v)
      /\ Server!Timed(v) /\ ~v.complained
  BY DEF Server!Good, Server!Free, Server!Typed
<1>2. /\ v.lit \in [Crtcs -> Server!Placement] /\ v.known \in [Crtcs -> Server!Placement]
      /\ v.size \in Nat /\ v.time \in 1 .. MaxTime /\ v.stamp \in 1 .. MaxTime
      /\ v.lastSet \in 1 .. MaxTime /\ v.by \in {"manager", "client"} /\ v.events \in Nat
      /\ v.assigned \in [Outputs -> Crtcs \cup {NoCrtc}] /\ v.mark \in BOOLEAN /\ v.marked \in BOOLEAN
      /\ v.failed \in BOOLEAN
  BY <1>1 DEF Server!World
<1> DEFINE crtcs == config.crtcs
           off == Server!TurnedOff(v, crtcs)
           lit1 == LitLeft(v, crtcs, refused)
           fits == Fits(v, crtcs, refused)
           size1 == SizeThen(v, crtcs, refused)
           on == TurnedOn(v, crtcs, refused)
           lit2 == LitThen(v, crtcs, refused)
           now == v.time + 1
           done == (off \ refused) \cup on # {}
           saved == Server!Saved(off \ refused, on)
           known2 == [c \in Crtcs |-> IF c \in on THEN crtcs[c] ELSE IF c \in off THEN Server!Off ELSE v.known[c]]
           stamp2 == IF done THEN now ELSE v.stamp
           by2 == IF done THEN "manager" ELSE v.by
           lastSet2 == IF saved THEN now ELSE v.lastSet
           events2 == v.events + (IF lit2 # v.lit \/ size1 # v.size THEN 1 ELSE 0)
           d == IF crtcs = <<>> THEN v.assigned ELSE Server!Drivers(crtcs)
           mark2 == IF crtcs = <<>> THEN v.mark ELSE config.mark
           marked2 == IF crtcs = <<>> THEN v.marked ELSE config.mark
           failed2 == v.failed \/ (off \cap refused # {} \/ on # DOMAIN crtcs)
           complained2 == v.complained \/ (crtcs # <<>> /\ ~fits /\ v.known = v.lit /\ refused = {})
<1>3. u = [v EXCEPT
              !.size = size1, !.lit = lit2, !.time = now, !.stamp = stamp2, !.by = by2,
              !.lastSet = lastSet2, !.events = events2, !.known = known2, !.assigned = d,
              !.mark = mark2, !.marked = marked2, !.failed = failed2, !.complained = complained2]
  BY DEF Server!ApplyCrtcAssignments, LitLeft, Fits, SizeThen, TurnedOn, LitThen
<1>4. PICK D \in SUBSET Crtcs : /\ D = DOMAIN crtcs /\ IsFiniteSet(D) /\ crtcs \in [D -> Server!Placement]
                                /\ config.mark \in BOOLEAN
  BY ConfigTypes
<1>5. /\ size1 \in Nat /\ lit1 \in [Crtcs -> Server!Placement]
      /\ lit2 \in [Crtcs -> Server!Placement] /\ Server!Ends(lit2) <= size1
      /\ \A c \in on : lit2[c] = crtcs[c]
      /\ \A c \in Crtcs : c \notin on /\ lit1[c] = Server!Off => lit2[c] = Server!Off
      /\ v.known = v.lit /\ refused = {} /\ crtcs # <<>> => fits
  <2>1. Server!Good(v) /\ config \in Server!Configs \cup {Server!NoConfig} OBVIOUS
  <2> HIDE DEF crtcs
  <2>2. size1 \in Nat BY <2>1, ScreenGetsItsSize DEF crtcs
  <2>3. lit1 \in [Crtcs -> Server!Placement] BY ONLY <2>1, ScreenGetsItsSize DEF crtcs
  <2>4. lit2 \in [Crtcs -> Server!Placement] BY ONLY <2>1, ScreenGetsItsSize DEF crtcs
  <2>5. LitAsAsked(v, crtcs, refused) BY ONLY <2>1, ScreenGetsItsSize DEF crtcs
  <2>6. /\ \A c \in on : lit2[c] = crtcs[c]
        /\ \A c \in Crtcs : c \notin on /\ lit1[c] = Server!Off => lit2[c] = Server!Off
    BY <2>5 DEF LitAsAsked
  <2>7. v.known = v.lit /\ refused = {} /\ crtcs # <<>> => fits BY ONLY <2>1, ScreenGetsItsSize DEF crtcs
  <2>8. Server!Ends(lit2) <= size1 BY ONLY <2>1, ScreenGetsItsSize DEF crtcs
  <2> QED BY <2>2, <2>3, <2>4, <2>6, <2>7, <2>8
<1>6. on \subseteq D BY <1>4 DEF TurnedOn
<1>7. known2 \in [Crtcs -> Server!Placement]
      /\ \A c \in Crtcs : known2[c] = IF c \in on THEN crtcs[c] ELSE IF c \in off THEN Server!Off ELSE v.known[c]
  <2>1. Server!Off \in Server!Placement BY DEF Server!Off, Server!Placement
  <2> HIDE DEF on, off, crtcs
  <2> QED BY <1>2, <1>4, <1>6, <2>1
<1>8. saved <=> done BY DEF Server!Saved
<1>9. \A c \in Crtcs : lit1[c] = IF c \in off \ refused THEN Server!Off ELSE v.lit[c] BY DEF LitLeft
<1>10. now \in 1 .. MaxTime /\ now = v.time + 1 BY <1>2, ServerAssumption
<1>11. /\ stamp2 \in 1 .. MaxTime /\ lastSet2 \in 1 .. MaxTime /\ by2 \in {"manager", "client"}
       /\ stamp2 <= now /\ lastSet2 <= now /\ (by2 = "manager" <=> stamp2 = lastSet2)
  <2> HIDE DEF now, done, saved
  <2>1. v.stamp <= v.time /\ v.lastSet <= v.time /\ (v.by = "manager" <=> v.stamp = v.lastSet)
    BY <1>1 DEF Server!Timed
  <2>2. CASE done BY <1>2, <1>8, <1>10, <2>2
  <2>3. CASE ~done BY <1>2, <1>8, <1>10, <2>1, <2>3
  <2> QED BY <2>2, <2>3
<1>12. events2 \in Nat /\ (events2 = 0 => v.events = 0 /\ lit2 = v.lit /\ size1 = v.size)
  <2> HIDE DEF lit2, size1
  <2> QED BY <1>2
<1>13. d \in [Outputs -> Crtcs \cup {NoCrtc}]
  <2>1. Server!Drivers(crtcs) \in [Outputs -> Crtcs \cup {NoCrtc}] BY <1>4, DriversType
  <2> HIDE DEF crtcs
  <2> QED BY <1>2, <2>1
<1>14. /\ mark2 \in BOOLEAN /\ marked2 \in BOOLEAN
  BY <1>2, <1>4
<1>15. failed2 \in BOOLEAN /\ complained2 \in BOOLEAN OBVIOUS
<1>16. ~complained2 BY <1>1, <1>5
<1>17. ~failed2 => ~v.failed /\ off \cap refused = {} /\ on = D BY <1>4
<1>18. \A c \in Crtcs \ D : c \in off \/ v.known[c] = Server!Off
  BY <1>2, <1>4 DEF Server!TurnedOff, Server!Lit
<1>19. d = IF crtcs = <<>> THEN v.assigned ELSE Server!Drivers(crtcs) OBVIOUS
<1> HIDE DEF off, lit1, fits, size1, on, lit2, now, done, saved, known2, stamp2, by2, lastSet2, events2,
             d, mark2, marked2, failed2, complained2
<1>20. u \in Server!World
  <2> DEFINE a1 == [v EXCEPT !.size = size1]      a2 == [a1 EXCEPT !.lit = lit2]
             a3 == [a2 EXCEPT !.time = now]       a4 == [a3 EXCEPT !.stamp = stamp2]
             a5 == [a4 EXCEPT !.by = by2]         a6 == [a5 EXCEPT !.lastSet = lastSet2]
             a7 == [a6 EXCEPT !.events = events2] a8 == [a7 EXCEPT !.known = known2]
             a9 == [a8 EXCEPT !.assigned = d]     a10 == [a9 EXCEPT !.mark = mark2]
             a11 == [a10 EXCEPT !.marked = marked2]
             a12 == [a11 EXCEPT !.failed = failed2]
             a13 == [a12 EXCEPT !.complained = complained2]
  <2>1. a1 \in Server!World BY <1>1, <1>5, WorldWith
  <2> HIDE DEF a1
  <2>2. a2 \in Server!World BY <1>5, <2>1, WorldWith
  <2> HIDE DEF a2
  <2>3. a3 \in Server!World BY <1>10, <2>2, WorldWith
  <2> HIDE DEF a3
  <2>4. a4 \in Server!World BY <1>11, <2>3, WorldWith
  <2> HIDE DEF a4
  <2>5. a5 \in Server!World BY <1>11, <2>4, WorldWith
  <2> HIDE DEF a5
  <2>6. a6 \in Server!World BY <1>11, <2>5, WorldWith
  <2> HIDE DEF a6
  <2>7. a7 \in Server!World BY <1>12, <2>6, WorldWith
  <2> HIDE DEF a7
  <2>8. a8 \in Server!World BY <1>7, <2>7, WorldWith
  <2> HIDE DEF a8
  <2>9. a9 \in Server!World BY <1>13, <2>8, WorldWith
  <2> HIDE DEF a9
  <2>10. a10 \in Server!World BY <1>14, <2>9, WorldWith
  <2> HIDE DEF a10
  <2>11. a11 \in Server!World BY <1>14, <2>10, WorldWith
  <2> HIDE DEF a11
  <2>12. a12 \in Server!World BY <1>15, <2>11, WorldWith
  <2> HIDE DEF a12
  <2>13. a13 \in Server!World BY <1>15, <2>12, WorldWith
  <2>14. u = a13 BY <1>3 DEF a1, a2, a3, a4, a5, a6, a7, a8, a9, a10, a11, a12
  <2> QED BY <2>13, <2>14
<1>21. /\ u.size = size1 /\ u.lit = lit2 /\ u.time = now /\ u.stamp = stamp2 /\ u.by = by2
       /\ u.lastSet = lastSet2 /\ u.events = events2 /\ u.known = known2 /\ u.assigned = d
       /\ u.failed = failed2 /\ u.complained = complained2 /\ u.current = v.current
       /\ u.listed = v.listed /\ u.held = v.held /\ u.atoms = v.atoms /\ u.registered = v.registered
  BY <1>1, <1>3 DEF Server!World
<1>22. Server!Typed(u) BY <1>5, <1>20, <1>21 DEF Server!Typed
<1>23. Server!Timed(u) BY <1>11, <1>21 DEF Server!Timed
<1>24. Server!Named(u) BY <1>1, <1>21 DEF Server!Named
<1>25. ASSUME events2 = 0, ~failed2 PROVE known2 = lit2 /\ d = Server!Drivers(lit2)
  <2>1. v.known = v.lit /\ v.assigned = Server!Drivers(v.lit) /\ lit2 = v.lit
    BY <1>1, <1>12, <1>17, <1>25 DEF Server!Synced
  <2>2. off \cap refused = {} /\ on = D BY <1>17, <1>25
  <2>3. \A c \in Crtcs : c \in off => lit1[c] = Server!Off BY <1>9, <2>2
  <2>4. ASSUME NEW c \in Crtcs PROVE known2[c] = lit2[c]
    <3>1. CASE c \in on BY <1>5, <1>7, <3>1
    <3>2. CASE c \notin on /\ c \in off BY <1>5, <1>7, <2>3, <3>2
    <3>3. CASE c \notin on /\ c \notin off BY <1>7, <2>1, <3>3
    <3> QED BY <3>1, <3>2, <3>3
  <2>5. known2 = lit2 BY <1>5, <1>7, <2>4
  <2>6. CASE crtcs = <<>> BY <1>19, <2>1, <2>5, <2>6
  <2>7. CASE crtcs # <<>>
    <3>1. \A c \in Crtcs \ D : lit2[c] = Server!Off
      <4> SUFFICES ASSUME NEW c \in Crtcs \ D PROVE lit2[c] = Server!Off OBVIOUS
      <4>1. CASE c \in off BY <1>5, <2>2, <2>3, <4>1
      <4>2. CASE v.known[c] = Server!Off BY <2>1, <4>2
      <4> QED BY <1>18, <4>1, <4>2
    <3>2. \A c \in D : lit2[c] = crtcs[c] BY <1>5, <2>2
    <3> HIDE DEF crtcs
    <3>3. ASSUME NEW o \in Outputs PROVE Server!Driver(crtcs, o) = Server!Driver(lit2, o)
      <4> DEFINE S == {c \in DOMAIN crtcs : o \in crtcs[c].outputs}
                 T == {c \in DOMAIN lit2 : o \in lit2[c].outputs}
      <4>1. DOMAIN crtcs = D /\ DOMAIN lit2 = Crtcs BY <1>4, <1>5
      <4>2. Server!Off.outputs = {} BY DEF Server!Off
      <4>3. \A c \in Crtcs : c \in T <=> c \in S BY <3>1, <3>2, <4>1, <4>2
      <4>4. S = T BY <4>1, <4>3
      <4>5. /\ Server!Driver(crtcs, o) = IF S = {} THEN NoCrtc ELSE CHOOSE c \in S : TRUE
            /\ Server!Driver(lit2, o) = IF T = {} THEN NoCrtc ELSE CHOOSE c \in T : TRUE
        BY DEF Server!Driver
      <4> HIDE DEF S, T
      <4> QED BY <4>4, <4>5
    <3>4. Server!Drivers(crtcs) = Server!Drivers(lit2) BY <3>3 DEF Server!Drivers
    <3> QED BY <1>19, <2>5, <2>7, <3>4
  <2> QED BY <2>6, <2>7
<1>26. Server!Synced(u) BY <1>21, <1>25 DEF Server!Synced
<1> QED BY <1>16, <1>21, <1>22, <1>23, <1>24, <1>26 DEF Server!Good, Server!Free

(* gf_monitor_manager_xrandr_apply_monitors_config                            *)
LEMMA ConfigIsGood ==
    ASSUME NEW v, Server!Good(v), v.time < MaxTime, NEW config \in Server!Configs \cup {Server!NoConfig},
           NEW refused, NEW u, u = Server!ApplyMonitorsConfig(v, config, refused)
    PROVE  Server!Good(u)
<1> DEFINE applied == IF config = Server!NoConfig
                      THEN Server!RebuildDerived(Server!ApplyCrtcAssignments(v, config, refused), config)
                      ELSE IF Server!Changed(v, config) THEN Server!ApplyCrtcAssignments(v, config, refused)
                      ELSE Server!RebuildDerived(v, config)
<1>1. u = [applied EXCEPT !.current = config] BY DEF Server!ApplyMonitorsConfig
<1>2. Server!Good(applied)
  <2>1. Server!Good(Server!ApplyCrtcAssignments(v, config, refused)) BY AppliedIsGood
  <2>2. Server!Good(Server!RebuildDerived(Server!ApplyCrtcAssignments(v, config, refused), config))
    BY <2>1, DerivedIsGood
  <2>3. Server!Good(Server!RebuildDerived(v, config)) BY DerivedIsGood
  <2> QED BY <2>1, <2>2, <2>3
<1> HIDE DEF applied
<1>3. applied \in Server!World BY <1>2 DEF Server!Good, Server!Free, Server!Typed
<1>4. u \in Server!World BY <1>1, <1>3, WorldWith
<1>5. /\ u.size = applied.size /\ u.lit = applied.lit /\ u.known = applied.known
      /\ u.assigned = applied.assigned /\ u.time = applied.time /\ u.stamp = applied.stamp
      /\ u.lastSet = applied.lastSet /\ u.by = applied.by /\ u.events = applied.events
      /\ u.failed = applied.failed /\ u.complained = applied.complained
      /\ u.listed = applied.listed /\ u.held = applied.held /\ u.atoms = applied.atoms
      /\ u.registered = applied.registered
  BY <1>1, <1>3 DEF Server!World
<1>6. /\ Server!Ends(applied.lit) <= applied.size /\ Server!Synced(applied) /\ Server!Timed(applied)
      /\ Server!Named(applied) /\ ~applied.complained
  BY <1>2 DEF Server!Good, Server!Free, Server!Typed
<1>7. Server!Typed(u) BY <1>4, <1>5, <1>6 DEF Server!Typed
<1>8. Server!Synced(u) BY <1>5, <1>6 DEF Server!Synced
<1>9. Server!Timed(u) BY <1>5, <1>6 DEF Server!Timed
<1>10. Server!Named(u) BY <1>5, <1>6 DEF Server!Named
<1> QED BY <1>5, <1>6, <1>7, <1>8, <1>9, <1>10 DEF Server!Good, Server!Free

(* One event is read less, and time passes: what compares times and counts    *)
(* names stays.                                                               *)
LEMMA EventIsRead ==
    ASSUME Server!Good(x1), x1.events > 0, NEW v, v = [x1 EXCEPT !.events = x1.events - 1]
    PROVE  /\ v \in Server!World /\ Server!Ends(v.lit) <= v.size /\ Server!Timed(v) /\ Server!Named(v)
           /\ ~v.complained /\ v.time = x1.time /\ v.current = x1.current /\ v.by = x1.by
           /\ v.stamp = x1.stamp /\ v.lastSet = x1.lastSet
<1>1. /\ x1 \in Server!World /\ Server!Ends(x1.lit) <= x1.size /\ Server!Timed(x1)
      /\ Server!Named(x1) /\ ~x1.complained
  BY DEF Server!Good, Server!Free, Server!Typed
<1>2. PICK n \in Nat : n = x1.events - 1 BY <1>1 DEF Server!World
<1>3. v = [x1 EXCEPT !.events = n] BY <1>2
<1>4. v \in Server!World
  <2>1. x1 \in Server!World BY <1>1
  <2>2. \A y \in Nat : [x1 EXCEPT !.events = y] \in Server!World BY ONLY <2>1, WorldWith
  <2> QED BY <1>3, <2>2
<1>5. /\ v.size = x1.size /\ v.lit = x1.lit /\ v.time = x1.time /\ v.stamp = x1.stamp
      /\ v.lastSet = x1.lastSet /\ v.by = x1.by /\ v.complained = x1.complained
      /\ v.current = x1.current /\ v.listed = x1.listed /\ v.held = x1.held
      /\ v.atoms = x1.atoms /\ v.registered = x1.registered
  BY <1>1, <1>3 DEF Server!World
<1>6. Server!Timed(v) BY <1>1, <1>5 DEF Server!Timed
<1>7. Server!Named(v) BY <1>1, <1>5 DEF Server!Named
<1> QED BY <1>1, <1>4, <1>5, <1>6, <1>7

(* A configuration is applied.                                                *)
LEMMA ApplyStep ==
    ASSUME Server!Good(x1), NEW config \in Server!Configs \cup {Server!NoConfig}, NEW refused,
           Server!Apply(config, refused)
    PROVE  Server!Good(x1')
BY ConfigIsGood DEF Server!Apply

(* The event tells of a hotplug.                                              *)
LEMMA HotplugStep ==
    ASSUME Server!Good(x1), NEW config \in Server!Configs \cup {Server!NoConfig}, NEW refused,
           Server!HandleHotplug(config, refused)
    PROVE  Server!Good(x1')
<1> DEFINE v == [x1 EXCEPT !.events = x1.events - 1]  u == Server!ReadCurrentState(v)
<1>1. /\ x1.events > 0 /\ x1.time < MaxTime
      /\ x1' = Server!ApplyMonitorsConfig(u, config, refused)
  BY DEF Server!HandleHotplug
<1>2. /\ v \in Server!World /\ Server!Ends(v.lit) <= v.size /\ Server!Timed(v) /\ Server!Named(v)
      /\ ~v.complained /\ v.time = x1.time
  BY <1>1, EventIsRead
<1> HIDE DEF v
<1>3. Server!Good(u) /\ u.time = v.time BY <1>2, ReadIsKnown
<1> HIDE DEF u
<1> QED BY <1>1, <1>2, <1>3, ConfigIsGood

(* A change keeps the configuration exactly when it was made here.            *)
LEMMA ChangeStep ==
    ASSUME Server!Good(x1), Server!HandleChange
    PROVE  Server!Good(x1') /\ Server!KeepsOurs
<1> DEFINE v == [x1 EXCEPT !.events = x1.events - 1]  u == Server!ReadCurrentState(v)
           config == IF Server!Ours(u) THEN u.current ELSE Server!NoConfig
<1>1. x1.events > 0 /\ x1' = Server!RebuildDerived(u, config)
  BY DEF Server!HandleChange
<1>2. /\ v \in Server!World /\ Server!Ends(v.lit) <= v.size /\ Server!Timed(v) /\ Server!Named(v)
      /\ ~v.complained /\ v.current = x1.current /\ v.by = x1.by
      /\ v.stamp = x1.stamp /\ v.lastSet = x1.lastSet
  BY <1>1, EventIsRead
<1> HIDE DEF v
<1>3. /\ Server!Good(u) /\ u.current = v.current /\ u.by = v.by /\ u.stamp = v.stamp /\ u.lastSet = v.lastSet
  BY <1>2, ReadIsKnown
<1> HIDE DEF u
<1>4. u.current \in Server!Configs \cup {Server!NoConfig}
  BY <1>3 DEF Server!Good, Server!Free, Server!Typed, Server!World
<1>5. config \in Server!Configs \cup {Server!NoConfig} BY <1>4
<1>6. x1.by = "manager" <=> Server!Ours(u)
  BY <1>2, <1>3 DEF Server!Good, Server!Free, Server!Timed, Server!Ours
<1>7. config.scale = IF x1.by = "manager" THEN x1.current.scale ELSE Server!Auto
  BY <1>2, <1>3, <1>6 DEF Server!NoConfig
<1> HIDE DEF config
<1>8. Server!Good(x1') /\ x1'.scale = config.scale BY <1>1, <1>3, <1>5, DerivedIsGood
<1> QED BY <1>7, <1>8 DEF Server!KeepsOurs


(* Outputs are plugged in or out.                                             *)
LEMMA PlugStep == Server!Good(x1) /\ Server!Hotplug => Server!Good(x1')
<1> SUFFICES ASSUME Server!Good(x1), Server!Hotplug PROVE Server!Good(x1') OBVIOUS
<1>1. /\ x1 \in Server!World /\ Server!Ends(x1.lit) <= x1.size /\ Server!Timed(x1)
      /\ Server!Named(x1) /\ ~x1.complained
  BY DEF Server!Good, Server!Free, Server!Typed
<1>2. PICK t \in BOOLEAN :
        x1' = [x1 EXCEPT !.time = x1.time + 1, !.plugged = x1.time + 1, !.events = x1.events + 1, !.tiles = t]
  BY DEF Server!Hotplug
<1>3. x1.time \in 1 .. MaxTime /\ x1.events \in Nat /\ x1.time < MaxTime /\ x1.stamp \in 1 .. MaxTime
      /\ x1.lastSet \in 1 .. MaxTime
  BY <1>1 DEF Server!World, Server!Hotplug
<1>4. PICK n \in 1 .. MaxTime : n = x1.time + 1 BY <1>3, ServerAssumption
<1>5. PICK e \in Nat : e = x1.events + 1 /\ e # 0 BY <1>3
<1>6. x1' = [x1 EXCEPT !.time = n, !.plugged = n, !.events = e, !.tiles = t] BY <1>2, <1>4, <1>5
<1> DEFINE a == [x1 EXCEPT !.time = n]  b == [a EXCEPT !.plugged = n]  c == [b EXCEPT !.events = e]
           d == [c EXCEPT !.tiles = t]
<1>7. x1' \in Server!World
  <2>1. a \in Server!World BY <1>1, WorldWith
  <2> HIDE DEF a
  <2>2. n \in 0 .. MaxTime OBVIOUS
  <2>3. b \in Server!World BY <2>1, <2>2, WorldWith
  <2> HIDE DEF b
  <2>4. c \in Server!World BY <2>3, WorldWith
  <2> HIDE DEF c
  <2>5. d \in Server!World BY <2>4, WorldWith
  <2> QED BY <1>6, <2>5 DEF a, b, c
<1>8. /\ x1'.size = x1.size /\ x1'.lit = x1.lit /\ x1'.time = n /\ x1'.stamp = x1.stamp
      /\ x1'.lastSet = x1.lastSet /\ x1'.by = x1.by /\ x1'.complained = x1.complained
      /\ x1'.events = e /\ x1'.listed = x1.listed /\ x1'.held = x1.held
      /\ x1'.atoms = x1.atoms /\ x1'.registered = x1.registered
  BY <1>1, <1>6 DEF Server!World
<1>9. Server!Timed(x1') BY <1>1, <1>3, <1>4, <1>8 DEF Server!Timed
<1>10. Server!Named(x1') BY <1>1, <1>8 DEF Server!Named
<1>11. Server!Synced(x1') BY <1>5, <1>8 DEF Server!Synced
<1>12. Server!Typed(x1') BY <1>1, <1>7, <1>8 DEF Server!Typed
<1> QED BY <1>1, <1>8, <1>9, <1>10, <1>11, <1>12 DEF Server!Good, Server!Free

(* What is lit from nothing is on a screen of its size.                       *)
LEMMA LitAlone ==
    ASSUME NEW D \in SUBSET Crtcs, IsFiniteSet(D), NEW crtcs \in [D -> Server!Placement],
           NEW r, r = Server!Set([c \in Crtcs |-> Server!Off], crtcs, D)
    PROVE  r \in [Crtcs -> Server!Placement] /\ Server!Ends(crtcs) \in Nat /\ Server!Ends(r) <= Server!Ends(crtcs)
<1> DEFINE off == [c \in Crtcs |-> Server!Off]
<1>1. /\ Server!Ends(crtcs) \in Nat
      /\ \A c \in D : Server!End(crtcs[c]) \in Nat /\ Server!End(crtcs[c]) <= Server!Ends(crtcs)
  BY EndsOf
<1>2. Server!Off \in Server!Placement /\ Server!End(Server!Off) = 0
  BY DEF Server!Off, Server!Placement, Server!End
<1>3. off \in [Crtcs -> Server!Placement] /\ \A c \in Crtcs : off[c] = Server!Off BY <1>2
<1>4. r = Server!Set(off, crtcs, D) OBVIOUS
<1> HIDE DEF off
<1>5. \A c \in Crtcs : Server!End(off[c]) <= Server!Ends(crtcs) BY <1>1, <1>2, <1>3
<1>6. PICK n \in Nat : n = Server!Ends(crtcs) BY <1>1
<1>7. /\ \A c \in Crtcs : Server!End(off[c]) <= n
      /\ \A c \in D : Server!End(crtcs[c]) <= n
  BY <1>1, <1>5, <1>6
<1>8. r \in [Crtcs -> Server!Placement] /\ \A c \in Crtcs : Server!End(r[c]) <= n
  BY ONLY <1>3, <1>4, <1>6, <1>7, SetByServer
<1>9. IsFiniteSet(Crtcs) BY ServerAssumption
<1>10. Server!Ends(r) <= n BY ONLY <1>6, <1>8, <1>9, EndsOf
<1> QED BY <1>1, <1>6, <1>8, <1>10

(* Another client sets the CRTCs.                                             *)
LEMMA ClientStep ==
    ASSUME Server!Good(x1), NEW crtcs \in Layouts, Server!ClientSets(crtcs)
    PROVE  Server!Good(x1')
<1>1. /\ x1 \in Server!World /\ Server!Ends(x1.lit) <= x1.size /\ Server!Timed(x1)
      /\ Server!Named(x1) /\ ~x1.complained
  BY DEF Server!Good, Server!Free, Server!Typed
<1>2. PICK D \in SUBSET Crtcs : D = DOMAIN crtcs /\ IsFiniteSet(D) /\ crtcs \in [D -> Server!Placement]
  BY ServerAssumption, FS_Subset
<1> DEFINE lit == Server!Set([c \in Crtcs |-> Server!Off], crtcs, DOMAIN crtcs)
<1>3. lit \in [Crtcs -> Server!Placement] /\ Server!Ends(crtcs) \in Nat /\ Server!Ends(lit) <= Server!Ends(crtcs)
  BY <1>2, LitAlone
<1>4. x1.time \in 1 .. MaxTime /\ x1.events \in Nat /\ x1.time < MaxTime /\ x1.stamp \in 1 .. MaxTime
      /\ x1.lastSet \in 1 .. MaxTime
  BY <1>1 DEF Server!World, Server!ClientSets
<1>5. PICK n \in 1 .. MaxTime : n = x1.time + 1 BY <1>4, ServerAssumption
<1>6. PICK e \in Nat : e = x1.events + 1 /\ e # 0 BY <1>4
<1>7. PICK size \in Nat : size = Server!Ends(crtcs) BY <1>3
<1>8. x1' = [x1 EXCEPT !.time = n, !.stamp = n, !.by = "client", !.events = e, !.size = size, !.lit = lit]
  BY <1>5, <1>6, <1>7 DEF Server!ClientSets
<1> HIDE DEF lit
<1> DEFINE a == [x1 EXCEPT !.time = n]     b == [a EXCEPT !.stamp = n]
           c == [b EXCEPT !.by = "client"] d == [c EXCEPT !.events = e]
           f == [d EXCEPT !.size = size]   g == [f EXCEPT !.lit = lit]
<1>9. x1' \in Server!World
  <2>1. a \in Server!World BY <1>1, WorldWith
  <2> HIDE DEF a
  <2>2. b \in Server!World BY <2>1, WorldWith
  <2> HIDE DEF b
  <2>3. c \in Server!World BY <2>2, WorldWith
  <2> HIDE DEF c
  <2>4. d \in Server!World BY <2>3, WorldWith
  <2> HIDE DEF d
  <2>5. f \in Server!World BY <2>4, WorldWith
  <2> HIDE DEF f
  <2>6. g \in Server!World BY <1>3, <2>5, WorldWith
  <2> QED BY <1>8, <2>6 DEF a, b, c, d, f
<1>10. /\ x1'.size = size /\ x1'.lit = lit /\ x1'.time = n /\ x1'.stamp = n
       /\ x1'.lastSet = x1.lastSet /\ x1'.by = "client" /\ x1'.complained = x1.complained
       /\ x1'.events = e /\ x1'.listed = x1.listed /\ x1'.held = x1.held
       /\ x1'.atoms = x1.atoms /\ x1'.registered = x1.registered
  BY <1>1, <1>8 DEF Server!World
<1>11. Server!Timed(x1') BY <1>1, <1>4, <1>5, <1>10 DEF Server!Timed
<1>12. Server!Named(x1') BY <1>1, <1>10 DEF Server!Named
<1>13. Server!Synced(x1') BY <1>6, <1>10 DEF Server!Synced
<1>14. Server!Typed(x1') BY <1>3, <1>7, <1>9, <1>10 DEF Server!Typed
<1> QED BY <1>1, <1>10, <1>11, <1>12, <1>13, <1>14 DEF Server!Good, Server!Free

(* What ensure_initial_config starts with, before it reads the server.        *)
LEMMA StartIsGood ==
    ASSUME NEW config \in Server!Configs, NEW tiles \in BOOLEAN, NEW v, v = Server!Start(config, tiles)
    PROVE  Server!Good(v)
<1> DEFINE lit == Server!Set([c \in Crtcs |-> Server!Off], config.crtcs, DOMAIN config.crtcs)
           size == Server!Ends(config.crtcs)
           u == [size |-> size, lit |-> lit, mark |-> config.mark,
             time |-> 1, stamp |-> 1, plugged |-> 0, events |-> 0,
             read |-> lit, known |-> lit, assigned |-> Server!Drivers(lit), marked |-> config.mark,
             lastSet |-> 1, current |-> config, layout |-> {}, scale |-> Server!Auto,
             tiles |-> tiles, listed |-> FALSE, held |-> "none", atoms |-> 0,
             registered |-> FALSE, by |-> "manager", failed |-> FALSE, complained |-> FALSE]
<1>1. PICK D \in SUBSET Crtcs : /\ D = DOMAIN config.crtcs /\ IsFiniteSet(D)
                                /\ config.crtcs \in [D -> Server!Placement] /\ config.mark \in BOOLEAN
  BY ConfigTypes
<1>2. lit \in [Crtcs -> Server!Placement] /\ size \in Nat /\ Server!Ends(lit) <= size
  BY <1>1, LitAlone
<1>3. v = Server!RebuildDerived(Server!ReadCurrentState(u), config) BY DEF Server!Start
<1> HIDE DEF lit, size
<1>4. Server!Drivers(lit) \in [Outputs -> Crtcs \cup {NoCrtc}] BY <1>2, DriversType
<1>5. 1 \in 1 .. MaxTime /\ 0 \in 0 .. MaxTime BY ServerAssumption
<1>6. u \in Server!World
  <2>1. PICK d \in [Outputs -> Crtcs \cup {NoCrtc}] : d = Server!Drivers(lit) BY <1>4
  <2>2. PICK m \in BOOLEAN : m = config.mark BY <1>1
  <2>3. PICK no \in BOOLEAN : no = FALSE OBVIOUS
  <2>4. u = [size |-> size, lit |-> lit, mark |-> m,
             time |-> 1, stamp |-> 1, plugged |-> 0, events |-> 0,
             read |-> lit, known |-> lit, assigned |-> d, marked |-> m,
             lastSet |-> 1, current |-> config, layout |-> {}, scale |-> Server!Auto,
             tiles |-> tiles, listed |-> no, held |-> "none", atoms |-> 0,
             registered |-> no, by |-> "manager", failed |-> no, complained |-> no]
    BY <2>1, <2>2, <2>3
  <2> HIDE DEF u
  <2> QED BY <1>2, <1>5, <2>4 DEF Server!World
<1>7. /\ u.size = size /\ u.lit = lit /\ u.complained = FALSE /\ u.time = 1 /\ u.stamp = 1
      /\ u.lastSet = 1 /\ u.by = "manager" /\ u.listed = FALSE /\ u.held = "none" /\ u.atoms = 0
      /\ u.registered = FALSE
  OBVIOUS
<1> HIDE DEF u
<1>8. Server!Timed(u) BY <1>7 DEF Server!Timed
<1>9. Server!Named(u) BY <1>7 DEF Server!Named
<1>10. Server!Good(Server!ReadCurrentState(u)) BY <1>2, <1>6, <1>7, <1>8, <1>9, ReadIsKnown
<1> QED BY <1>3, <1>10, DerivedIsGood

(* gf-monitor-manager-xrandr.c: no CRTC is in the way of a new screen, the    *)
(* manager knows what is lit once all events are read, a tiled monitor is     *)
(* named as long as it lives, and a change of the CRTCs keeps the             *)
(* configuration exactly when it was made here; for all CRTCs, outputs,       *)
(* layouts and clocks.                                                        *)
THEOREM ScreenStaysFree == Spec => ScreenIsFree
<1> DEFINE I == part = "server" => Server!Good(x1)
<1>1. Init => I
  <2> SUFFICES ASSUME Init, part = "server" PROVE Server!Good(x1) OBVIOUS
  <2>1. Server!Init BY DEF Init, ParserInit
  <2> QED BY <2>1, StartIsGood DEF Server!Init
<1>2. I /\ [Next]_all => I'
  <2> SUFFICES ASSUME I, [Next]_all, (part = "server")' PROVE Server!Good(x1)' OBVIOUS
  <2>1. CASE UNCHANGED all
    <3>1. part' = part /\ x1' = x1 BY <2>1 DEF all
    <3> QED BY <3>1
  <2>2. CASE InServer(Server!Next)
    <3>1. Server!Good(x1) /\ Server!Next BY <2>2 DEF InServer
    <3>2. CASE Server!HandleChange BY <3>1, <3>2, ChangeStep
    <3>3. CASE Server!Hotplug BY <3>1, <3>3, PlugStep
    <3>4. ASSUME NEW crtcs \in Layouts, Server!ClientSets(crtcs) PROVE Server!Good(x1')
      BY <3>1, <3>4, ClientStep
    <3>5. ASSUME NEW config \in Server!Configs \cup {Server!NoConfig}, NEW refused \in SUBSET Crtcs,
                 Server!Apply(config, refused)
          PROVE  Server!Good(x1')
      BY <3>1, <3>5, ApplyStep
    <3>6. ASSUME NEW config \in Server!Configs \cup {Server!NoConfig}, NEW refused \in SUBSET Crtcs,
                 Server!HandleHotplug(config, refused)
          PROVE  Server!Good(x1')
      BY <3>1, <3>6, HotplugStep
    <3>7. Server!Good(x1') BY <3>1, <3>2, <3>3, <3>4, <3>5, <3>6 DEF Server!Next
    <3> QED BY <3>7
  <2>3. CASE ~InServer(Server!Next) /\ ~UNCHANGED all
    <3>1. part # "server" /\ part' = part
      BY <2>3 DEF Next, InStore, InParser, InPolicies, InConversion, InServer, InModes
    <3> QED BY <3>1
  <2> QED BY <2>1, <2>2, <2>3
<1>3. I => (part = "server" => Server!Inv) BY DEF Server!Inv
<1>4. I => (part = "server" => Server!KeepsOurs)
  BY ChangeStep DEF Server!KeepsOurs
<1> QED BY <1>1, <1>2, <1>3, <1>4, PTL DEF Spec, ScreenIsFree

(* ------------------------------------------ the parser of monitors.xml ---- *)

(* gf-monitor-config-store.c: what handle_end_element stores for a            *)
(* configuration is what stands inside its element, whatever the file is:     *)
(* nothing is carried over from another element, or from an unknown one.      *)
THEOREM NothingEverCarriedOver == Spec => []NothingCarriedOver
<1> DEFINE I == part = "parser" => Parser!Inv
<1>1. Init => I
  <2> SUFFICES ASSUME Init, part = "parser" PROVE Parser!Inv OBVIOUS
  <2>1. Parser!Init BY DEF Init, ParserInit
  <2> QED BY <2>1, Parser!InvStart
<1>2. I /\ [Next]_all => I'
  <2> SUFFICES ASSUME I, [Next]_all, (part = "parser")' PROVE Parser!Inv' OBVIOUS
  <2>1. CASE UNCHANGED all
    <3>1. part' = part /\ UNCHANGED Parser!vars BY <2>1 DEF all, Parser!vars
    <3>2. Parser!Inv BY <3>1
    <3> QED BY <3>1, <3>2, Parser!InvStutter
  <2>2. CASE InParser(Parser!Next)
    <3>1. Parser!Inv /\ Parser!Next BY <2>2 DEF InParser
    <3> QED BY <3>1, ParserAssumption, Parser!InvStep
  <2>3. CASE ~InParser(Parser!Next) /\ ~UNCHANGED all
    <3>1. part # "parser" /\ part' = part
      BY <2>3 DEF Next, InStore, InParser, InPolicies, InConversion, InServer, InModes
    <3> QED BY <3>1
  <2> QED BY <2>1, <2>2, <2>3
<1>3. I => NothingCarriedOver BY DEF NothingCarriedOver, Parser!Inv, Parser!NothingCarriedOver
<1> QED BY <1>1, <1>2, <1>3, PTL DEF Spec

(* gf-monitor-config-store.c: the policy that was read first stays, and a     *)
(* file of the user sets none, whatever files are read in turn.               *)
THEOREM PolicyStays == Spec => FirstPolicyStays
<1> DEFINE I == part = "policies" => Policies!OnlySystemInPolicy
<1>1. Init => I
  <2> SUFFICES ASSUME Init, part = "policies" PROVE Policies!OnlySystemInPolicy OBVIOUS
  <2>1. Policies!Init BY DEF Init, ParserInit
  <2> QED BY <2>1, Policies!PolicyStart
<1>2. I /\ [Next]_all => I' /\ [part = "policies" => Policies!KeepsPolicy]_all
  <2> SUFFICES ASSUME I, [Next]_all
               PROVE  I' /\ [part = "policies" => Policies!KeepsPolicy]_all
    OBVIOUS
  <2>1. CASE UNCHANGED all
    <3>1. part' = part /\ x3' = x3 /\ x4' = x4 BY <2>1 DEF all
    <3> QED BY <2>1, <3>1 DEF Policies!OnlySystemInPolicy
  <2>2. CASE InPolicies(Policies!Next)
    <3>1. Policies!OnlySystemInPolicy /\ Policies!Next BY <2>2 DEF InPolicies
    <3> QED BY <3>1, Policies!PolicyStep
  <2>3. CASE ~InPolicies(Policies!Next) /\ ~UNCHANGED all
    <3>1. part # "policies" /\ part' = part
      BY <2>3 DEF Next, InStore, InParser, InPolicies, InConversion, InServer, InModes
    <3> QED BY <3>1
  <2> QED BY <2>1, <2>2, <2>3
<1> QED BY <1>1, <1>2, PTL DEF Spec, FirstPolicyStays
=============================================================================
