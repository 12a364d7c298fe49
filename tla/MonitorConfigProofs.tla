------------------------- MODULE MonitorConfigProofs -------------------------
(* The conversions of transforms; and ConfigurationFits, for any monitors,    *)
(* panel, CRTCs and transforms and any length of the history, as long as      *)
(* clients apply their configurations for the session and not on trial.       *)
EXTENDS MCMonitorConfig, FiniteSetTheorems, WellFoundedInduction, TLAPS

(* What the monitor configuration relies on when it converts transforms    *)
(* back and forth, for every transform and every way a panel is built in.  *)

(* gf_monitor_transform_transform and _invert stay within the enumeration. *)
LEMMA TransformsClosed ==
    ASSUME NEW t \in Transforms, NEW u \in Transforms
    PROVE  /\ Compose(t, u) \in Transforms
           /\ Invert(t) \in Transforms
BY DEF Compose, Flip, Flipped, Invert, Transforms

(* gf_monitor_transform_invert is the inverse of a transform on either     *)
(* side, also of the flipped ones, which are their own inverses.           *)
LEMMA InvertInverts ==
    ASSUME NEW t \in Transforms
    PROVE  /\ Compose(t, Invert(t)) = 0
           /\ Compose(Invert(t), t) = 0
BY DEF Compose, Flip, Flipped, Invert, Transforms

(* gf_output_logical_to_crtc_transform and its counterpart undo each       *)
(* other: what is read back from X after a configuration was applied is    *)
(* the transform that the configuration names.                             *)
THEOREM ConversionsUndoEachOther ==
    ASSUME NEW t \in Transforms, NEW p \in Transforms
    PROVE  /\ CrtcToLogical(LogicalToCrtc(t, p), p) = t
           /\ LogicalToCrtc(CrtcToLogical(t, p), p) = t
<1>1. CrtcToLogical(LogicalToCrtc(t, p), p) = t
  BY DEF CrtcToLogical, LogicalToCrtc, Compose, Flip, Flipped, Invert,
         Transforms
<1>2. LogicalToCrtc(CrtcToLogical(t, p), p) = t
  BY DEF CrtcToLogical, LogicalToCrtc, Compose, Flip, Flipped, Invert,
         Transforms
<1> QED BY <1>1, <1>2

(* Two transforms of the picture stay apart on the panel: no two           *)
(* configurations that differ in the transform alone look the same to X.   *)
COROLLARY ConversionsAreInjective ==
    ASSUME NEW t \in Transforms, NEW u \in Transforms, NEW p \in Transforms,
           LogicalToCrtc(t, p) = LogicalToCrtc(u, p)
    PROVE  t = u
BY ConversionsUndoEachOther

(* ------------------------------------------------ addresses, numbers ------ *)
LEMMA RootsType == Roots \subseteq Nat /\ 0 \in Roots /\ 2 ^ Cardinality(Monitors) \in Nat
<1>1. IsFiniteSet(SUBSET Monitors) /\ Cardinality(SUBSET Monitors) = 2 ^ Cardinality(Monitors)
  BY MonitorsAssumption, FS_SUBSET
<1>2. 2 ^ Cardinality(Monitors) \in Nat BY <1>1, FS_CardinalityType
<1>3. HistoryMax \in Nat BY BoundAssumption
<1> QED BY <1>2, <1>3 DEF Roots

(* The image of a finite set is no larger than the set.                       *)
LEMMA ImageOf ==
    ASSUME NEW f, IsFiniteSet(DOMAIN f), f = [x \in DOMAIN f |-> f[x]]
    PROVE  /\ IsFiniteSet({f[x] : x \in DOMAIN f})
           /\ Cardinality({f[x] : x \in DOMAIN f}) <= Cardinality(DOMAIN f)
<1>1. f \in Surjection(DOMAIN f, {f[x] : x \in DOMAIN f}) BY DEF Surjection
<1> QED BY <1>1, FS_Surjection

LEMMA AtMostThree ==
    ASSUME NEW a, NEW b, NEW c
    PROVE  IsFiniteSet({a, b, c}) /\ Cardinality({a, b, c}) <= 3
<1>1. IsFiniteSet({a}) /\ Cardinality({a}) = 1 BY FS_Singleton
<1>2. IsFiniteSet({a} \cup {b}) /\ Cardinality({a} \cup {b}) = IF b \in {a} THEN 1 ELSE 2
  BY <1>1, FS_AddElement
<1>3. {a, b} = {a} \cup {b} OBVIOUS
<1>4. IsFiniteSet({a, b}) /\ Cardinality({a, b}) \in 1 .. 2 BY <1>2, <1>3
<1>5. /\ IsFiniteSet({a, b} \cup {c})
      /\ Cardinality({a, b} \cup {c}) = IF c \in {a, b} THEN Cardinality({a, b}) ELSE Cardinality({a, b}) + 1
  BY <1>4, FS_AddElement
<1>6. {a, b, c} = {a, b} \cup {c} OBVIOUS
<1>7. IsFiniteSet({a, b, c}) /\ Cardinality({a, b, c}) \in 1 .. 3 BY <1>4, <1>5, <1>6
<1> QED BY <1>7

(* There are more addresses than configurations.                              *)
LEMMA FreshRootType ==
    ASSUME asked \in Configs, before \in Configs,
           NEW w \in Worlds, Len(w.history) <= HistoryMax
    PROVE  FreshRoot(w) \in Roots /\ FreshRoot(w) # 0
<1> DEFINE few == {w.current.root, asked.root, before.root}
           old == [i \in DOMAIN w.history |-> w.history[i].root]
           stored == [k \in SUBSET Monitors |-> w.store[k].root]
           A == {old[i] : i \in DOMAIN old}
           B == {stored[k] : k \in DOMAIN stored}
           N == 2 ^ Cardinality(Monitors) + HistoryMax + 4
           free == (1 .. N) \ UsedRoots(w)
           R == OpToRel(<, Nat)
<1>1. N \in Nat /\ HistoryMax \in Nat /\ 2 ^ Cardinality(Monitors) \in Nat
  BY RootsType, BoundAssumption
<1>2. IsFiniteSet(few) /\ Cardinality(few) <= 3 BY AtMostThree
<1>3. IsFiniteSet(A) /\ Cardinality(A) <= HistoryMax
  <2>1. w.history \in Seq(Configs) BY DEF Worlds
  <2>2. DOMAIN old = 1 .. Len(w.history) /\ Len(w.history) \in Nat BY <2>1
  <2>3. IsFiniteSet(DOMAIN old) /\ Cardinality(DOMAIN old) = Len(w.history) BY <2>2, FS_Interval
  <2>4. old = [x \in DOMAIN old |-> old[x]] OBVIOUS
  <2> HIDE DEF old
  <2>5. IsFiniteSet(A) /\ Cardinality(A) <= Cardinality(DOMAIN old) BY <2>3, <2>4, ImageOf
  <2>6. Cardinality(A) \in Nat BY <2>5, FS_CardinalityType
  <2> QED BY <1>1, <2>2, <2>3, <2>5, <2>6
<1>4. IsFiniteSet(B) /\ Cardinality(B) <= 2 ^ Cardinality(Monitors)
  <2>1. IsFiniteSet(DOMAIN stored) /\ Cardinality(DOMAIN stored) = 2 ^ Cardinality(Monitors)
    BY MonitorsAssumption, FS_SUBSET
  <2>2. stored = [x \in DOMAIN stored |-> stored[x]] OBVIOUS
  <2> HIDE DEF stored
  <2> QED BY <2>1, <2>2, ImageOf
<1>5. UsedRoots(w) = (few \cup A) \cup B BY DEF UsedRoots
<1>6. IsFiniteSet(UsedRoots(w)) /\ Cardinality(UsedRoots(w)) <= 2 ^ Cardinality(Monitors) + HistoryMax + 3
  <2> HIDE DEF few, A, B
  <2>1. /\ IsFiniteSet(few \cup A)
        /\ Cardinality(few \cup A) = Cardinality(few) + Cardinality(A) - Cardinality(few \cap A)
    BY <1>2, <1>3, FS_Union
  <2>2. /\ IsFiniteSet((few \cup A) \cup B)
        /\ Cardinality((few \cup A) \cup B) =
             Cardinality(few \cup A) + Cardinality(B) - Cardinality((few \cup A) \cap B)
    BY <1>4, <2>1, FS_Union
  <2>3. /\ Cardinality(few) \in Nat /\ Cardinality(A) \in Nat /\ Cardinality(B) \in Nat
        /\ Cardinality(few \cup A) \in Nat
    BY <1>2, <1>3, <1>4, <2>1, FS_CardinalityType
  <2>4. Cardinality(few \cap A) \in Nat
    <3>1. IsFiniteSet(few \cap A) BY <1>2, FS_Subset
    <3> QED BY <3>1, FS_CardinalityType
  <2>5. Cardinality((few \cup A) \cap B) \in Nat
    <3>1. IsFiniteSet((few \cup A) \cap B) BY <2>1, FS_Subset
    <3> QED BY <3>1, FS_CardinalityType
  <2>6. Cardinality((few \cup A) \cup B) \in Nat BY <2>2, FS_CardinalityType
  <2> HIDE DEF N
  <2> QED BY <1>1, <1>2, <1>3, <1>4, <1>5, <2>1, <2>2, <2>3, <2>4, <2>5, <2>6
<1>7. free # {}
  <2> SUFFICES ASSUME free = {} PROVE FALSE OBVIOUS
  <2>1. 1 .. N \subseteq UsedRoots(w) OBVIOUS
  <2>2. Cardinality(1 .. N) = N
    <3> HIDE DEF N
    <3>1. Cardinality(1 .. N) = IF 1 > N THEN 0 ELSE N - 1 + 1 BY <1>1, FS_Interval
    <3> QED BY <1>1, <3>1
  <2>3. Cardinality(1 .. N) <= Cardinality(UsedRoots(w)) BY <1>6, <2>1, FS_Subset
  <2>4. Cardinality(UsedRoots(w)) \in Nat BY <1>6, FS_CardinalityType
  <2> QED BY <1>1, <1>6, <2>2, <2>3, <2>4
<1>8. \E r \in Roots \ ({0} \cup UsedRoots(w)) : 1 .. r - 1 \subseteq UsedRoots(w)
  <2>1. IsWellFoundedOn(R, Nat) BY NatLessThanWellFounded
  <2>2. ASSUME NEW m \in Nat, NEW n \in Nat, n < m PROVE <<n, m>> \in R
    BY <2>2, <<n, m>> \in Nat \X Nat DEF OpToRel
  <2> HIDE DEF R
  <2>3. free \subseteq Nat BY <1>1
  <2>4. PICK r \in free : \A y \in free : ~(<<y, r>> \in R) BY <1>7, <2>1, <2>3, WFMin
  <2>5. r \in 1 .. N /\ r \notin UsedRoots(w) BY <2>4
  <2>6. 1 .. r - 1 \subseteq UsedRoots(w)
    <3> SUFFICES ASSUME NEW y \in 1 .. r - 1, y \notin UsedRoots(w) PROVE FALSE OBVIOUS
    <3>1. y \in 1 .. N /\ y < r /\ y \in Nat /\ r \in Nat BY <1>1, <2>5
    <3>2. y \in free BY <3>1
    <3> QED BY <2>2, <2>4, <3>1, <3>2
  <2>7. r \in Roots \ ({0} \cup UsedRoots(w)) BY <1>1, <2>5 DEF Roots
  <2> QED BY <2>6, <2>7
<1> QED BY <1>8 DEF FreshRoot

(* Among some monitors, one has the highest preferred resolution.             *)
LEMMA LargestOf ==
    ASSUME NEW S \in SUBSET Monitors, S # {}
    PROVE  Largest(S) \in S
<1> DEFINE Has(T) == \E m \in T : \A n \in T : Area[n] <= Area[m]
           Without == {n \in Nat : \E T \in SUBSET S : T # {} /\ Cardinality(T) = n /\ ~Has(T)}
           R == OpToRel(<, Nat)
<1>1. IsWellFoundedOn(R, Nat) BY NatLessThanWellFounded
<1>2. ASSUME NEW m \in Nat, NEW n \in Nat, n < m PROVE <<n, m>> \in R
  BY <1>2, <<n, m>> \in Nat \X Nat DEF OpToRel
<1> HIDE DEF R
<1>3. \A m \in S : Area[m] \in Nat BY AreaAssumption
<1>4. IsFiniteSet(S) BY MonitorsAssumption, FS_Subset
<1>5. Without = {}
  <2> SUFFICES ASSUME Without # {} PROVE FALSE OBVIOUS
  <2>1. Without \subseteq Nat OBVIOUS
  <2> HIDE DEF Without
  <2>2. PICK n \in Without : \A k \in Without : ~(<<k, n>> \in R) BY <1>1, <2>1, WFMin
  <2> USE DEF Without
  <2>3. PICK T \in SUBSET S : T # {} /\ Cardinality(T) = n /\ ~Has(T) OBVIOUS
  <2>4. PICK a \in T : TRUE BY <2>3
  <2> DEFINE U == T \ {a}
  <2>5. IsFiniteSet(T) BY <1>4, FS_Subset
  <2>6. IsFiniteSet(U) /\ Cardinality(U) = Cardinality(T) - 1 BY <2>4, <2>5, FS_RemoveElement
  <2>7. n \in Nat /\ Cardinality(U) \in Nat BY <2>3, <2>6, FS_CardinalityType
  <2>8. CASE U = {}
    <3>1. T = {a} BY <2>4, <2>8
    <3>2. Area[a] <= Area[a] BY <1>3, <2>4
    <3> QED BY <2>3, <3>1, <3>2
  <2>9. CASE U # {}
    <3>1. Has(U)
      <4> SUFFICES ASSUME ~Has(U) PROVE FALSE OBVIOUS
      <4>1. Cardinality(U) \in Without BY <2>7, <2>9
      <4>2. Cardinality(U) < n BY <2>3, <2>6, <2>7
      <4> HIDE DEF Without, U
      <4> QED BY <1>2, <2>2, <2>7, <4>1, <4>2
    <3>2. PICK m \in U : \A k \in U : Area[k] <= Area[m] BY <3>1
    <3>3. Area[a] \in Nat /\ \A k \in T : Area[k] \in Nat BY <1>3, <2>4
    <3>4. CASE Area[a] <= Area[m]
      <4>1. \A k \in T : Area[k] <= Area[m] BY <3>2, <3>4
      <4> QED BY <2>3, <4>1
    <3>5. CASE ~(Area[a] <= Area[m])
      <4>1. \A k \in T : Area[k] <= Area[a] BY <3>2, <3>3, <3>5
      <4> QED BY <2>3, <2>4, <4>1
    <3> QED BY <3>4, <3>5
  <2> QED BY <2>8, <2>9
<1>6. Cardinality(S) \in Nat BY <1>4, FS_CardinalityType
<1>7. Has(S)
  <2> SUFFICES ASSUME ~Has(S) PROVE FALSE OBVIOUS
  <2>1. Cardinality(S) \in Without BY <1>6
  <2> HIDE DEF Without
  <2> QED BY <1>5, <2>1
<1> QED BY <1>7 DEF Largest
(* ------------------------------------------------------ configurations ---- *)
LEMMA ConfigType ==
    /\ NoConfig \in Configs /\ ~Exists(NoConfig) /\ NoConfig.on = {}
    /\ \A c \in Configs : LayoutOf(c) \in Layouts /\ KeyOf(c) \in SUBSET Monitors /\ c.on \in SUBSET Monitors
BY RootsType DEF NoConfig, Configs, Exists, Layouts, LayoutOf, KeyOf

LEMMA WorldFacts ==
    ASSUME NEW w \in Worlds
    PROVE  /\ w.known \in SUBSET Monitors /\ w.connected \in SUBSET Monitors
           /\ w.lit \in Layouts /\ w.believed \in Layouts /\ w.current \in Configs
           /\ w.history \in Seq(Configs) /\ w.store \in [SUBSET Monitors -> Configs]
           /\ w.events \in 0 .. MaxEvents /\ w.tilt \in Tilts \cup {NoTilt}
           /\ w.lid \in BOOLEAN /\ w.init \in BOOLEAN /\ w.foreign \in BOOLEAN
           /\ w.configNewer \in BOOLEAN /\ w.missed \in BOOLEAN /\ w.managed \in BOOLEAN
           /\ w.crashed \in {"no", "missing monitor", "no logical monitor"}
BY DEF Worlds

(* Only a closed panel is not visible.                                        *)
LEMMA VisibleFacts ==
    ASSUME NEW w \in Worlds
    PROVE  /\ VisibleMonitors(w) \subseteq CurrentKey(w) /\ CurrentKey(w) \subseteq w.known
           /\ CurrentKey(w) \in SUBSET Monitors
           /\ CurrentKey(w) = {} => w.known = {}
           /\ VisibleMonitors(w) # {} => VisibleMonitors(w) = CurrentKey(w)
           /\ VisibleMonitors(w) = {} /\ w.known # {} => CurrentKey(w) = {Panel} /\ Panel \in Monitors
           /\ \A m \in w.known \ {Panel} : m \in VisibleMonitors(w)
<1>1. w.known \in SUBSET Monitors BY WorldFacts
<1> QED BY <1>1 DEF VisibleMonitors, CurrentKey

(* A configuration for what is connected: it lights some of it, and its key   *)
(* is the one that is looked up.                                              *)
Fits(w, c) ==
    /\ c \in Configs
    /\ Exists(c) => c.on # {} /\ c.on \subseteq w.known /\ KeyOf(c) = CurrentKey(w)

(* Monitors to light make up the key with those that are left off.            *)
LEMMA KeyIsWhole ==
    ASSUME NEW w \in Worlds, NEW on, on \subseteq CurrentKey(w), on # {}
    PROVE  on \cup (VisibleMonitors(w) \ on) = CurrentKey(w)
<1>1. w.known # {} BY VisibleFacts
<1>2. CASE VisibleMonitors(w) = {}
  <2>1. CurrentKey(w) = {Panel} BY <1>1, <1>2, VisibleFacts
  <2> QED BY <1>2, <2>1
<1>3. CASE VisibleMonitors(w) # {}
  <2>1. VisibleMonitors(w) = CurrentKey(w) BY <1>3, VisibleFacts
  <2> QED BY <2>1
<1> QED BY <1>2, <1>3

LEMMA TurnType ==
    ASSUME NEW w \in Worlds
    PROVE  /\ TiltTransform(w) \in 0 .. 3 /\ PanelTurn(w) \in 0 .. 3
           /\ \A t \in 0 .. 3 : CrtcToLogical(t, PanelTransform) \in 0 .. 3
<1>1. TiltTransform(w) \in 0 .. 3
  <2>1. w.tilt = NoTilt \/ w.tilt \in 0 .. 3 BY WorldFacts, TransformAssumption
  <2> QED BY <2>1 DEF TiltTransform
<1>2. ASSUME NEW t \in 0 .. 3 PROVE CrtcToLogical(t, PanelTransform) \in 0 .. 3
  <2>1. Invert(PanelTransform) \in 0 .. 3 BY TransformAssumption DEF Invert
  <2>2. ASSUME NEW u \in 0 .. 3 PROVE Compose(t, u) \in 0 .. 3
    BY DEF Compose, Flip, Flipped
  <2> QED BY <2>1, <2>2 DEF CrtcToLogical
<1> QED BY <1>1, <1>2 DEF PanelTurn

(* gf_monitors_config_new                                                     *)
LEMMA NewFits ==
    ASSUME asked \in Configs, before \in Configs,
           NEW w \in Worlds, Kept(w),
           NEW on, on \subseteq CurrentKey(w), on # {},
           NEW primary \in Monitors
    PROVE  LET c == NewConfig(w, on, primary)
           IN Fits(w, c) /\ Exists(c) /\ c.usable /\ c.on = on
<1> DEFINE c == NewConfig(w, on, primary)
<1>1. FreshRoot(w) \in Roots /\ FreshRoot(w) # 0 BY FreshRootType DEF Kept
<1>2. on \in SUBSET Monitors /\ on \subseteq w.known /\ VisibleMonitors(w) \ on \in SUBSET Monitors
  BY VisibleFacts
<1>3. c \in Configs
  <2>1. PanelTurn(w) \in 0 .. 3 BY TurnType
  <2> QED BY <1>1, <1>2, <2>1 DEF NewConfig, Configs
<1>4. KeyOf(c) = CurrentKey(w) BY KeyIsWhole DEF KeyOf, NewConfig
<1>5. Exists(c) /\ c.usable /\ c.on = on BY <1>1 DEF Exists, NewConfig
<1>6. Fits(w, c)
  <2> HIDE DEF c
  <2> QED BY <1>2, <1>3, <1>4, <1>5 DEF Fits
<1> QED BY <1>5, <1>6

(* create_for_builtin_display_rotation                                        *)
LEMMA RotatedFits ==
    ASSUME NEW w \in Worlds, NEW c \in Configs, NEW t \in 0 .. 3,
           Exists(c), Exists(Rotated(w, c, t))
    PROVE  /\ Rotated(w, c, t) \in Configs /\ Rotated(w, c, t).on = c.on
           /\ c.on # {} /\ Panel \in w.known
           /\ Rotated(w, c, t).usable = c.usable
           /\ c.on \subseteq CurrentKey(w) => Fits(w, Rotated(w, c, t))
<1> DEFINE turn == CrtcToLogical(t, PanelTransform)
           r == [c EXCEPT !.turn = turn, !.off = VisibleMonitors(w) \ c.on]
<1>1. Rotated(w, c, t) = r /\ Panel \in c.on \cap w.known
  BY ConfigType DEF Rotated
<1>2. turn \in 0 .. 3 BY TurnType
<1>3. VisibleMonitors(w) \ c.on \in SUBSET Monitors BY VisibleFacts
<1>4. r \in Configs /\ r.on = c.on /\ r.off = VisibleMonitors(w) \ c.on /\ r.usable = c.usable
  BY <1>2, <1>3 DEF Configs
<1>5. ASSUME c.on \subseteq CurrentKey(w) PROVE Fits(w, r)
  <2>1. KeyOf(r) = CurrentKey(w) BY <1>1, <1>4, <1>5, KeyIsWhole DEF KeyOf
  <2>2. c.on \subseteq w.known BY <1>5, VisibleFacts
  <2> HIDE DEF r
  <2> QED BY <1>1, <1>4, <2>1, <2>2 DEF Fits
<1> HIDE DEF r
<1> QED BY <1>1, <1>4, <1>5

(* gf_monitor_config_manager_create_for_builtin_orientation                   *)
LEMMA OrientedFits ==
    ASSUME NEW w \in Worlds, NEW c \in Configs, Exists(c) => c.on # {}
    PROVE  /\ Oriented(w, c) \in Configs /\ OrientedOrSame(w, c) \in Configs
           /\ Exists(Oriented(w, c)) => Oriented(w, c).on = c.on /\ c.on # {}
           /\ Exists(OrientedOrSame(w, c)) => OrientedOrSame(w, c).on = c.on /\ c.on # {}
           /\ Exists(c) /\ KeyOf(c) = CurrentKey(w) => Fits(w, OrientedOrSame(w, c))
<1>1. PanelTurn(w) \in 0 .. 3 BY TurnType
<1>2. CASE Exists(Oriented(w, c))
  <2>1. Exists(c) /\ Oriented(w, c) = Rotated(w, c, PanelTurn(w)) BY <1>2, ConfigType DEF Oriented
  <2>2. /\ Oriented(w, c) \in Configs /\ Oriented(w, c).on = c.on /\ c.on # {}
        /\ c.on \subseteq CurrentKey(w) => Fits(w, Oriented(w, c))
    BY <1>1, <1>2, <2>1, RotatedFits
  <2>3. OrientedOrSame(w, c) = Oriented(w, c) BY <1>2 DEF OrientedOrSame
  <2> QED BY <2>2, <2>3 DEF KeyOf
<1>3. CASE ~Exists(Oriented(w, c))
  <2>1. OrientedOrSame(w, c) = c BY <1>3 DEF OrientedOrSame
  <2>2. Oriented(w, c) \in Configs
    <3>1. Oriented(w, c) = NoConfig \/ (Oriented(w, c) = Rotated(w, c, PanelTurn(w)) /\ Exists(c))
      BY DEF Oriented
    <3>2. Rotated(w, c, PanelTurn(w)) = NoConfig \/ Rotated(w, c, PanelTurn(w)).root = c.root
      BY DEF Rotated, Configs
    <3> QED BY <1>3, <3>1, <3>2, ConfigType DEF Exists
  <2>3. ASSUME Exists(c), KeyOf(c) = CurrentKey(w) PROVE Fits(w, c)
    <3>1. c.on \subseteq w.known BY <2>3, VisibleFacts DEF KeyOf
    <3> QED BY <2>3, <3>1 DEF Fits
  <2> QED BY <1>3, <2>1, <2>2, <2>3
<1> QED BY <1>2, <1>3

(* ------------------------------------------------- ensure_configured ------ *)
LEMMA PrimaryFacts ==
    ASSUME NEW w \in Worlds
    PROVE  /\ \A S \in SUBSET Monitors :
                FindPrimary(w, S) \in S \/ (FindPrimary(w, S) = NoMonitor /\ S = {})
           /\ FindPrimaryOrAny(w) \in CurrentKey(w) \/ (FindPrimaryOrAny(w) = NoMonitor /\ w.known = {})
<1>1. ASSUME NEW S \in SUBSET Monitors
      PROVE  FindPrimary(w, S) \in S \/ (FindPrimary(w, S) = NoMonitor /\ S = {})
  <2>1. S # {} => Largest(S) \in S BY LargestOf
  <2> QED BY <2>1 DEF FindPrimary
<1>2. FindPrimaryOrAny(w) \in CurrentKey(w) \/ (FindPrimaryOrAny(w) = NoMonitor /\ w.known = {})
  <2>1. VisibleMonitors(w) \in SUBSET Monitors /\ w.known \in SUBSET Monitors
    BY VisibleFacts, WorldFacts
  <2>2. CASE VisibleMonitors(w) = {} /\ w.known # {}
    <3>1. FindPrimaryOrAny(w) \in w.known BY <2>1, <2>2, LargestOf DEF FindPrimaryOrAny
    <3>2. CurrentKey(w) = w.known BY <2>2 DEF CurrentKey
    <3> QED BY <3>1, <3>2
  <2>3. CASE ~(VisibleMonitors(w) = {} /\ w.known # {})
    <3>1. FindPrimaryOrAny(w) = FindPrimary(w, VisibleMonitors(w)) BY <2>3 DEF FindPrimaryOrAny
    <3>2. \/ FindPrimary(w, VisibleMonitors(w)) \in VisibleMonitors(w)
          \/ FindPrimary(w, VisibleMonitors(w)) = NoMonitor /\ VisibleMonitors(w) = {}
      BY <1>1, <2>1
    <3> QED BY <2>3, <3>1, <3>2, VisibleFacts
  <2> QED BY <2>2, <2>3
<1> QED BY <1>1, <1>2

(* Whatever way a configuration is found, it fits what is connected.          *)
LEMMA CandidatesFit ==
    ASSUME asked \in Configs, before \in Configs, NEW w \in Worlds, Kept(w)
    PROVE  \A i \in 1 .. 6 : Fits(w, Candidates(w)[i])
<1> DEFINE key == CurrentKey(w)
           stored == IF UseStored(w) /\ w.known # {} THEN OrientedOrSame(w, w.store[key]) ELSE NoConfig
           oriented == Oriented(w, w.current)
           previous == IF w.history = <<>> THEN NoConfig ELSE OrientedOrSame(w, Head(w.history))
           IfComplete(c) == IF IsConfigComplete(w, c) THEN c ELSE NoConfig
<1>1. Fits(w, NoConfig) BY ConfigType DEF Fits
<1>2. Fits(w, stored)
  <2>1. key \in SUBSET Monitors BY VisibleFacts
  <2>2. /\ w.store[key] \in Configs
        /\ Exists(w.store[key]) => w.store[key].on # {} /\ KeyOf(w.store[key]) = key
    BY <2>1, WorldFacts DEF Kept
  <2> DEFINE c == w.store[key]
  <2> HIDE DEF c, key
  <2>3. CASE Exists(c)
    <3>1. Fits(w, OrientedOrSame(w, c)) BY <2>2, <2>3, OrientedFits DEF c, key
    <3> QED BY <1>1, <3>1 DEF c
  <2>4. CASE ~Exists(c)
    <3>1. ~Exists(Oriented(w, c)) BY <2>4, ConfigType DEF Oriented
    <3>2. OrientedOrSame(w, c) = c BY <3>1 DEF OrientedOrSame
    <3>3. Fits(w, c) BY <2>2, <2>4 DEF Fits, c
    <3> QED BY <1>1, <3>2, <3>3 DEF c
  <2> QED BY <2>3, <2>4
<1>3. ASSUME NEW c \in Configs, Exists(c) => c.on # {} PROVE Fits(w, IfComplete(c))
  <2>1. IsConfigComplete(w, c) => c.on \subseteq w.known /\ KeyOf(c) = CurrentKey(w)
    BY DEF IsConfigComplete, IsConfigApplicable
  <2> QED BY <1>1, <1>3, <2>1 DEF Fits
<1>4. Fits(w, IfComplete(oriented))
  <2>1. w.current \in Configs /\ (Exists(w.current) => w.current.on # {}) BY WorldFacts DEF Kept
  <2>2. oriented \in Configs /\ (Exists(oriented) => oriented.on # {}) BY <2>1, OrientedFits
  <2> HIDE DEF oriented, IfComplete
  <2> QED BY <1>3, <2>2
<1>5. Fits(w, IfComplete(previous))
  <2>1. CASE w.history = <<>>
    <3> HIDE DEF IfComplete
    <3> QED BY <1>3, <2>1, ConfigType
  <2>2. CASE w.history # <<>>
    <3>1. 1 \in DOMAIN w.history /\ Head(w.history) = w.history[1] /\ w.history[1] \in Configs
      <4>1. w.history \in Seq(Configs) BY WorldFacts
      <4> QED BY <2>2, <4>1
    <3>2. Exists(w.history[1]) => w.history[1].on # {} BY <3>1 DEF Kept
    <3>3. previous = OrientedOrSame(w, w.history[1]) BY <2>2, <3>1
    <3>4. previous \in Configs /\ (Exists(previous) => previous.on # {}) BY <3>1, <3>2, <3>3, OrientedFits
    <3> HIDE DEF previous, IfComplete
    <3> QED BY <1>3, <3>4
  <2> QED BY <2>1, <2>2
<1>6. Fits(w, CreateSuggested(w))
  <2> DEFINE S == VisibleMonitors(w) \cap Virtual
             p == FindPrimary(w, S)
  <2>1. S \in SUBSET Monitors BY VisibleFacts
  <2>2. p \in S \/ (p = NoMonitor /\ S = {})
    <3> HIDE DEF S
    <3> QED BY <2>1, PrimaryFacts
  <2>3. CASE p = NoMonitor BY <1>1, <2>3 DEF CreateSuggested
  <2>4. CASE p # NoMonitor
    <3>1. p \in VisibleMonitors(w) /\ p \in Monitors BY <2>2, <2>4, VisibleFacts
    <3>2. w.known \cap Virtual \subseteq VisibleMonitors(w) BY VisibleFacts, VirtualAssumption
    <3>3. {p} \cup (w.known \cap Virtual) \subseteq CurrentKey(w) BY <3>1, <3>2, VisibleFacts
    <3> DEFINE on == {p} \cup (w.known \cap Virtual)
    <3>4. CreateSuggested(w) = NewConfig(w, on, p) BY <2>4 DEF CreateSuggested
    <3>5. on # {} OBVIOUS
    <3> HIDE DEF p, on
    <3> QED BY <3>1, <3>3, <3>4, <3>5, NewFits DEF on
  <2> QED BY <2>3, <2>4
<1> DEFINE p == FindPrimaryOrAny(w)
<1>7. p \in CurrentKey(w) \/ (p = NoMonitor /\ w.known = {}) BY PrimaryFacts
<1>8. NoMonitor \notin CurrentKey(w) BY VisibleFacts, NoMonitorAssumption
<1>9. Fits(w, CreateLinear(w))
  <2>1. CASE p = NoMonitor BY <1>1, <2>1 DEF CreateLinear
  <2>2. CASE p # NoMonitor
    <3> DEFINE on == {p} \cup VisibleMonitors(w)
    <3>1. on \subseteq CurrentKey(w) /\ on # {} /\ p \in Monitors BY <1>7, <2>2, VisibleFacts
    <3>2. CreateLinear(w) = NewConfig(w, on, p) BY <2>2 DEF CreateLinear
    <3> HIDE DEF p, on
    <3> QED BY <3>1, <3>2, NewFits
  <2> QED BY <2>1, <2>2
<1>10. Fits(w, CreateFallback(w))
  <2>1. CASE p = NoMonitor BY <1>1, <2>1 DEF CreateFallback
  <2>2. CASE p # NoMonitor
    <3> DEFINE on == {p}
    <3>1. on \subseteq CurrentKey(w) /\ on # {} /\ p \in Monitors BY <1>7, <2>2, VisibleFacts
    <3>2. CreateFallback(w) = NewConfig(w, on, p) BY <2>2 DEF CreateFallback
    <3> HIDE DEF p, on
    <3> QED BY <3>1, <3>2, NewFits
  <2> QED BY <2>1, <2>2
<1>11. Candidates(w) = <<stored, IfComplete(oriented), CreateSuggested(w),
                         IfComplete(previous), CreateLinear(w), CreateFallback(w)>>
  BY DEF Candidates
<1> HIDE DEF stored, oriented, previous, IfComplete
<1> QED BY <1>2, <1>4, <1>5, <1>6, <1>9, <1>10, <1>11

(* One monitor can always be lit.                                             *)
LEMMA FallbackWorks ==
    ASSUME asked \in Configs, before \in Configs, NEW w \in Worlds, Kept(w), w.known # {}
    PROVE  Assignable(Candidates(w)[6])
<1> DEFINE p == FindPrimaryOrAny(w)
           on == {p}
<1>1. p \in CurrentKey(w) BY PrimaryFacts
<1>2. p # NoMonitor /\ p \in Monitors BY <1>1, VisibleFacts, NoMonitorAssumption
<1>3. Candidates(w)[6] = CreateFallback(w) BY DEF Candidates
<1>4. CreateFallback(w) = NewConfig(w, on, p) BY <1>2 DEF CreateFallback
<1>5. Cardinality(on) <= Crtcs
  <2>1. Cardinality({p}) = 1 BY FS_Singleton
  <2> QED BY <2>1, BoundAssumption
<1>6. on \subseteq CurrentKey(w) /\ on # {} BY <1>1
<1> HIDE DEF p, on
<1>7. LET c == NewConfig(w, on, p) IN Exists(c) /\ c.usable /\ c.on = on
  BY <1>2, <1>6, NewFits
<1> QED BY <1>3, <1>4, <1>5, <1>7 DEF Assignable

(* gf_monitor_manager_ensure_configured applies a configuration that fits and *)
(* works, or none when nothing is connected.                                  *)
LEMMA EnsureApplies ==
    ASSUME asked \in Configs, before \in Configs, NEW w \in Worlds, Kept(w)
    PROVE  \E c \in Configs :
             /\ EnsureConfigured(w) = ApplyMonitorsConfig(w, c)
             /\ Fits(w, c)
             /\ Assignable(c) \/ (c = NoConfig /\ w.known = {})
<1> DEFINE cs == Candidates(w)
           working == {i \in 1 .. 6 : Assignable(cs[i])}
           first == CHOOSE i \in working : \A j \in working : i <= j
<1>1. DOMAIN cs = 1 .. 6 BY DEF Candidates
<1>2. EnsureConfigured(w) = ApplyMonitorsConfig(w, IF working = {} THEN NoConfig ELSE cs[first])
  BY <1>1 DEF EnsureConfigured
<1>3. \A i \in 1 .. 6 : Fits(w, cs[i]) BY CandidatesFit
<1> HIDE DEF cs
<1>4. CASE working = {}
  <2>1. w.known = {} BY <1>4, FallbackWorks DEF cs
  <2>2. Fits(w, NoConfig) /\ NoConfig \in Configs BY ConfigType DEF Fits
  <2> QED BY <1>2, <1>4, <2>1, <2>2
<1>5. CASE working # {}
  <2>1. \E i \in working : \A j \in working : i <= j
    <3>1. PICK k \in working : TRUE BY <1>5
    <3>2. working \subseteq 1 .. 6 OBVIOUS
    <3> HIDE DEF working
    <3> QED BY <3>1, <3>2
  <2>2. first \in working BY <2>1
  <2> HIDE DEF first
  <2>3. first \in 1 .. 6 /\ Assignable(cs[first]) BY <2>2
  <2>4. Fits(w, cs[first]) BY <1>3, <2>3
  <2> QED BY <1>2, <1>5, <2>3, <2>4 DEF Fits
<1> QED BY <1>4, <1>5

(* ------------------------------------------------------------ applying ---- *)

(* What only the X server, the lid, the sensor and the dialog change.         *)
Stays(v, w) ==
    /\ v.connected = w.connected /\ v.lid = w.lid /\ v.accel = w.accel /\ v.tilt = w.tilt
    /\ v.init = w.init /\ v.known = w.known /\ v.managed = w.managed /\ v.store = w.store
    /\ v.crashed = w.crashed

LEMMA RebuildDerivedStep ==
    ASSUME NEW w \in Worlds
    PROVE  LET v == RebuildDerived(w)
           IN /\ v \in Worlds /\ Stays(v, w)
              /\ v.lit = w.lit /\ v.believed = w.believed /\ v.configNewer = w.configNewer
              /\ v.foreign = w.foreign /\ v.events = w.events /\ v.missed = w.missed
              /\ v.current = w.current /\ v.history = w.history
              /\ ~w.init => v.placed = w.known \cap w.believed.on /\ v.placedTurn = w.believed.turn
<1>1. w.known \cap w.believed.on \in SUBSET Monitors /\ w.believed.turn \in 0 .. 3
  BY DEF Worlds, Layouts
<1>2. CASE w.init BY <1>1, <1>2 DEF RebuildDerived, Worlds, Stays
<1>3. CASE ~w.init BY <1>1, <1>3 DEF RebuildDerived, Worlds, Stays
<1> QED BY <1>2, <1>3

LEMMA NotifiedStep ==
    ASSUME NEW w \in Worlds
    PROVE  /\ Notified(w) \in Worlds /\ Notified(w).events > 0
           /\ Stays(Notified(w), w)
           /\ Notified(w).lit = w.lit /\ Notified(w).believed = w.believed
           /\ Notified(w).configNewer = w.configNewer /\ Notified(w).foreign = w.foreign
           /\ Notified(w).missed = w.missed /\ Notified(w).current = w.current
           /\ Notified(w).history = w.history
<1>1. w.events \in 0 .. MaxEvents /\ MaxEvents \in Nat \ {0} BY WorldFacts, BoundAssumption
<1> DEFINE e == IF w.events = MaxEvents THEN w.events ELSE w.events + 1
<1>2. e \in 0 .. MaxEvents /\ e > 0 BY <1>1
<1>3. Notified(w) = [w EXCEPT !.events = e] BY DEF Notified
<1> HIDE DEF e
<1> QED BY <1>2, <1>3 DEF Worlds, Stays

LEMMA ApplyCrtcStep ==
    ASSUME NEW w \in Worlds, NEW layout \in Layouts
    PROVE  LET v == ApplyCrtcAssignments(w, layout)
           IN /\ v \in Worlds /\ Stays(v, w)
              /\ v.lit = layout /\ v.believed = layout /\ v.configNewer = FALSE
              /\ v.foreign = FALSE /\ v.events > 0
              /\ v.missed = (w.missed \/ (w.configNewer /\ w.known # w.connected))
              /\ v.current = w.current /\ v.history = w.history
<1> DEFINE b == w.missed \/ (w.configNewer /\ w.known # w.connected)
           u == [w EXCEPT !.lit = layout, !.believed = layout,
                          !.configNewer = FALSE, !.foreign = FALSE, !.missed = b]
<1>1. b \in BOOLEAN OBVIOUS
<1>2. u \in Worlds /\ Stays(u, w) /\ u.lit = layout /\ u.believed = layout
      /\ u.configNewer = FALSE /\ u.foreign = FALSE /\ u.missed = b
      /\ u.current = w.current /\ u.history = w.history
  <2> HIDE DEF b
  <2> QED BY <1>1 DEF Worlds, Stays
<1>3. ApplyCrtcAssignments(w, layout) = Notified(u) BY DEF ApplyCrtcAssignments
<1> HIDE DEF u, b
<1>4. /\ Notified(u) \in Worlds /\ Notified(u).events > 0 /\ Stays(Notified(u), u)
      /\ Notified(u).lit = u.lit /\ Notified(u).believed = u.believed
      /\ Notified(u).configNewer = u.configNewer /\ Notified(u).foreign = u.foreign
      /\ Notified(u).missed = u.missed /\ Notified(u).current = u.current
      /\ Notified(u).history = u.history
  BY <1>2, NotifiedStep
<1> QED BY <1>2, <1>3, <1>4 DEF Stays, b

(* gf_monitor_config_manager_set_current: the history does not outgrow its    *)
(* bound, and what goes into it lights something.                             *)
LEMMA SetCurrentStep ==
    ASSUME NEW w \in Worlds, Kept(w), NEW c \in Configs, Exists(c) => c.on # {}
    PROVE  LET v == SetCurrent(w, c)
           IN /\ v \in Worlds /\ Kept(v) /\ Stays(v, w) /\ v.current = c
              /\ v.lit = w.lit /\ v.believed = w.believed /\ v.configNewer = w.configNewer
              /\ v.foreign = w.foreign /\ v.events = w.events /\ v.missed = w.missed
              /\ v.placed = w.placed /\ v.placedTurn = w.placedTurn
<1> DEFINE pushed == <<w.current>> \o w.history
           n == IF Len(pushed) > HistoryMax THEN HistoryMax ELSE Len(pushed)
           good(d) == d \in Configs /\ (Exists(d) => d.on # {})
<1>1. w.history \in Seq(Configs) /\ w.current \in Configs /\ HistoryMax \in Nat
  BY WorldFacts, BoundAssumption
<1>2. pushed \in Seq(Configs) /\ Len(pushed) = Len(w.history) + 1 /\ Len(pushed) \in Nat BY <1>1
<1>3. \A i \in DOMAIN pushed : good(pushed[i])
  <2> SUFFICES ASSUME NEW i \in 1 .. Len(w.history) + 1 PROVE good(pushed[i]) BY <1>2
  <2>1. CASE i = 1
    <3>1. pushed[1] = w.current BY <1>1
    <3> QED BY <1>1, <2>1, <3>1 DEF Kept
  <2>2. CASE i # 1
    <3>1. i - 1 \in 1 .. Len(w.history) BY <1>1, <2>2
    <3>2. pushed[i] = w.history[i - 1] BY <1>1, <2>2
    <3>3. w.history[i - 1] \in Configs /\ i - 1 \in DOMAIN w.history BY <1>1, <3>1
    <3> QED BY <3>2, <3>3 DEF Kept
  <2> QED BY <2>1, <2>2
<1>4. n \in 0 .. HistoryMax /\ n <= Len(pushed) BY <1>1, <1>2
<1> DEFINE h == SubSeq(pushed, 1, n)
<1> HIDE DEF pushed, n
<1>5. h \in Seq(Configs) /\ Len(h) = n /\ \A i \in 1 .. n : h[i] = pushed[i]
  BY <1>1, <1>2, <1>4
<1>6. \A i \in DOMAIN h : good(h[i])
  <2> SUFFICES ASSUME NEW i \in 1 .. n PROVE good(h[i]) BY <1>5
  <2>1. i \in DOMAIN pushed BY <1>2, <1>4
  <2> HIDE DEF h, good
  <2> QED BY <1>3, <1>5, <2>1
<1>7. Len(h) <= HistoryMax BY <1>1, <1>4, <1>5
<1> HIDE DEF h
<1>8. PICK old \in {h, w.history} : SetCurrent(w, c) = [w EXCEPT !.current = c, !.history = old]
  BY DEF SetCurrent, h, n, pushed
<1>9. old \in Seq(Configs) /\ Len(old) <= HistoryMax /\ \A i \in DOMAIN old : Exists(old[i]) => old[i].on # {}
  <2>1. CASE old = h BY <1>5, <1>6, <1>7, <2>1
  <2>2. CASE old = w.history BY <1>1, <2>2 DEF Kept
  <2> QED BY <2>1, <2>2
<1> DEFINE v == [w EXCEPT !.current = c, !.history = old]
<1>10. v \in Worlds /\ Stays(v, w) /\ v.current = c /\ v.history = old
       /\ v.lit = w.lit /\ v.believed = w.believed /\ v.configNewer = w.configNewer
       /\ v.foreign = w.foreign /\ v.events = w.events /\ v.missed = w.missed
       /\ v.placed = w.placed /\ v.placedTurn = w.placedTurn
  BY <1>9 DEF Worlds, Stays
<1> HIDE DEF v
<1>11. Kept(v) BY <1>9, <1>10 DEF Kept, Stays
<1> QED BY <1>8, <1>10, <1>11 DEF v

(* gf_monitor_manager_xrandr_apply_monitors_config with NULL                  *)
LEMMA TurnOffStep ==
    ASSUME NEW w \in Worlds
    PROVE  LET v == TurnOff(w)
           IN /\ v \in Worlds /\ Stays(v, w) /\ v.current = w.current /\ v.history = w.history
              /\ ~v.foreign /\ (w.foreign \/ w.believed = w.lit) => v.believed = v.lit /\ (w.init \/ v.lit.on = {})
              /\ Announced(w) => Announced(v)
              /\ w.missed => v.missed
              /\ ~w.init /\ (w.events = 0 => w.believed = w.lit) => Placed(v)
<1> DEFINE layout == [w.believed EXCEPT !.on = {}, !.turn = 0, !.mirror = FALSE]
           u == ApplyCrtcAssignments(w, layout)
<1>1. layout \in Layouts /\ layout.on = {}
  <2>1. PICK b \in Layouts : b = w.believed BY WorldFacts
  <2> DEFINE a == [b EXCEPT !.on = {}]
             d == [a EXCEPT !.turn = 0]
  <2>2. d \in Layouts /\ d.on = {}
    <3>1. a \in Layouts /\ a.on = {} BY DEF Layouts
    <3> HIDE DEF a
    <3> QED BY <3>1 DEF Layouts
  <2> HIDE DEF d
  <2>3. [d EXCEPT !.mirror = FALSE] \in Layouts /\ [d EXCEPT !.mirror = FALSE].on = {}
    BY <2>2 DEF Layouts
  <2>4. layout = [d EXCEPT !.mirror = FALSE] BY <2>1 DEF d, a
  <2> HIDE DEF layout
  <2> QED BY <2>3, <2>4
<1>2. CASE w.init \/ w.believed.on = {}
  <2>1. TurnOff(w) = RebuildDerived(w) BY <1>2 DEF TurnOff
  <2> DEFINE v == RebuildDerived(w)
  <2>2. /\ v \in Worlds /\ Stays(v, w)
        /\ v.lit = w.lit /\ v.believed = w.believed /\ v.configNewer = w.configNewer
        /\ v.foreign = w.foreign /\ v.events = w.events /\ v.missed = w.missed
        /\ v.current = w.current /\ v.history = w.history
        /\ ~w.init => v.placed = w.known \cap w.believed.on /\ v.placedTurn = w.believed.turn
    BY RebuildDerivedStep
  <2> HIDE DEF v
  <2>3. Announced(w) => Announced(v) BY <2>2 DEF Announced, Stays
  <2>4. ~w.init /\ (w.events = 0 => w.believed = w.lit) => Placed(v) BY <2>2 DEF Placed, Stays
  <2> QED BY <1>2, <2>1, <2>2, <2>3, <2>4 DEF v
<1>3. CASE ~(w.init \/ w.believed.on = {})
  <2>1. TurnOff(w) = RebuildDerived(u) BY <1>3 DEF TurnOff
  <2> HIDE DEF layout
  <2>2. /\ u \in Worlds /\ Stays(u, w)
        /\ u.lit = layout /\ u.believed = layout /\ u.configNewer = FALSE
        /\ u.foreign = FALSE /\ u.events > 0
        /\ u.missed = (w.missed \/ (w.configNewer /\ w.known # w.connected))
        /\ u.current = w.current /\ u.history = w.history
    BY <1>1, ApplyCrtcStep
  <2> HIDE DEF u
  <2> DEFINE v == RebuildDerived(u)
  <2>3. /\ v \in Worlds /\ Stays(v, u)
        /\ v.lit = u.lit /\ v.believed = u.believed /\ v.configNewer = u.configNewer
        /\ v.foreign = u.foreign /\ v.events = u.events /\ v.missed = u.missed
        /\ v.current = u.current /\ v.history = u.history
    BY <2>2, RebuildDerivedStep
  <2> HIDE DEF v
  <2>4. Stays(v, w) BY <2>2, <2>3 DEF Stays
  <2>5. Announced(w) => Announced(v) BY <2>2, <2>3, <2>4 DEF Announced, Stays
  <2>6. Placed(v)
    <3>1. v.events > 0 BY <2>2, <2>3
    <3> QED BY <3>1 DEF Placed
  <2> QED BY <1>1, <1>3, <2>1, <2>2, <2>3, <2>4, <2>5, <2>6 DEF v
<1> QED BY <1>2, <1>3

(* is_assignments_changed                                                     *)
LEMMA SetLayoutStep ==
    ASSUME NEW w \in Worlds, NEW c \in Configs
    PROVE  LET v == SetLayout(w, c)
           IN /\ v \in Worlds /\ Stays(v, w) /\ v.current = w.current /\ v.history = w.history
              /\ ~v.foreign /\ (w.foreign \/ w.believed = w.lit) => v.believed = v.lit /\ v.lit = LayoutOf(c)
              /\ Announced(w) => Announced(v)
              /\ w.missed => v.missed
              /\ ~w.init /\ (w.events = 0 => w.believed = w.lit) => Placed(v)
<1>1. LayoutOf(c) \in Layouts BY ConfigType
<1>2. CASE w.believed # LayoutOf(c)
  <2>1. SetLayout(w, c) = ApplyCrtcAssignments(w, LayoutOf(c)) BY <1>2 DEF SetLayout
  <2> DEFINE v == ApplyCrtcAssignments(w, LayoutOf(c))
  <2>2. /\ v \in Worlds /\ Stays(v, w)
        /\ v.lit = LayoutOf(c) /\ v.believed = LayoutOf(c) /\ v.configNewer = FALSE
        /\ v.foreign = FALSE /\ v.events > 0
        /\ v.missed = (w.missed \/ (w.configNewer /\ w.known # w.connected))
        /\ v.current = w.current /\ v.history = w.history
    BY <1>1, ApplyCrtcStep
  <2> HIDE DEF v
  <2>3. Announced(w) => Announced(v) BY <2>2 DEF Announced, Stays
  <2>4. Placed(v)
    <3>1. v.events > 0 BY <2>2
    <3> QED BY <3>1 DEF Placed
  <2> QED BY <2>1, <2>2, <2>3, <2>4 DEF v
<1>3. CASE w.believed = LayoutOf(c)
  <2>1. SetLayout(w, c) = RebuildDerived(w) BY <1>3 DEF SetLayout
  <2> DEFINE v == RebuildDerived(w)
  <2>2. /\ v \in Worlds /\ Stays(v, w)
        /\ v.lit = w.lit /\ v.believed = w.believed /\ v.configNewer = w.configNewer
        /\ v.foreign = w.foreign /\ v.events = w.events /\ v.missed = w.missed
        /\ v.current = w.current /\ v.history = w.history
        /\ ~w.init => v.placed = w.known \cap w.believed.on /\ v.placedTurn = w.believed.turn
    BY RebuildDerivedStep
  <2> HIDE DEF v
  <2>3. Announced(w) => Announced(v) BY <2>2 DEF Announced, Stays
  <2>4. ~w.init /\ (w.events = 0 => w.believed = w.lit) => Placed(v) BY <2>2 DEF Placed, Stays
  <2> QED BY <1>3, <2>1, <2>2, <2>3, <2>4 DEF v
<1> QED BY <1>2, <1>3

(* gf_monitor_manager_apply_monitors_config, when what is applied works.      *)
LEMMA ApplyStep ==
    ASSUME NEW w \in Worlds, Kept(w), NEW c \in Configs,
           c.on \subseteq w.known, Exists(c) => c.on # {},
           Assignable(c) \/ c = NoConfig
    PROVE  LET v == ApplyMonitorsConfig(w, c)
           IN /\ v \in Worlds /\ Kept(v) /\ Stays(v, w) /\ v.current = c
              /\ LitAsAsked(w) => LitAsAsked(v)
              /\ Announced(w) => Announced(v)
              /\ w.missed => v.missed
              /\ ~w.init /\ (w.events = 0 => w.believed = w.lit) => Placed(v)
<1> DEFINE u == IF Exists(c) THEN SetLayout(w, c) ELSE TurnOff(w)
           v == SetCurrent(u, c)
<1>1. ApplyMonitorsConfig(w, c) = v
  <2>1. CASE Exists(c) BY <2>1, ConfigType DEF ApplyMonitorsConfig
  <2>2. CASE ~Exists(c)
    <3>1. c = NoConfig BY <2>2 DEF Assignable
    <3> QED BY <2>2, <3>1 DEF ApplyMonitorsConfig
  <2> QED BY <2>1, <2>2
<1>2. /\ u \in Worlds /\ Stays(u, w) /\ u.current = w.current /\ u.history = w.history
      /\ Announced(w) => Announced(u)
      /\ w.missed => u.missed
      /\ ~w.init /\ (w.events = 0 => w.believed = w.lit) => Placed(u)
      /\ ~u.foreign /\ (w.foreign \/ w.believed = w.lit) =>
            /\ u.believed = u.lit
            /\ IF Exists(c) THEN u.lit = LayoutOf(c) ELSE w.init \/ u.lit.on = {}
  <2>1. CASE Exists(c) BY <2>1, SetLayoutStep
  <2>2. CASE ~Exists(c) BY <2>2, TurnOffStep
  <2> QED BY <2>1, <2>2
<1> HIDE DEF u
<1>3. Kept(u) BY <1>2 DEF Kept, Stays
<1>4. /\ v \in Worlds /\ Kept(v) /\ Stays(v, u) /\ v.current = c
      /\ v.lit = u.lit /\ v.believed = u.believed /\ v.configNewer = u.configNewer
      /\ v.foreign = u.foreign /\ v.events = u.events /\ v.missed = u.missed
      /\ v.placed = u.placed /\ v.placedTurn = u.placedTurn
  BY <1>2, <1>3, SetCurrentStep
<1> HIDE DEF v
<1>5. Stays(v, w) BY <1>2, <1>4 DEF Stays
<1>6. LitAsAsked(w) => LitAsAsked(v)
  <2>1. LitAsAsked(w) => w.foreign \/ w.believed = w.lit BY DEF LitAsAsked
  <2> QED BY <1>2, <1>4, <1>5, <2>1 DEF LitAsAsked, Stays
<1>7. Announced(u) => Announced(v) BY <1>4 DEF Announced, Stays
<1>8. Placed(u) => Placed(v) BY <1>4 DEF Placed, Stays
<1> QED BY <1>1, <1>2, <1>4, <1>5, <1>6, <1>7, <1>8 DEF v

(* The lit monitors are those the current configuration was made for.         *)
LEMMA EnsureStep ==
    ASSUME asked \in Configs, before \in Configs, NEW w \in Worlds, Kept(w)
    PROVE  LET v == EnsureConfigured(w)
           IN /\ v \in Worlds /\ Kept(v) /\ Stays(v, w) /\ Covers(v)
              /\ w.known # {} => Exists(v.current)
              /\ LitAsAsked(w) => LitAsAsked(v)
              /\ Announced(w) => Announced(v)
              /\ ~w.init /\ (w.events = 0 => w.believed = w.lit) => Placed(v)
<1>1. PICK c \in Configs :
        /\ EnsureConfigured(w) = ApplyMonitorsConfig(w, c)
        /\ Fits(w, c)
        /\ Assignable(c) \/ (c = NoConfig /\ w.known = {})
  BY EnsureApplies
<1>2. c.on \subseteq w.known /\ (Exists(c) => c.on # {} /\ KeyOf(c) = CurrentKey(w))
      /\ (Exists(c) \/ w.known = {})
  BY <1>1, ConfigType DEF Fits, Assignable
<1> DEFINE v == ApplyMonitorsConfig(w, c)
<1>3. /\ v \in Worlds /\ Kept(v) /\ Stays(v, w) /\ v.current = c
      /\ LitAsAsked(w) => LitAsAsked(v)
      /\ Announced(w) => Announced(v)
      /\ ~w.init /\ (w.events = 0 => w.believed = w.lit) => Placed(v)
  BY <1>1, <1>2, ApplyStep
<1> HIDE DEF v
<1>4. Covers(v)
  <2>1. CurrentKey(v) = CurrentKey(w) BY <1>3 DEF CurrentKey, VisibleMonitors, Stays
  <2> QED BY <1>2, <1>3, <2>1 DEF Covers, Stays
<1> QED BY <1>1, <1>2, <1>3, <1>4 DEF v

(* ---------------------------------------------- reading, the sensor ------- *)

(* The sensor is not looked at, nor is which monitors have a mode.            *)
Alike(v, w) ==
    /\ v.connected = w.connected /\ v.lit = w.lit /\ v.configNewer = w.configNewer
    /\ v.foreign = w.foreign /\ v.events = w.events /\ v.lid = w.lid /\ v.init = w.init
    /\ v.known = w.known /\ v.believed = w.believed /\ v.placed = w.placed
    /\ v.placedTurn = w.placedTurn /\ v.current = w.current /\ v.history = w.history
    /\ v.store = w.store /\ v.missed = w.missed

LEMMA AlikeIsSound ==
    ASSUME NEW w \in Worlds, NEW v \in Worlds, Sound(w), Alike(v, w),
           v.crashed \in {"missing monitor", "no logical monitor", w.crashed}
    PROVE  Sound(v)
<1>1. Kept(v) BY DEF Sound, Alike, Kept
<1>2. LitAsAsked(v) /\ ~v.init BY DEF Sound, Alike, LitAsAsked
<1>3. Announced(w) => Announced(v) BY DEF Alike, Announced
<1>4. Placed(w) => Placed(v) BY DEF Alike, Placed
<1>5. Covers(w) => Covers(v) BY DEF Alike, Covers, CurrentKey, VisibleMonitors
<1> QED BY <1>1, <1>2, <1>3, <1>4, <1>5 DEF Sound, Alike

LEMMA EnsureIsSound ==
    ASSUME asked \in Configs, before \in Configs,
           NEW w \in Worlds, Kept(w), LitAsAsked(w), ~w.init,
           Announced(w), w.events = 0 => w.believed = w.lit
    PROVE  Sound(EnsureConfigured(w))
<1> DEFINE v == EnsureConfigured(w)
<1>1. v \in Worlds /\ Kept(v) /\ Stays(v, w) /\ Covers(v) /\ LitAsAsked(v) /\ Announced(v) /\ Placed(v)
  BY EnsureStep
<1> HIDE DEF v
<1> QED BY <1>1 DEF Sound, Stays, v

LEMMA CrashedType ==
    ASSUME NEW w \in Worlds, NEW reason \in {"missing monitor", "no logical monitor"}
    PROVE  /\ [w EXCEPT !.crashed = reason] \in Worlds
           /\ Alike([w EXCEPT !.crashed = reason], w)
           /\ [w EXCEPT !.crashed = reason].crashed = reason
BY DEF Worlds, Alike

(* handle_orientation_change                                                  *)
LEMMA HandleOrientationStep ==
    ASSUME NEW w \in Worlds, Sound(w), w.crashed = "no"
    PROVE  Sound(HandleOrientation(w))
<1> DEFINE c == Rotated(w, w.current, TiltTransform(w))
           turn == CrtcToLogical(TiltTransform(w), PanelTransform)
<1>1. CASE Panel \notin w.active BY <1>1 DEF HandleOrientation
<1>2. CASE Panel \in w.active /\ Panel \notin w.placed
  <2>1. HandleOrientation(w) = [w EXCEPT !.crashed = "no logical monitor"]
    BY <1>2 DEF HandleOrientation
  <2> QED BY <2>1, CrashedType, AlikeIsSound
<1>3. CASE /\ Panel \in w.active /\ Panel \in w.placed
           /\ w.placedTurn = turn \/ ~Exists(w.current) \/ ~Exists(c)
  BY <1>3 DEF HandleOrientation
<1>4. CASE /\ Panel \in w.active /\ Panel \in w.placed
           /\ ~(w.placedTurn = turn \/ ~Exists(w.current) \/ ~Exists(c))
  <2>1. HandleOrientation(w) = ApplyMonitorsConfig(w, c) BY <1>4 DEF HandleOrientation
  <2>2. /\ c \in Configs /\ Exists(c) /\ c.on = w.current.on /\ c.on # {}
        /\ w.current.on \subseteq CurrentKey(w) => Fits(w, c)
    <3>1. w.current \in Configs /\ TiltTransform(w) \in 0 .. 3 BY WorldFacts, TurnType
    <3> QED BY <1>4, <3>1, RotatedFits
  <2> HIDE DEF c
  <2>3. CASE ~(c.on \subseteq w.known)
    <3>1. ApplyMonitorsConfig(w, c) = [w EXCEPT !.crashed = "missing monitor"]
      BY <2>3 DEF ApplyMonitorsConfig
    <3> QED BY <2>1, <3>1, CrashedType, AlikeIsSound
  <2>4. CASE c.on \subseteq w.known /\ ~Assignable(c)
    <3>1. ApplyMonitorsConfig(w, c) = w BY <2>2, <2>4 DEF ApplyMonitorsConfig
    <3> QED BY <2>1, <3>1
  <2>5. CASE c.on \subseteq w.known /\ Assignable(c)
    <3> DEFINE v == ApplyMonitorsConfig(w, c)
    <3>1. /\ v \in Worlds /\ Kept(v) /\ Stays(v, w) /\ v.current = c
          /\ LitAsAsked(w) => LitAsAsked(v)
          /\ Announced(w) => Announced(v)
          /\ w.missed => v.missed
          /\ ~w.init /\ (w.events = 0 => w.believed = w.lit) => Placed(v)
      BY <2>2, <2>5, ApplyStep DEF Sound
    <3> HIDE DEF v
    <3>2. LitAsAsked(v) /\ Announced(v) /\ Placed(v) BY <3>1 DEF Sound, Placed
    <3>3. ASSUME ~v.missed PROVE Covers(v)
      <4>1. Covers(w) BY <3>1, <3>3 DEF Sound
      <4>2. KeyOf(w.current) = CurrentKey(w) BY <1>4, <4>1 DEF Covers
      <4>3. Fits(w, c) BY <2>2, <4>2 DEF KeyOf
      <4>4. CurrentKey(v) = CurrentKey(w) BY <3>1 DEF CurrentKey, VisibleMonitors, Stays
      <4> QED BY <2>2, <3>1, <4>3, <4>4 DEF Covers, Fits
    <3> QED BY <2>1, <3>1, <3>2, <3>3 DEF Sound, Stays, v
  <2> QED BY <2>3, <2>4, <2>5
<1> QED BY <1>1, <1>2, <1>3, <1>4

LEMMA ManagedType ==
    ASSUME NEW w \in Worlds, NEW b \in BOOLEAN
    PROVE  [w EXCEPT !.managed = b] \in Worlds /\ Alike([w EXCEPT !.managed = b], w)
           /\ [w EXCEPT !.managed = b].crashed = w.crashed
BY DEF Worlds, Alike

(* update_panel_orientation_managed                                           *)
LEMMA UpdateManagedStep ==
    ASSUME NEW w \in Worlds, Sound(w), w.crashed = "no"
    PROVE  Sound(UpdateManaged(w))
<1> DEFINE m == w.accel /\ Panel \in w.known
           u == [w EXCEPT !.managed = m]
<1>1. m \in BOOLEAN BY DEF Worlds
<1> HIDE DEF m
<1>2. u \in Worlds /\ Alike(u, w) /\ u.crashed = "no" BY <1>1, ManagedType
<1>3. Sound(u) BY <1>2, AlikeIsSound
<1>4. UpdateManaged(w) = IF m /\ ~w.managed THEN HandleOrientation(u) ELSE u
  BY DEF UpdateManaged, m
<1> HIDE DEF u
<1> QED BY <1>2, <1>3, <1>4, HandleOrientationStep

(* gf_monitor_manager_read_current_state: no monitor has a logical monitor    *)
(* yet, so the panel is either off or the end of the program.                 *)
LEMMA ReadStep ==
    ASSUME NEW w \in Worlds
    PROVE  LET v == ReadCurrentState(w)
           IN /\ v \in Worlds
              /\ v.known = w.connected /\ v.believed = w.lit
              /\ v.connected = w.connected /\ v.lit = w.lit /\ v.lid = w.lid
              /\ v.configNewer = w.configNewer /\ v.foreign = w.foreign
              /\ v.events = w.events /\ v.accel = w.accel /\ v.init = w.init
              /\ v.current = w.current /\ v.history = w.history
              /\ v.store = w.store /\ v.missed = w.missed
              /\ v.crashed \in {w.crashed, "no logical monitor"}
              /\ ~w.accel => v.crashed = w.crashed
<1> DEFINE u == [w EXCEPT !.known = w.connected, !.believed = w.lit,
                          !.active = w.connected \cap w.lit.on, !.placed = {}]
           Read(v) == /\ v \in Worlds
              /\ v.known = w.connected /\ v.believed = w.lit /\ v.placed = {}
              /\ v.connected = w.connected /\ v.lit = w.lit /\ v.lid = w.lid
              /\ v.configNewer = w.configNewer /\ v.foreign = w.foreign
              /\ v.events = w.events /\ v.accel = w.accel /\ v.init = w.init
              /\ v.current = w.current /\ v.history = w.history
              /\ v.store = w.store /\ v.missed = w.missed
<1>1. Read(u) /\ u.crashed = w.crashed
  <2>1. w.connected \in SUBSET Monitors /\ w.lit \in Layouts /\ w.connected \cap w.lit.on \in SUBSET Monitors
    BY WorldFacts
  <2>2. {} \in SUBSET Monitors OBVIOUS
  <2> QED BY <2>1, <2>2 DEF Worlds
<1>2. ReadCurrentState(w) = UpdateManaged(u) BY DEF ReadCurrentState
<1> HIDE DEF u
<1> DEFINE m == u.accel /\ Panel \in u.known
           v == [u EXCEPT !.managed = m]
<1>3. m \in BOOLEAN BY <1>1 DEF Worlds
<1>4. Read(v) /\ v.crashed = w.crashed
  <2> HIDE DEF m
  <2> QED BY <1>1, <1>3 DEF Worlds
<1>5. UpdateManaged(u) = IF m /\ ~u.managed THEN HandleOrientation(v) ELSE v BY DEF UpdateManaged
<1>6. ~w.accel => UpdateManaged(u) = v BY <1>1, <1>5
<1> HIDE DEF v, m
<1>7. HandleOrientation(v) \in {v, [v EXCEPT !.crashed = "no logical monitor"]}
  BY <1>4 DEF HandleOrientation
<1> DEFINE x == [v EXCEPT !.crashed = "no logical monitor"]
<1>8. Read(x) /\ x.crashed = "no logical monitor" BY <1>4 DEF Worlds
<1> HIDE DEF x
<1>9. UpdateManaged(u) \in {v, x} BY <1>5, <1>7 DEF x
<1> QED BY <1>2, <1>4, <1>6, <1>8, <1>9

(* gf_monitor_manager_xrandr_handle_xevent                                    *)
LEMMA HandleXeventStep ==
    ASSUME asked \in Configs, before \in Configs,
           NEW w \in Worlds, Sound(w), w.crashed = "no", w.events > 0
    PROVE  Sound(HandleXevent(w))
<1> DEFINE a == [w EXCEPT !.events = w.events - 1]
           r == ReadCurrentState(a)
<1>1. /\ a \in Worlds /\ a.connected = w.connected /\ a.lit = w.lit /\ a.lid = w.lid
      /\ a.configNewer = w.configNewer /\ a.foreign = w.foreign /\ a.init = w.init
      /\ a.current = w.current /\ a.history = w.history /\ a.store = w.store
      /\ a.missed = w.missed /\ a.crashed = w.crashed
  <2>1. w.events \in 0 .. MaxEvents /\ MaxEvents \in Nat BY WorldFacts, BoundAssumption
  <2>2. w.events - 1 \in 0 .. MaxEvents BY <2>1
  <2> QED BY <2>2 DEF Worlds
<1> HIDE DEF a
<1>2. /\ r \in Worlds /\ r.known = w.connected /\ r.believed = w.lit
      /\ r.connected = w.connected /\ r.lit = w.lit /\ r.lid = w.lid
      /\ r.configNewer = w.configNewer /\ r.foreign = w.foreign /\ r.init = w.init
      /\ r.current = w.current /\ r.history = w.history /\ r.store = w.store
      /\ r.missed = w.missed /\ r.crashed \in {"no", "no logical monitor"}
  BY <1>1, ReadStep
<1>3. HandleXevent(w) = IF r.crashed # "no" THEN r
                        ELSE IF r.configNewer THEN EnsureConfigured([r EXCEPT !.missed = FALSE])
                        ELSE RebuildDerived(r)
  BY DEF HandleXevent, a
<1> HIDE DEF r
<1>4. Kept(r) BY <1>2 DEF Sound, Kept
<1>5. LitAsAsked(r) /\ ~r.init BY <1>2 DEF Sound, LitAsAsked
<1>6. CASE r.crashed # "no"
  <2>1. Sound(r) BY <1>2, <1>4, <1>5, <1>6 DEF Sound
  <2> QED BY <1>3, <1>6, <2>1
<1>7. CASE r.crashed = "no" /\ r.configNewer
  <2> DEFINE u == [r EXCEPT !.missed = FALSE]
  <2>1. /\ u \in Worlds /\ u.known = r.known /\ u.connected = r.connected
        /\ u.believed = r.believed /\ u.lit = r.lit /\ u.init = r.init /\ u.foreign = r.foreign
        /\ u.current = r.current /\ u.history = r.history /\ u.store = r.store
        /\ u.events = r.events
    BY <1>2 DEF Worlds
  <2> HIDE DEF u
  <2>2. Kept(u) BY <1>4, <2>1 DEF Kept
  <2>3. LitAsAsked(u) /\ ~u.init BY <1>5, <2>1 DEF LitAsAsked
  <2>4. Announced(u) /\ u.believed = u.lit BY <1>2, <2>1 DEF Announced
  <2>5. Sound(EnsureConfigured(u)) BY <2>1, <2>2, <2>3, <2>4, EnsureIsSound
  <2> QED BY <1>3, <1>7, <2>5 DEF u
<1>8. CASE r.crashed = "no" /\ ~r.configNewer
  <2> DEFINE v == RebuildDerived(r)
  <2>1. /\ v \in Worlds /\ Stays(v, r)
        /\ v.lit = r.lit /\ v.believed = r.believed /\ v.configNewer = r.configNewer
        /\ v.foreign = r.foreign /\ v.events = r.events /\ v.missed = r.missed
        /\ v.current = r.current /\ v.history = r.history
        /\ ~r.init => v.placed = r.known \cap r.believed.on /\ v.placedTurn = r.believed.turn
    BY <1>2, RebuildDerivedStep
  <2> HIDE DEF v
  <2>2. Kept(v) BY <1>4, <2>1 DEF Kept, Stays
  <2>3. LitAsAsked(v) /\ ~v.init BY <1>5, <2>1 DEF LitAsAsked, Stays
  <2>4. Announced(v) BY <1>2, <2>1 DEF Announced, Stays
  <2>5. Placed(v) BY <1>2, <1>5, <2>1 DEF Placed, Stays
  <2>6. ASSUME ~v.missed PROVE Covers(v)
    <3>1. ~w.missed /\ Announced(w) /\ Covers(w) BY <1>2, <2>1, <2>6 DEF Sound
    <3>2. w.known = w.connected BY <1>2, <1>8, <3>1 DEF Announced
    <3>3. v.known = w.known /\ v.lid = w.lid /\ v.current = w.current BY <1>2, <2>1, <3>2 DEF Stays
    <3> QED BY <3>1, <3>3 DEF Covers, CurrentKey, VisibleMonitors
  <2>7. Sound(v) BY <2>1, <2>2, <2>3, <2>4, <2>5, <2>6 DEF Sound
  <2> QED BY <1>3, <1>8, <2>7 DEF v
<1> QED BY <1>6, <1>7, <1>8

(* ----------------------------------------------------- the first world ---- *)
LEMMA StoresType ==
    ASSUME NEW store \in Stores
    PROVE  /\ store \in [SUBSET Monitors -> Configs]
           /\ \A k \in SUBSET Monitors :
                Exists(store[k]) => store[k].on # {} /\ KeyOf(store[k]) = k
<1>1. EmptyStore \in [SUBSET Monitors -> Configs] BY ConfigType DEF EmptyStore
<1>2. CASE store = EmptyStore BY <1>1, <1>2, ConfigType DEF EmptyStore
<1>3. CASE store # EmptyStore
  <2>1. PICK m \in Monitors \ {Panel}, usable \in BOOLEAN :
          store = [EmptyStore EXCEPT ![Monitors] =
            [on |-> {m}, off |-> Monitors \ {m}, primary |-> m, turn |-> 0,
             mirror |-> FALSE, usable |-> usable, root |-> 1]]
    BY <1>3 DEF Stores
  <2> DEFINE c == [on |-> {m}, off |-> Monitors \ {m}, primary |-> m, turn |-> 0,
                   mirror |-> FALSE, usable |-> usable, root |-> 1]
  <2>2. 1 \in Roots BY RootsType, BoundAssumption DEF Roots
  <2>3. c \in Configs BY <2>2 DEF Configs
  <2>4. c.on # {} /\ KeyOf(c) = Monitors BY DEF KeyOf
  <2>5. store = [EmptyStore EXCEPT ![Monitors] = c] BY <2>1
  <2> HIDE DEF c
  <2>6. store \in [SUBSET Monitors -> Configs] BY <1>1, <2>3, <2>5
  <2>7. \A k \in SUBSET Monitors : store[k] = IF k = Monitors THEN c ELSE NoConfig
    BY <1>1, <2>5 DEF EmptyStore
  <2> QED BY <2>4, <2>6, <2>7, ConfigType
<1> QED BY <1>2, <1>3

(* gf_monitor_manager_setup                                                   *)
LEMMA SetupIsSound ==
    ASSUME asked \in Configs, before \in Configs,
           NEW connected \in SUBSET Monitors, connected # {}, NEW store \in Stores,
           NEW lit \in Layouts
    PROVE  Sound(Setup(Bare(connected, lit, FALSE, store)))
<1> DEFINE a == Bare(connected, lit, FALSE, store)
           b == ReadCurrentState(a)
           c == EnsureConfigured(b)
           d == ReadCurrentState(c)
           e == [d EXCEPT !.init = FALSE]
           f == RebuildDerived(e)
<1>1. /\ a \in Worlds /\ a.connected = connected /\ a.lit = lit /\ a.init = TRUE
      /\ a.foreign = FALSE /\ a.accel = FALSE /\ a.crashed = "no" /\ a.store = store
      /\ a.current = NoConfig /\ a.history = <<>> /\ a.missed = FALSE
  <2>1. store \in [SUBSET Monitors -> Configs] BY StoresType
  <2>2. <<>> \in Seq(Configs) /\ NoConfig \in Configs BY ConfigType
  <2>3. 0 \in 0 .. MaxEvents BY BoundAssumption
  <2>4. {} \in SUBSET Monitors OBVIOUS
  <2> QED BY <2>1, <2>2, <2>3, <2>4 DEF Bare, Worlds
<1> HIDE DEF a
<1>2. /\ b \in Worlds /\ b.known = connected /\ b.believed = lit
      /\ b.connected = connected /\ b.lit = lit /\ b.foreign = FALSE /\ b.init = TRUE
      /\ b.current = NoConfig /\ b.history = <<>> /\ b.store = store /\ b.accel = FALSE
      /\ b.crashed = "no"
  BY <1>1, ReadStep
<1> HIDE DEF b
<1>3. Kept(b)
  <2>1. Len(b.history) <= HistoryMax /\ DOMAIN b.history = {} BY <1>2, BoundAssumption
  <2>2. b.history = <<>> /\ ~Exists(b.current) BY <1>2, ConfigType
  <2>3. \A k \in SUBSET Monitors :
          Exists(b.store[k]) => b.store[k].on # {} /\ KeyOf(b.store[k]) = k
    BY <1>2, StoresType
  <2> QED BY <2>1, <2>2, <2>3 DEF Kept
<1>4. LitAsAsked(b) BY <1>2, ConfigType DEF LitAsAsked
<1>5. /\ c \in Worlds /\ Kept(c) /\ Stays(c, b) /\ Covers(c) /\ Exists(c.current) /\ LitAsAsked(c)
  BY <1>2, <1>3, <1>4, EnsureStep
<1> HIDE DEF c
<1>6. /\ d \in Worlds /\ d.known = c.connected /\ d.believed = c.lit
      /\ d.connected = c.connected /\ d.lit = c.lit /\ d.lid = c.lid /\ d.foreign = c.foreign
      /\ d.current = c.current /\ d.history = c.history /\ d.store = c.store /\ d.crashed = "no"
  BY <1>2, <1>5, ReadStep DEF Stays
<1> HIDE DEF d
<1>7. /\ e \in Worlds /\ e.known = d.known /\ e.believed = d.believed
      /\ e.connected = d.connected /\ e.lit = d.lit /\ e.lid = d.lid /\ e.foreign = d.foreign
      /\ e.current = d.current /\ e.history = d.history /\ e.store = d.store
      /\ e.crashed = "no" /\ e.init = FALSE
  BY <1>6 DEF Worlds
<1> HIDE DEF e
<1>8. /\ f \in Worlds /\ Stays(f, e) /\ f.lit = e.lit /\ f.believed = e.believed
      /\ f.foreign = e.foreign /\ f.current = e.current /\ f.history = e.history
      /\ f.placed = e.known \cap e.believed.on /\ f.placedTurn = e.believed.turn
  BY <1>7, RebuildDerivedStep
<1> HIDE DEF f
<1>9. Kept(f) BY <1>5, <1>6, <1>7, <1>8 DEF Kept, Stays
<1>10. LitAsAsked(f) /\ ~f.init BY <1>5, <1>6, <1>7, <1>8 DEF LitAsAsked, Stays
<1>11. Announced(f) BY <1>6, <1>7, <1>8 DEF Announced, Stays
<1>12. Placed(f) BY <1>6, <1>7, <1>8 DEF Placed, Stays
<1>13. Covers(f)
  <2>1. c.known = c.connected BY <1>2, <1>5 DEF Stays
  <2>2. f.known = c.known /\ f.lid = c.lid /\ f.current = c.current
    BY <1>6, <1>7, <1>8, <2>1 DEF Stays
  <2> QED BY <1>5, <2>2 DEF Covers, CurrentKey, VisibleMonitors
<1>14. Sound(f) BY <1>8, <1>9, <1>10, <1>11, <1>12, <1>13 DEF Sound
<1> QED BY <1>14 DEF Setup, a, b, c, d, e, f

(* ----------------------------------------------------------- the steps ---- *)
LEMMA HotplugStep ==
    ASSUME Sound(world), Hotplug
    PROVE  Sound(world')
<1>1. PICK S \in SUBSET Monitors :
        world' = Notified([world EXCEPT !.connected = S, !.configNewer = TRUE])
  BY DEF Hotplug
<1> DEFINE u == [world EXCEPT !.connected = S, !.configNewer = TRUE]
           v == Notified(u)
<1>2. /\ u \in Worlds /\ u.lit = world.lit /\ u.believed = world.believed /\ u.configNewer = TRUE
      /\ u.foreign = world.foreign /\ u.lid = world.lid /\ u.init = world.init
      /\ u.known = world.known /\ u.current = world.current /\ u.history = world.history
      /\ u.store = world.store /\ u.missed = world.missed
  BY DEF Sound, Worlds
<1> HIDE DEF u
<1>3. /\ v \in Worlds /\ v.events > 0 /\ Stays(v, u) /\ v.lit = u.lit /\ v.believed = u.believed
      /\ v.configNewer = u.configNewer /\ v.foreign = u.foreign /\ v.missed = u.missed
      /\ v.current = u.current /\ v.history = u.history
  BY <1>2, NotifiedStep
<1> HIDE DEF v
<1>4. Kept(v) BY <1>2, <1>3 DEF Sound, Kept, Stays
<1>5. LitAsAsked(v) /\ ~v.init BY <1>2, <1>3 DEF Sound, LitAsAsked, Stays
<1>6. Announced(v) /\ Placed(v) BY <1>2, <1>3 DEF Announced, Placed
<1>7. Covers(world) => Covers(v)
  BY <1>2, <1>3 DEF Covers, CurrentKey, VisibleMonitors, Stays
<1>8. world.crashed = "no"
  BY DEF Hotplug, Input, Running
<1>9. Sound(v) BY <1>2, <1>3, <1>4, <1>5, <1>6, <1>7, <1>8 DEF Sound
<1> QED BY <1>1, <1>9 DEF u, v

LEMMA OtherClientStep ==
    ASSUME Sound(world), OtherClient
    PROVE  Sound(world')
<1> DEFINE b == world.missed \/ (world.configNewer /\ world.known # world.connected)
<1>1. PICK S \in SUBSET world.connected :
        world' = Notified([world EXCEPT !.lit.on = S, !.configNewer = FALSE,
                                        !.foreign = TRUE, !.missed = b])
  BY DEF OtherClient
<1> DEFINE l == [world.lit EXCEPT !.on = S]
           u == [world EXCEPT !.lit = l, !.configNewer = FALSE, !.foreign = TRUE, !.missed = b]
           v == Notified(u)
<1>2. world' = v BY <1>1
<1>3. world \in Worlds BY DEF Sound
<1>4. l \in Layouts
  <2>1. world.lit \in Layouts /\ S \in SUBSET Monitors BY <1>3, WorldFacts
  <2> QED BY <2>1 DEF Layouts
<1>5. b \in BOOLEAN OBVIOUS
<1> HIDE DEF l, b
<1>6. /\ u \in Worlds /\ u.believed = world.believed /\ u.configNewer = FALSE
      /\ u.foreign = TRUE /\ u.lid = world.lid /\ u.init = world.init
      /\ u.known = world.known /\ u.connected = world.connected /\ u.current = world.current
      /\ u.history = world.history /\ u.store = world.store /\ u.missed = b
  BY <1>3, <1>4, <1>5 DEF Worlds
<1> HIDE DEF u
<1>7. /\ v \in Worlds /\ v.events > 0 /\ Stays(v, u) /\ v.lit = u.lit /\ v.believed = u.believed
      /\ v.configNewer = u.configNewer /\ v.foreign = u.foreign /\ v.missed = u.missed
      /\ v.current = u.current /\ v.history = u.history
  BY <1>6, NotifiedStep
<1> HIDE DEF v
<1>8. Kept(v) BY <1>6, <1>7 DEF Sound, Kept, Stays
<1>9. LitAsAsked(v) /\ ~v.init BY <1>6, <1>7 DEF Sound, LitAsAsked, Stays
<1>10. world.crashed = "no" BY DEF OtherClient, Input, Running
<1>11. Announced(v) /\ Placed(v)
  <2>1. v.known # v.connected => world.known # world.connected BY <1>6, <1>7 DEF Stays
  <2>2. world.known # world.connected => world.configNewer \/ world.missed
    BY <1>10 DEF Sound, Announced
  <2>3. ASSUME world.known # world.connected PROVE v.missed
    <3>1. b BY <2>2, <2>3 DEF b
    <3>2. v.missed = b BY <1>6, <1>7
    <3> QED BY <3>1, <3>2
  <2> QED BY <1>7, <2>1, <2>3 DEF Announced, Placed
<1>12. ~v.missed => Covers(v)
  <2>1. ~v.missed => ~world.missed BY <1>6, <1>7 DEF b
  <2>2. Covers(world) => Covers(v)
    BY <1>6, <1>7 DEF Covers, CurrentKey, VisibleMonitors, Stays
  <2> QED BY <1>10, <2>1, <2>2 DEF Sound
<1>13. Sound(v) BY <1>7, <1>8, <1>9, <1>11, <1>12 DEF Sound
<1> QED BY <1>2, <1>13

LEMMA LidChangedStep ==
    ASSUME asked \in Configs, before \in Configs, Sound(world), LidChanged
    PROVE  Sound(world')
<1> DEFINE u == [world EXCEPT !.lid = ~world.lid]
<1>1. world' = EnsureConfigured(u) BY DEF LidChanged
<1>2. world.crashed = "no" BY DEF LidChanged, Input, Running
<1>3. world \in Worlds /\ (~world.lid) \in BOOLEAN BY DEF Sound
<1>4. /\ u \in Worlds /\ u.believed = world.believed /\ u.configNewer = world.configNewer
      /\ u.foreign = world.foreign /\ u.init = world.init /\ u.lit = world.lit
      /\ u.known = world.known /\ u.connected = world.connected /\ u.current = world.current
      /\ u.history = world.history /\ u.store = world.store /\ u.missed = world.missed
      /\ u.events = world.events
  BY <1>3 DEF Worlds
<1> HIDE DEF u
<1>5. Kept(u) BY <1>4 DEF Sound, Kept
<1>6. LitAsAsked(u) /\ ~u.init BY <1>4 DEF Sound, LitAsAsked
<1>7. Announced(u) BY <1>2, <1>4 DEF Sound, Announced
<1>8. u.events = 0 => u.believed = u.lit BY <1>2, <1>4 DEF Sound, Placed
<1>9. Sound(EnsureConfigured(u)) BY <1>4, <1>5, <1>6, <1>7, <1>8, EnsureIsSound
<1> QED BY <1>1, <1>9

LEMMA OrientationChangedStep ==
    ASSUME NEW w \in Worlds, Sound(w)
    PROVE  Sound(OrientationChanged(w))
BY HandleOrientationStep DEF OrientationChanged

LEMMA SyncStateStep ==
    ASSUME Sound(world), SyncState
    PROVE  Sound(world')
<1>1. PICK accel \in BOOLEAN, tilt \in Tilts \cup {NoTilt}, emit \in BOOLEAN :
        world' = IF emit THEN OrientationChanged(SensorRead(world, accel, tilt))
                 ELSE SensorRead(world, accel, tilt)
  BY DEF SyncState
<1> DEFINE t == IF accel THEN tilt ELSE NoTilt
           u == [world EXCEPT !.accel = accel, !.tilt = t]
           v == SensorRead(world, accel, tilt)
<1>2. world \in Worlds /\ world.crashed = "no" BY DEF Sound, SyncState, Input, Running
<1>3. t \in Tilts \cup {NoTilt} OBVIOUS
<1> HIDE DEF t
<1>4. u \in Worlds /\ Alike(u, world) /\ u.crashed = "no"
  BY <1>2, <1>3 DEF Worlds, Alike
<1>5. v = u \/ v = UpdateManaged(u) BY DEF SensorRead, t
<1> HIDE DEF u, v
<1>6. Sound(u) BY <1>2, <1>4, AlikeIsSound
<1>7. Sound(v) BY <1>4, <1>5, <1>6, UpdateManagedStep
<1>8. Sound(OrientationChanged(v)) BY <1>7, OrientationChangedStep DEF Sound
<1> QED BY <1>1, <1>7, <1>8 DEF v

(* a configuration for the session, without a trial                           *)
LEMMA HandleApplyStep ==
    ASSUME asked \in Configs, before \in Configs, Sound(world),
           NEW c \in Requests(world), IsRequest(c), IsConfigApplicable(world, c),
           world.crashed = "no"
    PROVE  Sound(ApplyMonitorsConfig(world, c))
<1>1. world \in Worlds /\ Kept(world) BY DEF Sound
<1>2. FreshRoot(world) \in Roots /\ FreshRoot(world) # 0 BY <1>1, FreshRootType DEF Kept
<1>3. /\ c.on \in SUBSET world.known /\ c.off = VisibleMonitors(world) \ c.on
      /\ c.root = FreshRoot(world)
  BY DEF Requests
<1>4. c \in Configs
  <2>1. PICK S \in SUBSET world.known, p \in world.known, t \in Tilts \cup {0}, b \in Mirrors :
          c = [on |-> S, off |-> VisibleMonitors(world) \ S, primary |-> p, turn |-> t,
               mirror |-> b, usable |-> TRUE, root |-> FreshRoot(world)]
    BY DEF Requests
  <2>2. S \in SUBSET Monitors /\ p \in Monitors /\ VisibleMonitors(world) \ S \in SUBSET Monitors
    BY <1>1, WorldFacts, VisibleFacts
  <2>3. t \in 0 .. 3 BY TransformAssumption
  <2>4. b \in BOOLEAN BY MirrorsAssumption
  <2> QED BY <1>2, <2>1, <2>2, <2>3, <2>4 DEF Configs
<1>5. c.on # {} /\ Exists(c) BY <1>2, <1>3 DEF IsRequest, Exists
<1>6. CASE ~Assignable(c)
  <2>1. ApplyMonitorsConfig(world, c) = world BY <1>3, <1>5, <1>6 DEF ApplyMonitorsConfig
  <2> QED BY <2>1
<1>7. CASE Assignable(c)
  <2> DEFINE v == ApplyMonitorsConfig(world, c)
  <2>1. /\ v \in Worlds /\ Kept(v) /\ Stays(v, world) /\ v.current = c
        /\ LitAsAsked(world) => LitAsAsked(v)
        /\ Announced(world) => Announced(v)
        /\ world.missed => v.missed
        /\ ~world.init /\ (world.events = 0 => world.believed = world.lit) => Placed(v)
    BY <1>1, <1>3, <1>4, <1>5, <1>7, ApplyStep
  <2> HIDE DEF v
  <2>2. Covers(v)
    <3>1. c.on \subseteq VisibleMonitors(world) BY <1>3 DEF IsConfigApplicable, VisibleMonitors
    <3>2. c.on \subseteq CurrentKey(world) BY <1>1, <3>1, VisibleFacts
    <3>3. KeyOf(c) = CurrentKey(world) BY <1>1, <1>3, <1>5, <3>2, KeyIsWhole DEF KeyOf
    <3>4. CurrentKey(v) = CurrentKey(world) BY <2>1 DEF CurrentKey, VisibleMonitors, Stays
    <3> QED BY <1>5, <2>1, <3>3, <3>4 DEF Covers
  <2>3. LitAsAsked(v) /\ Announced(v) /\ Placed(v) BY <2>1 DEF Sound, Placed
  <2>4. Sound(v) BY <2>1, <2>2, <2>3 DEF Sound, Stays
  <2> QED BY <2>4 DEF v
<1> QED BY <1>6, <1>7

(* No trial, so no timer and no dialog: what decides on one never happens.    *)
LEMMA StepKeepsInv ==
    ASSUME Inv, Next, "persistent" \notin Methods
    PROVE  Inv'
<1>1. /\ Sound(world) /\ world \in Worlds /\ timerId = FALSE /\ timers = 0 /\ dialog = FALSE
      /\ asked \in Configs /\ before \in Configs /\ inputs \in 0 .. MaxInputs
      /\ timerId \in BOOLEAN /\ dialog \in BOOLEAN
  BY DEF Inv, TypeOK, Sound
<1>2. ASSUME Sound(world'), UNCHANGED confirmation, inputs' \in 0 .. MaxInputs PROVE Inv'
  BY <1>1, <1>2 DEF Inv, TypeOK, Sound, confirmation
<1>3. ASSUME NEW kind, Input(kind) PROVE inputs' \in 0 .. MaxInputs
  BY <1>1, <1>3, BoundAssumption DEF Input
<1>4. CASE Hotplug BY <1>1, <1>2, <1>3, <1>4, HotplugStep DEF Hotplug
<1>5. CASE OtherClient BY <1>1, <1>2, <1>3, <1>5, OtherClientStep DEF OtherClient
<1>6. CASE LidChanged BY <1>1, <1>2, <1>3, <1>6, LidChangedStep DEF LidChanged
<1>7. CASE SyncState BY <1>1, <1>2, <1>3, <1>7, SyncStateStep DEF SyncState
<1>8. CASE Unlocked
  <2>1. Sound(world') BY <1>1, <1>8, OrientationChangedStep DEF Unlocked
  <2> QED BY <1>2, <1>3, <1>8, <2>1 DEF Unlocked
<1>9. CASE HandleApply
  <2>1. PICK c \in Requests(world), method \in Methods :
          /\ IsRequest(c) /\ IsConfigApplicable(world, c)
          /\ world' = ApplyMonitorsConfig(world, c)
          /\ IF method = "persistent" /\ Assignable(c)
             THEN /\ timerId' = TRUE
                  /\ timers' = Armed
                  /\ dialog' = TRUE
                  /\ asked' = c
                  /\ before' = world.current
             ELSE /\ timerId' = FALSE
                  /\ timers' = Cancelled
                  /\ Decided
                  /\ UNCHANGED dialog
    BY <1>9 DEF HandleApply
  <2>2. world.crashed = "no" /\ inputs' \in 0 .. MaxInputs
    BY <1>3, <1>9 DEF HandleApply, Input, Running
  <2>3. Sound(world') BY <1>1, <2>1, <2>2, HandleApplyStep
  <2>4. method # "persistent" OBVIOUS
  <2>5. timerId' = FALSE /\ timers' = 0 /\ asked' = NoConfig /\ before' = NoConfig /\ dialog' = FALSE
    BY <1>1, <2>1, <2>4 DEF Cancelled, Decided
  <2> QED BY <2>2, <2>3, <2>5, ConfigType DEF Inv, TypeOK, Sound
<1>10. CASE ScreenChangeNotify
  <2>1. Sound(world')
    BY <1>1, <1>10, HandleXeventStep DEF ScreenChangeNotify, Running
  <2> QED BY <1>1, <1>2, <1>10, <2>1 DEF ScreenChangeNotify
<1>11. CASE SaveConfigTimeout BY <1>1, <1>11 DEF SaveConfigTimeout
<1>12. ASSUME NEW keep \in BOOLEAN, KeepChanges(keep) PROVE Inv'
  BY <1>1, <1>12 DEF KeepChanges
<1> QED BY <1>4, <1>5, <1>6, <1>7, <1>8, <1>9, <1>10, <1>11, <1>12 DEF Next

(* -------------------------------------------------------- the theorem ----- *)

(* What the user sees of an invariant world.                                  *)
LEMMA InvFits ==
    ASSUME Inv
    PROVE  TypeOK /\ CoversMonitors /\ PictureSomewhere /\ ClosedPanelStaysOff /\ PlacedAsLit
<1>1. Sound(world) /\ world \in Worlds BY DEF Inv, Sound
<1>2. Running <=> world.crashed = "no" BY DEF Running
<1>3. TypeOK BY DEF Inv
<1>4. ASSUME Settled PROVE Covers(world) BY <1>1, <1>2, <1>4 DEF Settled, Sound
<1>5. CoversMonitors BY <1>4 DEF CoversMonitors, Covers
<1>6. PictureSomewhere
  <2> SUFFICES ASSUME Settled, ~world.foreign, VisibleMonitors(world) # {}
               PROVE  world.lit.on \cap VisibleMonitors(world) # {}
    BY DEF PictureSomewhere
  <2>1. CurrentKey(world) = VisibleMonitors(world) /\ world.known # {}
    BY <1>1, VisibleFacts
  <2>2. Exists(world.current) /\ KeyOf(world.current) = VisibleMonitors(world)
    BY <1>4, <2>1 DEF Covers
  <2>3. world.current.on # {} BY <1>1, <2>2 DEF Sound, Kept
  <2>4. world.lit = LayoutOf(world.current) BY <1>1, <2>2 DEF Sound, LitAsAsked
  <2>5. world.lit.on = world.current.on BY <2>4 DEF LayoutOf
  <2> QED BY <2>2, <2>3, <2>5 DEF KeyOf
<1>7. ClosedPanelStaysOff
  <2> SUFFICES ASSUME Settled, ~world.foreign, world.lid, Panel \in world.lit.on
               PROVE  world.known = {Panel}
    BY DEF ClosedPanelStaysOff
  <2>1. Exists(world.current)
    <3>1. world.lit.on # {} OBVIOUS
    <3> QED BY <1>1, <3>1 DEF Sound, LitAsAsked
  <2>2. world.lit = LayoutOf(world.current) BY <1>1, <2>1 DEF Sound, LitAsAsked
  <2>3. Panel \in CurrentKey(world)
    <3>1. Panel \in world.current.on BY <2>2 DEF LayoutOf
    <3> QED BY <1>4, <2>1, <3>1 DEF Covers, KeyOf
  <2>4. Panel \notin VisibleMonitors(world) BY DEF VisibleMonitors
  <2>5. VisibleMonitors(world) = {} /\ CurrentKey(world) = world.known
    BY <2>3, <2>4 DEF CurrentKey
  <2>6. world.known # {} BY <2>3, <2>5
  <2> QED BY <1>1, <2>5, <2>6, VisibleFacts
<1>8. PlacedAsLit BY <1>1, <1>2 DEF PlacedAsLit, Sound, Placed
<1> QED BY <1>3, <1>5, <1>6, <1>7, <1>8

(* ConfigurationFits: once everything X reported has been read, the           *)
(* configuration is one for the monitors that are there, a user with a        *)
(* visible monitor sees a picture, a closed panel is off and the logical      *)
(* monitors are those that X lights, whatever order hotplugs, the lid, the    *)
(* sensor, requests and other clients come in (gf_monitor_manager_ensure_     *)
(* configured and gf_monitor_manager_xrandr_handle_xevent). The environment   *)
(* that tries configurations out is not looked at.                            *)
THEOREM ConfigurationsFit ==
    ASSUME "persistent" \notin Methods
    PROVE  BothSpec => []ConfigurationFits
<1> DEFINE Both == environment = "hotplugs" => Inv
<1>1. BothInit => Both
  <2> SUFFICES ASSUME Init PROVE Inv BY DEF BothInit
  <2>1. PICK connected \in (SUBSET Monitors) \ {{}}, store \in Stores :
          world = Setup(Bare(connected, [on |-> connected, primary |-> NoMonitor,
                                         turn |-> 0, mirror |-> FALSE], FALSE, store))
    BY DEF Init
  <2>2. asked = NoConfig /\ before = NoConfig /\ asked \in Configs /\ before \in Configs
    BY ConfigType DEF Init
  <2> DEFINE lit == [on |-> connected, primary |-> NoMonitor, turn |-> 0, mirror |-> FALSE]
  <2>3. lit \in Layouts BY DEF Layouts
  <2>4. Sound(world)
    <3> HIDE DEF lit
    <3>1. connected \in SUBSET Monitors /\ connected # {} /\ store \in Stores OBVIOUS
    <3>2. Sound(Setup(Bare(connected, lit, FALSE, store))) BY ONLY <2>2, <2>3, <3>1, SetupIsSound
    <3> QED BY <2>1, <3>2 DEF lit
  <2>5. inputs \in 0 .. MaxInputs BY BoundAssumption DEF Init
  <2> QED BY <2>2, <2>4, <2>5 DEF Init, Inv, TypeOK, Sound
<1>2. Both /\ [BothNext]_<<vars, environment>> => Both'
  <2> SUFFICES ASSUME Both, [BothNext]_<<vars, environment>>, environment' = "hotplugs" PROVE Inv'
    OBVIOUS
  <2>1. CASE environment = "hotplugs" /\ Next BY <2>1, StepKeepsInv
  <2>2. CASE environment = "trial" /\ UNCHANGED environment BY <2>2
  <2>3. CASE UNCHANGED <<vars, environment>>
    BY <2>3 DEF vars, Inv, TypeOK, Sound, Kept, LitAsAsked, Announced, Placed, Covers,
                CurrentKey, VisibleMonitors
  <2> QED BY <2>1, <2>2, <2>3 DEF BothNext
<1>3. Both => ConfigurationFits BY InvFits DEF ConfigurationFits
<1> QED BY <1>1, <1>2, <1>3, PTL DEF BothSpec
==============================================================================
