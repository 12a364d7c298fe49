--------------------------- MODULE DesktopLemmas ---------------------------
(* The inductive invariants of the automount manager (AutomountInv), for any  *)
(* volumes, restarts of the screensaver and changes of the lock, and of the   *)
(* selected icons (SelectionInv), for any icons and places; DesktopProofs     *)
(* concludes from them. The variables of Automount are saver x1, active x2,     *)
(* proxy x3, proxies x4, calls x5, sessionActive x6, queue x7, idle x8,       *)
(* vol x9, guess x10, dialogs x11, prefs x12, last x13, count x14.            *)
EXTENDS DesktopParts, SequenceTheorems, TLAPS

(* ------------------------------------------- the events of the bus -------- *)
LEMMA EventTypes ==
    ASSUME Mount!BusTypes
    PROVE  /\ x1.events \in Seq(Mount!Events) /\ Len(x1.events) \in Nat
           /\ DOMAIN x1.events = 1 .. Len(x1.events)
           /\ x1.runs \in BOOLEAN /\ x1.active \in BOOLEAN /\ x2 \in BOOLEAN
           /\ x4.made \in Nat /\ x4.making \in Nat /\ x3 \in 0 .. x4.made
<1>1. x1.events \in Seq(Mount!Events) /\ x1.runs \in BOOLEAN /\ x1.active \in BOOLEAN /\ x2 \in BOOLEAN
  BY DEF Mount!BusTypes
<1>2. x4.made \in Nat /\ x4.making \in Nat
  BY DEF Mount!BusTypes
<1>3. x3 \in 0 .. x4.made
  BY <1>2 DEF Mount!BusTypes
<1> QED BY <1>1, <1>2, <1>3

(* The first event is handled: the others move up.                            *)
LEMMA Shifted ==
    ASSUME Mount!BusTypes, x1.events # <<>>, Mount!Handled
    PROVE  /\ x1'.runs = x1.runs /\ x1'.active = x1.active
           /\ x1' \in [runs : BOOLEAN, active : BOOLEAN, events : Seq(Mount!Events)]
           /\ Len(x1.events) \in Nat \ {0} /\ Len(x1'.events) = Len(x1.events) - 1
           /\ DOMAIN x1'.events = 1 .. (Len(x1.events) - 1)
           /\ \A j \in 1 .. (Len(x1.events) - 1) : x1'.events[j] = x1.events[j + 1]
<1>1. x1 \in [runs : BOOLEAN, active : BOOLEAN, events : Seq(Mount!Events)]
  BY DEF Mount!BusTypes
<1>2. x1'.runs = x1.runs /\ x1'.active = x1.active /\ x1'.events = Tail(x1.events)
  BY <1>1 DEF Mount!Handled
<1>3. /\ Tail(x1.events) \in Seq(Mount!Events) /\ Len(Tail(x1.events)) = Len(x1.events) - 1
      /\ \A i \in 1 .. Len(Tail(x1.events)) : Tail(x1.events)[i] = x1.events[i + 1]
  BY <1>1, HeadTailProperties
<1>4. Len(x1.events) \in Nat \ {0}
  BY <1>1, LenProperties, EmptySeq
<1>5. x1' \in [runs : BOOLEAN, active : BOOLEAN, events : Seq(Mount!Events)]
  BY <1>1, <1>3 DEF Mount!Handled
<1>6. DOMAIN x1'.events = 1 .. Len(x1'.events)
  BY <1>5
<1> QED BY <1>2, <1>3, <1>4, <1>5, <1>6

LEMMA BeforeShifted ==
    ASSUME Mount!BusTypes, x1.events # <<>>, Mount!Handled, x3' = x3,
           NEW i \in 2 .. (Len(x1.events) + 1), NEW v \in BOOLEAN, Mount!Before(i, v),
           x2' = (IF Mount!Sets(1) THEN Mount!Value(1) ELSE x2) \/ x2' = v
    PROVE  Mount!Before(i - 1, v)'
<1>1. /\ Len(x1.events) \in Nat \ {0}
      /\ \A j \in 1 .. (Len(x1.events) - 1) : x1'.events[j] = x1.events[j + 1]
  BY Shifted
<1>2. \A j \in 1 .. (Len(x1.events) - 1) : (Mount!Sets(j)' <=> Mount!Sets(j + 1))
      /\ Mount!Value(j)' = Mount!Value(j + 1)
  BY <1>1 DEF Mount!Sets, Mount!Answer, Mount!Value
<1>3. CASE x2 = v /\ \A j \in 1 .. (i - 1) : ~Mount!Sets(j)
  <2>1. x2' = v
    BY <1>3
  <2>2. \A j \in 1 .. (i - 2) : ~Mount!Sets(j)'
    BY <1>1, <1>2, <1>3
  <2> QED BY <2>1, <2>2 DEF Mount!Before
<1>4. ASSUME NEW k \in 1 .. (i - 1), Mount!Sets(k), Mount!Value(k) = v, \A j \in (k + 1) .. (i - 1) : ~Mount!Sets(j)
      PROVE  Mount!Before(i - 1, v)'
  <2>1. \A j \in k .. (i - 2) : ~Mount!Sets(j)'
    BY <1>1, <1>2, <1>4
  <2>2. CASE k = 1
    <3>1. x2' = v
      BY <1>4, <2>2
    <3> QED BY <2>1, <2>2, <3>1 DEF Mount!Before
  <2>3. CASE k # 1
    <3>1. k - 1 \in 1 .. (i - 2) /\ Mount!Sets(k - 1)' /\ Mount!Value(k - 1)' = v
      BY <1>1, <1>2, <1>4, <2>3
    <3> QED BY <2>1, <3>1 DEF Mount!Before
  <2> QED BY <2>2, <2>3
<1> QED BY <1>3, <1>4 DEF Mount!Before

LEMMA OrderShifted ==
    ASSUME Mount!BusTypes, x1.events # <<>>, Mount!Handled, Mount!EventsInOrder, x5' = x5,
           x1.events[1].type = "vanished" => ~x2',
           x1.events[1].type = "reply" /\ ~x1.events[1].ok => x2' = x2
    PROVE  Mount!EventsInOrder'
<1>n. PICK n \in Nat : n = Len(x1.events)
  BY Shifted
<1>1. /\ n \in Nat \ {0} /\ Len(x1'.events) = n - 1 /\ DOMAIN x1'.events = 1 .. (n - 1)
      /\ \A j \in 1 .. (n - 1) : x1'.events[j] = x1.events[j + 1]
      /\ x1'.runs = x1.runs /\ x1'.active = x1.active
  BY <1>n, Shifted
<1>0. DOMAIN x1.events = 1 .. n
  BY <1>n, EventTypes
<1>2. ASSUME NEW i \in 2 .. (n + 1), Mount!Gone(i) PROVE Mount!Gone(i - 1)'
  <2>1. CASE ~x2 /\ \A j \in 1 .. (i - 1) : x1.events[j].type = "reply" /\ ~x1.events[j].ok
    <3>1. x2' = x2
      BY <2>1
    <3>2. \A j \in 1 .. (i - 2) : x1'.events[j].type = "reply" /\ ~x1'.events[j].ok
      <4> TAKE j \in 1 .. (i - 2)
      <4>1. j \in 1 .. (n - 1) /\ j + 1 \in 1 .. (i - 1)
        OBVIOUS
      <4> QED BY <1>1, <2>1, <4>1
    <3> QED BY <2>1, <3>1, <3>2 DEF Mount!Gone
  <2>2. ASSUME NEW k \in 1 .. (i - 1), x1.events[k].type = "vanished",
               \A j \in (k + 1) .. (i - 1) : x1.events[j].type = "reply" /\ ~x1.events[j].ok
        PROVE  Mount!Gone(i - 1)'
    <3>1. \A j \in k .. (i - 2) : x1'.events[j].type = "reply" /\ ~x1'.events[j].ok
      <4> TAKE j \in k .. (i - 2)
      <4>1. j \in 1 .. (n - 1) /\ j + 1 \in (k + 1) .. (i - 1)
        BY <1>1
      <4> QED BY <1>1, <2>2, <4>1
    <3>2. CASE k = 1
      <4>1. ~x2'
        BY <2>2, <3>2
      <4> QED BY <3>1, <3>2, <4>1 DEF Mount!Gone
    <3>3. CASE k # 1
      <4>1. k - 1 \in 1 .. (i - 2) /\ x1'.events[k - 1].type = "vanished"
        BY <1>1, <2>2, <3>3
      <4> QED BY <3>1, <4>1 DEF Mount!Gone
    <3> QED BY <3>2, <3>3
  <2> QED BY <1>2, <2>1, <2>2 DEF Mount!Gone
<1>3. ~x1'.runs => Mount!Gone(Len(x1.events) + 1)' /\ x5' = <<>> /\ ~x1'.active
  <2>1. SUFFICES ASSUME ~x1.runs PROVE Mount!Gone(Len(x1.events) + 1)' /\ x5 = <<>> /\ ~x1.active
    BY <1>1
  <2>2. Mount!Gone(n + 1) /\ x5 = <<>> /\ ~x1.active
    BY <1>n, <2>1 DEF Mount!EventsInOrder
  <2>3. n + 1 \in 2 .. (n + 1) /\ (n + 1) - 1 = n /\ Len(x1'.events) + 1 = n
    BY <1>1
  <2>4. Mount!Gone(n)'
    <3>1. Mount!Gone((n + 1) - 1)'
      BY <1>2, <2>2, <2>3
    <3> QED BY <2>3, <3>1
  <2>5. Mount!Gone(Len(x1.events) + 1)'
    BY <2>3, <2>4 DEF Mount!Gone
  <2> QED BY <2>2, <2>5
<1>4. ASSUME NEW i \in 1 .. (n - 1)
      PROVE  Mount!InOrder(i)'
  <2>1. i + 1 \in 1 .. n /\ i + 1 \in 2 .. (n + 1) /\ (i + 1) - 1 = i /\ x1'.events[i] = x1.events[i + 1]
    BY <1>1
  <2>5. Mount!InOrder(i + 1)
    BY <1>0, <2>1 DEF Mount!EventsInOrder
  <2>2. x1'.events[i].type = "appeared" => Mount!Gone(i)'
    <3>1. x1.events[i + 1].type = "appeared" => Mount!Gone(i + 1)
      BY <2>5 DEF Mount!InOrder
    <3> QED BY <1>2, <2>1, <3>1
  <2>3. ASSUME x1'.events[i].type = "vanished", x1'.runs
        PROVE  \E j \in DOMAIN x1'.events : j > i /\ x1'.events[j].type = "appeared"
    <3>1. PICK j \in 1 .. n : j > i + 1 /\ x1.events[j].type = "appeared"
      BY <1>0, <1>1, <2>1, <2>3, <2>5 DEF Mount!InOrder
    <3>2. j - 1 \in 1 .. (n - 1) /\ j - 1 > i /\ (j - 1) + 1 = j
      BY <3>1
    <3>3. x1'.events[j - 1].type = "appeared"
      BY <1>1, <3>1, <3>2
    <3> QED BY <1>1, <3>2, <3>3
  <2> QED BY <2>2, <2>3 DEF Mount!InOrder
<1> QED BY <1>1, <1>3, <1>4 DEF Mount!EventsInOrder

(* Events are sent: those that wait stay where they are.                      *)
LEMMA BeforeKept ==
    ASSUME NEW n \in Nat, \A j \in 1 .. n : x1'.events[j] = x1.events[j],
           x2' = x2, x3' = x3, NEW i \in 1 .. (n + 1), NEW v \in BOOLEAN, Mount!Before(i, v)
    PROVE  Mount!Before(i, v)'
<1>1. \A j \in 1 .. (i - 1) : j \in 1 .. n
  OBVIOUS
<1>2. \A j \in 1 .. (i - 1) : (Mount!Sets(j)' <=> Mount!Sets(j)) /\ Mount!Value(j)' = Mount!Value(j)
  BY <1>1 DEF Mount!Sets, Mount!Answer, Mount!Value
<1>3. CASE x2 = v /\ \A j \in 1 .. (i - 1) : ~Mount!Sets(j)
  BY <1>2, <1>3 DEF Mount!Before
<1>4. ASSUME NEW k \in 1 .. (i - 1), Mount!Sets(k), Mount!Value(k) = v, \A j \in (k + 1) .. (i - 1) : ~Mount!Sets(j)
      PROVE  Mount!Before(i, v)'
  <2>1. \A j \in (k + 1) .. (i - 1) : ~Mount!Sets(j)'
    <3> TAKE j \in (k + 1) .. (i - 1)
    <3>1. j \in 1 .. (i - 1)
      OBVIOUS
    <3> QED BY <1>2, <1>4, <3>1
  <2> QED BY <1>2, <1>4, <2>1 DEF Mount!Before
<1> QED BY <1>3, <1>4 DEF Mount!Before

LEMMA GoneKept ==
    ASSUME NEW n \in Nat, \A j \in 1 .. n : x1'.events[j] = x1.events[j],
           x2' = x2, NEW i \in 1 .. (n + 1), Mount!Gone(i)
    PROVE  Mount!Gone(i)'
<1>1. \A j \in 1 .. (i - 1) : x1'.events[j] = x1.events[j]
  OBVIOUS
<1>2. CASE ~x2 /\ \A j \in 1 .. (i - 1) : x1.events[j].type = "reply" /\ ~x1.events[j].ok
  <2>1. \A j \in 1 .. (i - 1) : x1'.events[j].type = "reply" /\ ~x1'.events[j].ok
    BY <1>1, <1>2
  <2> QED BY <1>2, <2>1 DEF Mount!Gone
<1>3. ASSUME NEW k \in 1 .. (i - 1), x1.events[k].type = "vanished",
             \A j \in (k + 1) .. (i - 1) : x1.events[j].type = "reply" /\ ~x1.events[j].ok
      PROVE  Mount!Gone(i)'
  <2>1. \A j \in (k + 1) .. (i - 1) : x1'.events[j].type = "reply" /\ ~x1'.events[j].ok
    <3> TAKE j \in (k + 1) .. (i - 1)
    <3>1. j \in 1 .. (i - 1)
      OBVIOUS
    <3> QED BY <1>1, <1>3, <3>1
  <2>2. x1'.events[k].type = "vanished"
    BY <1>1, <1>3
  <2> QED BY <2>1, <2>2 DEF Mount!Gone
<1> QED BY <1>2, <1>3 DEF Mount!Gone

LEMMA OrderKept ==
    ASSUME Mount!BusTypes, Mount!EventsInOrder, x2' = x2, NEW n \in Nat, n = Len(x1.events), NEW m \in Nat,
           DOMAIN x1'.events = 1 .. (n + m), \A j \in 1 .. n : x1'.events[j] = x1.events[j],
           x1'.runs => x1.runs \/ \E j \in (n + 1) .. (n + m) : x1'.events[j].type = "appeared"
    PROVE  \A i \in 1 .. n : Mount!InOrder(i)'
<1>0. DOMAIN x1.events = 1 .. n
  BY EventTypes
<1>n. \A j \in (n + 1) .. (n + m) : j \in DOMAIN x1'.events /\ \A i \in 1 .. n : j > i
  OBVIOUS
<1>o. \A j \in 1 .. n : j \in DOMAIN x1'.events
  OBVIOUS
<1> TAKE i \in 1 .. n
<1>1. Mount!InOrder(i) /\ x1'.events[i] = x1.events[i]
  BY <1>0 DEF Mount!EventsInOrder
<1>2. x1'.events[i].type = "appeared" => Mount!Gone(i)'
  <2>1. x1.events[i].type = "appeared" => Mount!Gone(i)
    BY <1>1 DEF Mount!InOrder
  <2>2. i \in 1 .. (n + 1)
    OBVIOUS
  <2>3. Mount!Gone(i) => Mount!Gone(i)'
    BY <2>2, GoneKept
  <2> QED BY <1>1, <2>1, <2>3
<1>3. ASSUME x1'.events[i].type = "vanished", x1'.runs
      PROVE  \E j \in DOMAIN x1'.events : j > i /\ x1'.events[j].type = "appeared"
  <2>1. CASE x1.runs
    <3>1. PICK j \in 1 .. n : j > i /\ x1.events[j].type = "appeared"
      BY <1>0, <1>1, <1>3, <2>1 DEF Mount!InOrder
    <3> QED BY <1>o, <3>1
  <2>2. CASE ~x1.runs
    BY <1>3, <1>n, <2>2
  <2> QED BY <2>1, <2>2
<1> QED BY <1>2, <1>3 DEF Mount!InOrder

LEMMA TypesShifted ==
    ASSUME Mount!BusTypes, x1.events # <<>>, Mount!Handled, x2' \in BOOLEAN, x5' = x5,
           x4' \in [made : Nat, making : Nat, live : SUBSET Nat], x4'.made = x4.made,
           x4'.live \subseteq x4.live, x3' = 0 \/ x3' \in x4'.live
    PROVE  Mount!BusTypes'
<1>n. PICK n \in Nat : n = Len(x1.events)
  BY Shifted
<1>1. /\ n \in Nat \ {0} /\ DOMAIN x1'.events = 1 .. (n - 1)
      /\ \A j \in 1 .. (n - 1) : x1'.events[j] = x1.events[j + 1]
      /\ x1' \in [runs : BOOLEAN, active : BOOLEAN, events : Seq(Mount!Events)]
  BY <1>n, Shifted
<1>2. \A j \in 1 .. n : x1.events[j].type = "reply" => x1.events[j].by <= x4.made
  BY <1>n, EventTypes DEF Mount!BusTypes
<1>3. \A j \in 1 .. (n - 1) : x1'.events[j].type = "reply" => x1'.events[j].by <= x4'.made
  <2> TAKE j \in 1 .. (n - 1)
  <2>1. j + 1 \in 1 .. n
    BY <1>1
  <2> QED BY <1>1, <1>2, <2>1
<1>4. (\A p \in x4'.live : p \in 1 .. x4'.made) /\ x5' \in Seq(Nat \ {0})
      /\ \A i \in DOMAIN x5' : x5'[i] <= x4'.made
  BY DEF Mount!BusTypes
<1> QED BY <1>1, <1>3, <1>4 DEF Mount!BusTypes

LEMMA FirstShifted ==
    ASSUME Mount!BusTypes, Mount!FirstAnswer, x1.events # <<>>, Mount!Handled, x3' = x3, x5' = x5,
           x4'.made = x4.made, x4.made = 0 => x2' = FALSE,
           x3 # 0 => x2' = (IF Mount!Sets(1) THEN Mount!Value(1) ELSE x2)
    PROVE  Mount!FirstAnswer'
<1>n. PICK n \in Nat : n = Len(x1.events)
  BY Shifted
<1>1. /\ n \in Nat \ {0} /\ DOMAIN x1'.events = 1 .. (n - 1) /\ Len(x1'.events) + 1 = n
      /\ \A j \in 1 .. (n - 1) : x1'.events[j] = x1.events[j + 1]
      /\ x1'.active = x1.active /\ x1'.runs = x1.runs
  BY <1>n, Shifted
<1>0. DOMAIN x1.events = 1 .. n
  BY <1>n, EventTypes
<1>2. ASSUME x4.made <= 1, x3 # 0
      PROVE  /\ \A i \in DOMAIN x1'.events : Mount!Answer(i)' /\ ~x1'.events[i].active => Mount!Before(i, FALSE)'
             /\ x3 \in Mount!Range(x5) /\ ~x1.active => Mount!Before(Len(x1.events) + 1, FALSE)'
  <2>0. x2' = (IF Mount!Sets(1) THEN Mount!Value(1) ELSE x2)
    BY <1>2
  <2>1. ASSUME NEW i \in 1 .. (n - 1), Mount!Answer(i)', ~x1'.events[i].active PROVE Mount!Before(i, FALSE)'
    <3>1. i + 1 \in 2 .. (n + 1) /\ i + 1 \in 1 .. n /\ (i + 1) - 1 = i
      BY <1>1
    <3>2. x1'.events[i] = x1.events[i + 1]
      BY <1>1
    <3>3. Mount!Answer(i + 1) /\ ~x1.events[i + 1].active
      BY <2>1, <3>2 DEF Mount!Answer
    <3>4. Mount!Before(i + 1, FALSE)
      BY <1>0, <1>2, <3>1, <3>3 DEF Mount!FirstAnswer
    <3>5. Mount!Before((i + 1) - 1, FALSE)'
      BY <1>n, <2>0, <3>1, <3>4, BeforeShifted
    <3> QED BY <3>1, <3>5
  <2>2. ASSUME x3 \in Mount!Range(x5), ~x1.active PROVE Mount!Before(Len(x1.events) + 1, FALSE)'
    <3>1. Mount!Before(n + 1, FALSE)
      BY <1>2, <1>n, <2>2 DEF Mount!FirstAnswer
    <3>2. n + 1 \in 2 .. (n + 1) /\ (n + 1) - 1 = n
      BY <1>1
    <3>3. Mount!Before((n + 1) - 1, FALSE)'
      BY <1>n, <2>0, <3>1, <3>2, BeforeShifted
    <3>4. Mount!Before(n, FALSE)'
      BY <3>2, <3>3
    <3> QED BY <1>1, <3>4 DEF Mount!Before
  <2> QED BY <1>1, <2>1, <2>2
<1>3. ASSUME x4.made = 0, x1.runs, ~x1.active PROVE Mount!Before(Len(x1.events) + 1, FALSE)'
  <2>1. Mount!Before(n + 1, FALSE)
    BY <1>3, <1>n DEF Mount!FirstAnswer
  <2>2. n + 1 \in 2 .. (n + 1) /\ (n + 1) - 1 = n
    BY <1>1
  <2>3. Mount!Before((n + 1) - 1, FALSE)'
    BY <1>3, <1>n, <2>1, <2>2, BeforeShifted
  <2>4. Mount!Before(n, FALSE)'
    BY <2>2, <2>3
  <2> QED BY <1>1, <2>4 DEF Mount!Before
<1> QED BY <1>1, <1>2, <1>3 DEF Mount!FirstAnswer

LEMMA LockShifted ==
    ASSUME Mount!BusTypes, Mount!LockIsComing, x1.events # <<>>, Mount!Handled, x3' = x3, x5' = x5,
           x4'.making = x4.making, x1.events[1].type # "appeared",
           x3 # 0 => x2' = (IF Mount!Sets(1) THEN Mount!Value(1) ELSE x2)
    PROVE  Mount!LockIsComing'
<1>n. PICK n \in Nat : n = Len(x1.events)
  BY Shifted
<1>1. /\ n \in Nat \ {0} /\ DOMAIN x1'.events = 1 .. (n - 1) /\ Len(x1'.events) + 1 = n
      /\ \A j \in 1 .. (n - 1) : x1'.events[j] = x1.events[j + 1]
      /\ x1'.active = x1.active /\ x1'.runs = x1.runs
  BY <1>n, Shifted
<1>0. DOMAIN x1.events = 1 .. n /\ x1.active \in BOOLEAN
  BY <1>n, EventTypes
<1>2. ASSUME NEW j \in 1 .. n, x1.events[j].type = "appeared" PROVE Mount!LockIsComing'
  <2>1. j - 1 \in 1 .. (n - 1) /\ (j - 1) + 1 = j
    BY <1>2
  <2>2. x1'.events[j - 1].type = "appeared"
    BY <1>1, <1>2, <2>1
  <2> QED BY <1>1, <2>1, <2>2 DEF Mount!LockIsComing
<1>3. ASSUME x1.runs, x3 # 0, \A i \in 1 .. n : x1.events[i].type # "vanished",
             x3 \in Mount!Range(x5) \/ Mount!Before(n + 1, x1.active)
      PROVE  Mount!LockIsComing'
  <2>1. \A i \in DOMAIN x1'.events : x1'.events[i].type # "vanished"
    <3> SUFFICES ASSUME NEW i \in 1 .. (n - 1) PROVE x1'.events[i].type # "vanished"
      BY <1>1
    <3>1. i + 1 \in 1 .. n
      BY <1>1
    <3> QED BY <1>1, <1>3, <3>1
  <2>2. CASE x3 \in Mount!Range(x5)
    BY <1>3, <2>1, <2>2 DEF Mount!LockIsComing
  <2>3. CASE Mount!Before(n + 1, x1.active)
    <3>1. PICK v \in BOOLEAN : v = x1.active
      BY <1>0
    <3>2. n + 1 \in 2 .. (n + 1) /\ (n + 1) - 1 = n
      BY <1>1
    <3>3. Mount!Before((n + 1) - 1, v)'
      BY <1>3, <1>n, <2>3, <3>1, <3>2, BeforeShifted
    <3>4. Mount!Before(n, v)'
      BY <3>2, <3>3
    <3>5. Mount!Before(Len(x1.events) + 1, x1.active)'
      BY <1>1, <3>1, <3>4 DEF Mount!Before
    <3> QED BY <1>3, <2>1, <3>5 DEF Mount!LockIsComing
  <2> QED BY <1>3, <2>2, <2>3
<1> QED BY <1>0, <1>1, <1>2, <1>3, <1>n DEF Mount!LockIsComing

LEMMA AppearedKeeps == ASSUME Mount!BusInv, Mount!Appeared PROVE Mount!BusInv'
<1>0. Mount!BusTypes /\ Mount!EventsInOrder /\ Mount!LockIsComing /\ Mount!FirstAnswer
  BY DEF Mount!BusInv
<1>1. /\ x1.events # <<>> /\ x1.events[1].type = "appeared" /\ Mount!Handled /\ ~x2' /\ x2' = FALSE
      /\ x3' = x3 /\ x5' = x5 /\ x4' = [x4 EXCEPT !.making = @ + 1]
  BY DEF Mount!Appeared, Mount!Is
<1>2. /\ x4' \in [made : Nat, making : Nat, live : SUBSET Nat] /\ x4'.made = x4.made
      /\ x4'.live = x4.live /\ x4'.making > 0
  <2>1. x4 \in [made : Nat, making : Nat, live : SUBSET Nat]
    BY <1>0 DEF Mount!BusTypes
  <2> QED BY <1>1, <2>1
<1>3. Mount!BusTypes'
  <2>1. x3' = 0 \/ x3' \in x4'.live
    BY <1>0, <1>1, <1>2 DEF Mount!BusTypes
  <2> QED BY <1>0, <1>1, <1>2, <2>1, TypesShifted
<1>4. Mount!EventsInOrder'
  BY <1>0, <1>1, OrderShifted
<1>5. Mount!Sets(1) /\ Mount!Value(1) = FALSE
  BY <1>1 DEF Mount!Sets, Mount!Value
<1>6. Mount!FirstAnswer'
  BY <1>0, <1>1, <1>2, <1>5, FirstShifted
<1> QED BY <1>2, <1>3, <1>4, <1>6 DEF Mount!BusInv, Mount!LockIsComing

LEMMA VanishedKeeps == ASSUME Mount!BusInv, Mount!Vanished PROVE Mount!BusInv'
<1>0. Mount!BusTypes /\ Mount!EventsInOrder /\ Mount!LockIsComing /\ Mount!FirstAnswer
  BY DEF Mount!BusInv
<1>1. /\ x1.events # <<>> /\ x1.events[1].type = "vanished" /\ Mount!Handled /\ ~x2' /\ x2' = FALSE
      /\ x3' = 0 /\ x5' = x5
      /\ x4' = [x4 EXCEPT !.live = IF Mount!Called(x3) THEN @ ELSE @ \ {x3}]
  BY DEF Mount!Vanished, Mount!Is
<1>2. /\ x4' \in [made : Nat, making : Nat, live : SUBSET Nat] /\ x4'.made = x4.made
      /\ x4'.live \subseteq x4.live
  BY <1>0, <1>1 DEF Mount!BusTypes
<1>3. Mount!BusTypes'
  BY <1>0, <1>1, <1>2, TypesShifted
<1>4. Mount!EventsInOrder'
  BY <1>0, <1>1, OrderShifted
<1>5. Mount!FirstAnswer'
  <2>1. CASE x4.made = 0
    <3>1. x3 = 0
      BY <1>0, <2>1, EventTypes
    <3> QED BY <1>0, <1>1, <1>2, <3>1, FirstShifted
  <2>2. CASE x4.made # 0
    BY <1>1, <1>2, <2>2 DEF Mount!FirstAnswer
  <2> QED BY <2>1, <2>2
<1>6. ASSUME x1'.runs PROVE \E i \in DOMAIN x1'.events : x1'.events[i].type = "appeared"
  <2>n. PICK n \in Nat : n = Len(x1.events)
    BY <1>0, <1>1, Shifted
  <2>1. /\ n \in Nat \ {0} /\ DOMAIN x1'.events = 1 .. (n - 1) /\ x1'.runs = x1.runs
        /\ \A j \in 1 .. (n - 1) : x1'.events[j] = x1.events[j + 1]
    BY <1>0, <1>1, <2>n, Shifted
  <2>2. DOMAIN x1.events = 1 .. n /\ 1 \in 1 .. n
    BY <1>0, <2>1, <2>n, EventTypes
  <2>3. PICK j \in 1 .. n : j > 1 /\ x1.events[j].type = "appeared"
    BY <1>0, <1>1, <1>6, <2>1, <2>2 DEF Mount!EventsInOrder, Mount!InOrder
  <2>4. j - 1 \in 1 .. (n - 1) /\ (j - 1) + 1 = j
    BY <2>3
  <2> QED BY <2>1, <2>3, <2>4
<1> QED BY <1>3, <1>4, <1>5, <1>6 DEF Mount!BusInv, Mount!LockIsComing

LEMMA AnswerKeeps == ASSUME Mount!BusInv, Mount!GetActiveReady PROVE Mount!BusInv'
<1>0. Mount!BusTypes /\ Mount!EventsInOrder /\ Mount!LockIsComing /\ Mount!FirstAnswer
  BY DEF Mount!BusInv
<1>1. /\ x1.events # <<>> /\ x1.events[1].type = "reply" /\ Mount!Handled
      /\ x2' = (IF x1.events[1].by = x3 /\ x1.events[1].ok THEN x1.events[1].active ELSE x2)
      /\ x4' = [x4 EXCEPT !.live = IF x1.events[1].by = x3 \/ x1.events[1].by < x3
                                             THEN @ ELSE @ \ {x1.events[1].by}]
      /\ x3' = x3 /\ x5' = x5
  BY DEF Mount!GetActiveReady, Mount!Is
<1>2. /\ x4' \in [made : Nat, making : Nat, live : SUBSET Nat] /\ x4'.made = x4.made
      /\ x4'.live \subseteq x4.live /\ x4'.making = x4.making
      /\ x3 \in x4.live => x3 \in x4'.live
  BY <1>0, <1>1 DEF Mount!BusTypes
<1>3. 1 \in DOMAIN x1.events /\ x1.events[1] \in Mount!Events /\ x2 \in BOOLEAN /\ x4.made \in Nat
      /\ x1.events[1].by <= x4.made
  <2>1. Len(x1.events) \in Nat \ {0} /\ DOMAIN x1.events = 1 .. Len(x1.events) /\ x1.events \in Seq(Mount!Events)
    BY <1>0, <1>1, Shifted, EventTypes
  <2>2. 1 \in DOMAIN x1.events /\ x1.events[1] \in Mount!Events
    BY <2>1
  <2> QED BY <1>0, <1>1, <2>2, EventTypes DEF Mount!BusTypes
<1>4. /\ x1.events[1].active \in BOOLEAN /\ x1.events[1].ok \in BOOLEAN
      /\ x1.events[1].by \in Nat \ {0} /\ x2' \in BOOLEAN
  <2>1. x1.events[1] \in [type : {"reply"}, by : Nat \ {0}, ok : BOOLEAN, active : BOOLEAN]
    BY <1>1, <1>3 DEF Mount!Events
  <2> QED BY <1>1, <1>3, <2>1
<1>5. Mount!BusTypes'
  <2>1. x3' = 0 \/ x3' \in x4'.live
    BY <1>0, <1>1, <1>2 DEF Mount!BusTypes
  <2> QED BY <1>0, <1>1, <1>2, <1>4, <2>1, TypesShifted
<1>6. Mount!EventsInOrder'
  BY <1>0, <1>1, OrderShifted
<1>7. x2' = (IF Mount!Sets(1) THEN Mount!Value(1) ELSE x2)
  BY <1>1, <1>4 DEF Mount!Sets, Mount!Answer, Mount!Value
<1>8. x4.made # 0
  BY <1>3, <1>4
<1>9. Mount!FirstAnswer'
  BY <1>0, <1>1, <1>2, <1>7, <1>8, FirstShifted
<1>10. Mount!LockIsComing'
  BY <1>0, <1>1, <1>2, <1>7, LockShifted
<1> QED BY <1>5, <1>6, <1>9, <1>10 DEF Mount!BusInv

LEMMA SignalKeeps == ASSUME Mount!BusInv, Mount!ScreensaverSignal PROVE Mount!BusInv'
<1>0. Mount!BusTypes /\ Mount!EventsInOrder /\ Mount!LockIsComing /\ Mount!FirstAnswer
  BY DEF Mount!BusInv
<1>1. /\ x1.events # <<>> /\ x1.events[1].type = "changed" /\ Mount!Handled
      /\ x2' = (IF x4.live # {} THEN x1.events[1].active ELSE x2)
      /\ x4' = x4 /\ x3' = x3 /\ x5' = x5
  BY DEF Mount!ScreensaverSignal, Mount!Is
<1>2. /\ x4 \in [made : Nat, making : Nat, live : SUBSET Nat] /\ (x3 = 0 \/ x3 \in x4.live)
      /\ \A p \in x4.live : p \in 1 .. x4.made
  BY <1>0 DEF Mount!BusTypes
<1>3. x1.events[1] \in Mount!Events /\ x2 \in BOOLEAN
  <2>1. Len(x1.events) \in Nat \ {0} /\ x1.events \in Seq(Mount!Events)
    BY <1>0, <1>1, Shifted, EventTypes
  <2> QED BY <1>0, <2>1, EventTypes
<1>4. x2' \in BOOLEAN /\ x1.events[1].active \in BOOLEAN
  <2>1. x1.events[1] \in [type : {"changed"}, active : BOOLEAN]
    BY <1>1, <1>3 DEF Mount!Events
  <2> QED BY <1>1, <1>3, <2>1
<1>5. Mount!BusTypes'
  BY <1>0, <1>1, <1>2, <1>4, TypesShifted
<1>6. Mount!EventsInOrder'
  BY <1>0, <1>1, OrderShifted
<1>7. x3 # 0 => x2' = (IF Mount!Sets(1) THEN Mount!Value(1) ELSE x2)
  BY <1>1, <1>2, <1>4 DEF Mount!Sets, Mount!Value
<1>8. x4.made = 0 => x2' = FALSE
  <2>1. x4.made = 0 => x4.live = {}
    BY <1>2
  <2> QED BY <1>0, <1>1, <1>4, <2>1 DEF Mount!FirstAnswer
<1>9. Mount!FirstAnswer'
  BY <1>0, <1>1, <1>7, <1>8, FirstShifted
<1>10. Mount!LockIsComing'
  BY <1>0, <1>1, <1>7, LockShifted
<1> QED BY <1>5, <1>6, <1>9, <1>10 DEF Mount!BusInv

LEMMA SentLast ==
    ASSUME Mount!BusTypes, NEW e \in Mount!Events, x1'.events = Append(x1.events, e), NEW n \in Nat,
          n = Len(x1.events)
    PROVE  /\ x1'.events \in Seq(Mount!Events) /\ Len(x1'.events) = n + 1 /\ DOMAIN x1'.events = 1 .. (n + 1)
           /\ x1'.events[n + 1] = e /\ DOMAIN x1.events = 1 .. n
           /\ \A j \in 1 .. n : x1'.events[j] = x1.events[j]
<1>1. x1.events \in Seq(Mount!Events) /\ DOMAIN x1.events = 1 .. n
  BY EventTypes
<1>2. /\ Append(x1.events, e) \in Seq(Mount!Events) /\ Len(Append(x1.events, e)) = Len(x1.events) + 1
      /\ \A i \in 1 .. Len(x1.events) : Append(x1.events, e)[i] = x1.events[i]
      /\ Append(x1.events, e)[Len(x1.events) + 1] = e
  BY <1>1, AppendProperties
<1>3. DOMAIN x1'.events = 1 .. Len(x1'.events)
  BY <1>2
<1> QED BY <1>1, <1>2, <1>3

LEMMA TypesGrown ==
    ASSUME Mount!BusTypes, NEW e \in Mount!Events, x1'.events = Append(x1.events, e),
           e.type = "reply" => e.by <= x4'.made,
           x1' \in [runs : BOOLEAN, active : BOOLEAN, events : Seq(Mount!Events)], x2' = x2,
           x4' \in [made : Nat, making : Nat, live : SUBSET Nat], x4'.made >= x4.made,
           x4'.live \subseteq x4.live \cup {x4'.made}, x4'.made = 0 => x4'.live = {},
           x3' = 0 \/ x3' \in x4'.live,
           x5' \in Seq(Nat \ {0}), \A i \in DOMAIN x5' : x5'[i] <= x4'.made
    PROVE  Mount!BusTypes'
<1>n. PICK n \in Nat : n = Len(x1.events)
  BY EventTypes
<1>1. /\ DOMAIN x1'.events = 1 .. (n + 1) /\ x1'.events[n + 1] = e
      /\ \A j \in 1 .. n : x1'.events[j] = x1.events[j]
  BY <1>n, SentLast
<1>2. /\ x4.made \in Nat /\ x4'.made \in Nat /\ x4.live \subseteq 1 .. x4.made
      /\ x1.events \in Seq(Mount!Events)
  BY DEF Mount!BusTypes
<1>3. \A p \in x4'.live : p \in 1 .. x4'.made
  <2> TAKE p \in x4'.live
  <2>1. x4'.made # 0
    OBVIOUS
  <2>2. p \in x4.live \/ p = x4'.made
    OBVIOUS
  <2> QED BY <1>2, <2>1, <2>2
<1>4. \A i \in 1 .. (n + 1) : x1'.events[i].type = "reply" => x1'.events[i].by <= x4'.made
  <2> TAKE i \in 1 .. (n + 1)
  <2>1. CASE i = n + 1
    BY <1>1, <2>1
  <2>2. CASE i # n + 1
    <3>1. i \in 1 .. n /\ i \in DOMAIN x1.events
      BY <1>n, <2>2, EventTypes
    <3>2. x1.events[i].type = "reply" => x1.events[i].by <= x4.made
      BY <3>1 DEF Mount!BusTypes
    <3>3. x1.events[i] \in Mount!Events
      BY <1>2, <3>1
    <3>4. x1.events[i].type = "reply" => x1.events[i].by \in Nat
      BY <3>3 DEF Mount!Events
    <3>5. x1'.events[i] = x1.events[i]
      BY <1>1, <3>1
    <3> QED BY <1>2, <3>2, <3>4, <3>5
  <2> QED BY <2>1, <2>2
<1>5. x2' \in BOOLEAN
  BY DEF Mount!BusTypes
<1> QED BY <1>1, <1>3, <1>4, <1>5 DEF Mount!BusTypes

(* The answers that are on their way keep their place.                        *)
LEMMA AnswersKept ==
    ASSUME Mount!BusTypes, Mount!FirstAnswer, NEW n \in Nat, n = Len(x1.events), x2' = x2, x3' = x3,
           x4.made <= 1, x3 # 0, \A j \in 1 .. n : x1'.events[j] = x1.events[j]
    PROVE  \A i \in 1 .. n : Mount!Answer(i)' /\ ~x1'.events[i].active => Mount!Before(i, FALSE)'
<1> TAKE i \in 1 .. n
<1>1. i \in DOMAIN x1.events /\ i \in 1 .. (n + 1) /\ x1'.events[i] = x1.events[i]
  BY EventTypes
<1>2. Mount!Answer(i)' /\ ~x1'.events[i].active => Mount!Answer(i) /\ ~x1.events[i].active
  BY <1>1 DEF Mount!Answer
<1>3. Mount!Answer(i) /\ ~x1.events[i].active => Mount!Before(i, FALSE)
  BY <1>1 DEF Mount!FirstAnswer
<1>4. Mount!Before(i, FALSE) => Mount!Before(i, FALSE)'
  BY <1>1, BeforeKept
<1> QED BY <1>2, <1>3, <1>4

(* What was sent last is what it says.                                        *)
LEMMA BeforeNext ==
    ASSUME NEW n \in Nat, NEW v \in BOOLEAN, Len(x1'.events) = n + 1,
           (Mount!Sets(n + 1)' /\ Mount!Value(n + 1)' = v) \/ (~Mount!Sets(n + 1)' /\ Mount!Before(n + 1, v)')
    PROVE  Mount!Before(n + 2, v)' /\ Mount!Before(Len(x1.events) + 1, v)'
<1>1. CASE Mount!Sets(n + 1)' /\ Mount!Value(n + 1)' = v
  <2>1. n + 1 \in 1 .. ((n + 2) - 1) /\ \A j \in ((n + 1) + 1) .. ((n + 2) - 1) : ~Mount!Sets(j)'
    OBVIOUS
  <2>2. Mount!Before(n + 2, v)'
    BY <1>1, <2>1 DEF Mount!Before
  <2>3. Len(x1'.events) + 1 = n + 2
    OBVIOUS
  <2> QED BY <2>2, <2>3 DEF Mount!Before
<1>2. CASE ~Mount!Sets(n + 1)' /\ Mount!Before(n + 1, v)'
  <2>0. Len(x1'.events) + 1 = n + 2
    OBVIOUS
  <2>1. CASE x2' = v /\ \A j \in 1 .. ((n + 1) - 1) : ~Mount!Sets(j)'
    <3>1. \A j \in 1 .. ((n + 2) - 1) : j = n + 1 \/ j \in 1 .. ((n + 1) - 1)
      OBVIOUS
    <3>2. \A j \in 1 .. ((n + 2) - 1) : ~Mount!Sets(j)'
      BY <1>2, <2>1, <3>1
    <3>3. Mount!Before(n + 2, v)'
      BY <2>1, <3>2 DEF Mount!Before
    <3> QED BY <2>0, <3>3 DEF Mount!Before
  <2>2. ASSUME NEW k \in 1 .. ((n + 1) - 1), Mount!Sets(k)', Mount!Value(k)' = v,
        \A j \in (k + 1) .. ((n + 1) - 1) : ~Mount!Sets(j)'
        PROVE  Mount!Before(n + 2, v)' /\ Mount!Before(Len(x1.events) + 1, v)'
    <3>1. \A j \in (k + 1) .. ((n + 2) - 1) : j = n + 1 \/ j \in (k + 1) .. ((n + 1) - 1)
      OBVIOUS
    <3>2. \A j \in (k + 1) .. ((n + 2) - 1) : ~Mount!Sets(j)'
      BY <1>2, <2>2, <3>1
    <3>4. k \in 1 .. ((n + 2) - 1)
      OBVIOUS
    <3>3. Mount!Before(n + 2, v)'
      BY <2>2, <3>2, <3>4 DEF Mount!Before
    <3> QED BY <2>0, <3>3 DEF Mount!Before
  <2> QED BY <1>2, <2>1, <2>2 DEF Mount!Before
<1> QED BY <1>1, <1>2

(* While the screensaver is gone calls fail.                                  *)
LEMMA GoneNext ==
    ASSUME NEW n \in Nat, Len(x1'.events) = n + 1, Mount!Gone(n + 1)',
           x1'.events[n + 1].type = "reply", ~x1'.events[n + 1].ok
    PROVE  Mount!Gone(Len(x1.events) + 1)'
<1>0. Len(x1'.events) + 1 = n + 2
  OBVIOUS
<1>1. CASE ~x2' /\ \A j \in 1 .. ((n + 1) - 1) : x1'.events[j].type = "reply" /\ ~x1'.events[j].ok
  <2>1. \A j \in 1 .. ((n + 2) - 1) : j = n + 1 \/ j \in 1 .. ((n + 1) - 1)
    OBVIOUS
  <2>2. \A j \in 1 .. ((n + 2) - 1) : x1'.events[j].type = "reply" /\ ~x1'.events[j].ok
    BY <1>1, <2>1
  <2> QED BY <1>0, <1>1, <2>2 DEF Mount!Gone
<1>2. ASSUME NEW k \in 1 .. ((n + 1) - 1), x1'.events[k].type = "vanished",
             \A j \in (k + 1) .. ((n + 1) - 1) : x1'.events[j].type = "reply" /\ ~x1'.events[j].ok
      PROVE  Mount!Gone(Len(x1.events) + 1)'
  <2>1. \A j \in (k + 1) .. ((n + 2) - 1) : j = n + 1 \/ j \in (k + 1) .. ((n + 1) - 1)
    OBVIOUS
  <2>2. \A j \in (k + 1) .. ((n + 2) - 1) : x1'.events[j].type = "reply" /\ ~x1'.events[j].ok
    BY <1>2, <2>1
  <2>3. k \in 1 .. ((n + 2) - 1)
    OBVIOUS
  <2> QED BY <1>0, <1>2, <2>2, <2>3 DEF Mount!Gone
<1> QED BY <1>1, <1>2 DEF Mount!Gone

LEMMA ProxyReadyKeeps == ASSUME Mount!BusInv, Mount!ProxyReady PROVE Mount!BusInv'
<1>0. Mount!BusTypes /\ Mount!EventsInOrder /\ Mount!LockIsComing /\ Mount!FirstAnswer
  BY DEF Mount!BusInv
<1>n. PICK n \in Nat : n = Len(x1.events) /\ DOMAIN x1.events = 1 .. n
  BY <1>0, EventTypes
<1>p. PICK p \in Nat \ {0} : p = x4.made + 1
  BY <1>0, EventTypes
<1>t. /\ x1 \in [runs : BOOLEAN, active : BOOLEAN, events : Seq(Mount!Events)] /\ x2 \in BOOLEAN
      /\ x4 \in [made : Nat, making : Nat, live : SUBSET Nat] /\ x5 \in Seq(Nat \ {0})
      /\ \A i \in DOMAIN x5 : x5[i] <= x4.made
      /\ \A q \in x4.live : q \in 1 .. x4.made
  BY <1>0 DEF Mount!BusTypes
<1>1. /\ x3' = p /\ x4' = [made |-> p, making |-> x4.making - 1, live |-> x4.live \cup {p}]
      /\ x4.making > 0 /\ x2' = x2
  BY <1>p DEF Mount!ProxyReady
<1>2. /\ x4' \in [made : Nat, making : Nat, live : SUBSET Nat] /\ x4'.made = p
      /\ x4'.live = x4.live \cup {p}
  BY <1>1, <1>t
<1>3. \A j \in 1 .. n : ~(x1.events[j].type = "reply" /\ x1.events[j].by = p)
  <2> TAKE j \in 1 .. n
  <2>1. x1.events[j].type = "reply" => x1.events[j].by <= x4.made
    BY <1>0, <1>n DEF Mount!BusTypes
  <2> QED BY <1>p, <1>t, <2>1
<1>4. CASE x1.runs
  <2>1. x1' = x1 /\ x5' = Append(x5, p)
    BY <1>4, <1>p DEF Mount!ProxyReady
  <2>2. /\ x5' \in Seq(Nat \ {0}) /\ p \in Mount!Range(x5') /\ \A i \in DOMAIN x5' : x5'[i] <= p
    <3>1. /\ Append(x5, p) \in Seq(Nat \ {0}) /\ Len(Append(x5, p)) = Len(x5) + 1
          /\ \A i \in 1 .. Len(x5) : Append(x5, p)[i] = x5[i]
          /\ Append(x5, p)[Len(x5) + 1] = p
      BY <1>t, AppendProperties
    <3>2. DOMAIN x5' = 1 .. (Len(x5) + 1) /\ Len(x5) \in Nat /\ DOMAIN x5 = 1 .. Len(x5)
      BY <1>t, <2>1, <3>1
    <3>3. ASSUME NEW i \in DOMAIN x5' PROVE x5'[i] <= p
      <4>1. CASE i = Len(x5) + 1
        BY <2>1, <3>1, <4>1
      <4>2. CASE i # Len(x5) + 1
        <5>1. i \in DOMAIN x5
          BY <3>2, <3>3, <4>2
        <5>2. x5[i] <= x4.made /\ x5[i] \in Nat
          BY <1>t, <5>1
        <5>3. x5'[i] = x5[i]
          BY <2>1, <3>1, <3>2, <5>1
        <5> QED BY <1>p, <1>t, <5>2, <5>3
      <4> QED BY <4>1, <4>2
    <3>4. Len(x5) + 1 \in DOMAIN x5' /\ x5'[Len(x5) + 1] = p
      BY <2>1, <3>1, <3>2
    <3> QED BY <2>1, <3>1, <3>3, <3>4 DEF Mount!Range
  <2>3. Mount!BusTypes'
    <3>1. \A q \in x4'.live : q \in 1 .. p
      BY <1>2, <1>p, <1>t
    <3>2. \A i \in 1 .. n : x1'.events[i].type = "reply" => x1'.events[i].by <= p
      <4> TAKE i \in 1 .. n
      <4>1. x1.events[i].type = "reply" => x1.events[i].by <= x4.made
        BY <1>0, <1>n DEF Mount!BusTypes
      <4>2. x1.events[i] \in Mount!Events
        BY <1>n, <1>t
      <4>3. x1.events[i].type = "reply" => x1.events[i].by \in Nat
        BY <4>2 DEF Mount!Events
      <4> QED BY <1>p, <1>t, <2>1, <4>1, <4>3
    <3>3. x3' \in x4'.live
      BY <1>1, <1>2
    <3> QED BY <1>1, <1>2, <1>n, <1>t, <2>1, <2>2, <3>1, <3>2, <3>3 DEF Mount!BusTypes
  <2>4. Mount!EventsInOrder'
    <3>1. ASSUME NEW i \in 1 .. n PROVE Mount!InOrder(i)'
      <4>1. Mount!InOrder(i)
        BY <1>0, <1>n DEF Mount!EventsInOrder
      <4>2. Mount!Gone(i) => Mount!Gone(i)'
        BY <1>1, <2>1 DEF Mount!Gone
      <4> QED BY <2>1, <4>1, <4>2 DEF Mount!InOrder
    <3> QED BY <1>4, <1>n, <2>1, <3>1 DEF Mount!EventsInOrder
  <2>5. Mount!LockIsComing'
    <3>1. CASE \E i \in DOMAIN x1.events : x1.events[i].type = "appeared"
      BY <2>1, <3>1 DEF Mount!LockIsComing
    <3>2. CASE ~\E i \in DOMAIN x1.events : x1.events[i].type = "appeared"
      <4>1. \A i \in DOMAIN x1.events : x1.events[i].type # "vanished"
        BY <1>0, <1>4, <3>2 DEF Mount!EventsInOrder, Mount!InOrder
      <4> QED BY <1>1, <2>1, <2>2, <4>1 DEF Mount!LockIsComing
    <3> QED BY <3>1, <3>2
  <2>6. Mount!FirstAnswer'
    <3>1. SUFFICES ASSUME p <= 1
          PROVE  /\ \A i \in 1 .. n : Mount!Answer(i)' => FALSE
                 /\ ~x1.active => Mount!Before(Len(x1.events) + 1, FALSE)'
      BY <1>1, <1>2, <1>n, <2>1 DEF Mount!FirstAnswer
    <3>2. \A i \in 1 .. n : Mount!Answer(i)' => FALSE
      BY <1>1, <1>3, <2>1 DEF Mount!Answer
    <3>3. x4.made = 0 /\ x3 = 0
      BY <1>0, <1>p, <1>t, <3>1, EventTypes
    <3>4. ~x1.active => Mount!Before(n + 1, FALSE)
      BY <1>0, <1>4, <1>n, <3>3 DEF Mount!FirstAnswer
    <3>5. \A j \in 1 .. n : (Mount!Sets(j)' <=> Mount!Sets(j)) /\ Mount!Value(j)' = Mount!Value(j)
      <4> TAKE j \in 1 .. n
      <4>1. ~Mount!Answer(j)
        <5>1. x1.events[j] \in Mount!Events /\ (x1.events[j].type = "reply" => x1.events[j].by <= x4.made)
          BY <1>0, <1>n, <1>t DEF Mount!BusTypes
        <5>2. x1.events[j].type = "reply" => x1.events[j].by \in Nat \ {0}
          BY <5>1 DEF Mount!Events
        <5> QED BY <3>3, <5>1, <5>2 DEF Mount!Answer
      <4> QED BY <2>1, <3>2, <4>1 DEF Mount!Sets, Mount!Value
    <3>6. Mount!Before(n + 1, FALSE) => Mount!Before(n + 1, FALSE)'
      <4>1. (n + 1) - 1 = n
        OBVIOUS
      <4>2. CASE x2 = FALSE /\ \A j \in 1 .. n : ~Mount!Sets(j)
        BY <1>1, <3>5, <4>1, <4>2 DEF Mount!Before
      <4>3. ASSUME NEW k \in 1 .. n, Mount!Sets(k), Mount!Value(k) = FALSE, \A j \in (k + 1) .. n : ~Mount!Sets(j)
            PROVE  Mount!Before(n + 1, FALSE)'
        <5>1. \A j \in (k + 1) .. n : ~Mount!Sets(j)'
          <6> TAKE j \in (k + 1) .. n
          <6>1. j \in 1 .. n
            OBVIOUS
          <6> QED BY <3>5, <4>3, <6>1
        <5> QED BY <3>5, <4>1, <4>3, <5>1 DEF Mount!Before
      <4> QED BY <4>1, <4>2, <4>3 DEF Mount!Before
    <3>7. Mount!Before(n + 1, FALSE)' => Mount!Before(Len(x1.events) + 1, FALSE)'
      BY <1>n, <2>1 DEF Mount!Before
    <3> QED BY <3>2, <3>4, <3>6, <3>7
  <2> QED BY <2>3, <2>4, <2>5, <2>6 DEF Mount!BusInv
<1>5. CASE ~x1.runs
  <2>1. x1' = [x1 EXCEPT !.events = Append(@, Mount!Failed(p))] /\ x5' = x5
    BY <1>5, <1>p DEF Mount!ProxyReady, Mount!Send
  <2>2. Mount!Failed(p) \in Mount!Events /\ Mount!Failed(p).type = "reply" /\ ~Mount!Failed(p).ok
        /\ Mount!Failed(p).by = p
    BY DEF Mount!Failed, Mount!Events
  <2>3. /\ x1'.events = Append(x1.events, Mount!Failed(p)) /\ x1'.runs = x1.runs /\ x1'.active = x1.active
        /\ Append(x1.events, Mount!Failed(p)) \in Seq(Mount!Events)
        /\ x1' \in [runs : BOOLEAN, active : BOOLEAN, events : Seq(Mount!Events)]
    BY <1>t, <2>1, <2>2, AppendProperties
  <2>4. /\ Len(x1'.events) = n + 1 /\ DOMAIN x1'.events = 1 .. (n + 1)
        /\ x1'.events[n + 1] = Mount!Failed(p) /\ \A j \in 1 .. n : x1'.events[j] = x1.events[j]
    BY <1>0, <1>n, <2>2, <2>3, SentLast
  <2>5. x5 = <<>> /\ ~x1.active /\ Mount!Gone(n + 1)
    BY <1>0, <1>5, <1>n DEF Mount!EventsInOrder
  <2>6. Mount!BusTypes'
    <3>1. p <= x4'.made /\ x4'.made >= x4.made /\ x4'.made # 0
          /\ x4'.live \subseteq x4.live \cup {x4'.made} /\ x3' \in x4'.live
      BY <1>1, <1>2, <1>p, <1>t
    <3>2. \A i \in DOMAIN x5' : x5'[i] <= x4'.made
      BY <2>1, <2>5
    <3> QED BY <1>0, <1>1, <1>2, <1>t, <2>1, <2>2, <2>3, <3>1, <3>2, TypesGrown
  <2>7. Mount!EventsInOrder'
    <3>1. \A i \in 1 .. n : Mount!InOrder(i)'
      BY <1>0, <1>1, <1>n, <2>3, <2>4, OrderKept
    <3>2. Mount!InOrder(n + 1)'
      BY <2>2, <2>4 DEF Mount!InOrder
    <3>3. Mount!Gone(n + 1)'
      <4>1. n + 1 \in 1 .. (n + 1)
        OBVIOUS
      <4> QED BY <1>1, <2>4, <2>5, <4>1, GoneKept
    <3>4. Mount!Gone(Len(x1.events) + 1)'
      BY <2>2, <2>4, <3>3, GoneNext
    <3>5. \A i \in 1 .. (n + 1) : i \in 1 .. n \/ i = n + 1
      OBVIOUS
    <3> QED BY <2>1, <2>3, <2>4, <2>5, <3>1, <3>2, <3>4, <3>5 DEF Mount!EventsInOrder
  <2>8. Mount!LockIsComing'
    BY <1>5, <2>3 DEF Mount!LockIsComing
  <2>9. Mount!FirstAnswer'
    <3>1. \A i \in 1 .. (n + 1) : ~Mount!Answer(i)'
      <4> TAKE i \in 1 .. (n + 1)
      <4>1. i = n + 1 \/ i \in 1 .. n
        OBVIOUS
      <4> QED BY <1>1, <1>3, <2>2, <2>4, <4>1 DEF Mount!Answer
    <3>2. Mount!Range(x5') = {}
      BY <2>1, <2>5 DEF Mount!Range
    <3> QED BY <1>2, <2>4, <3>1, <3>2 DEF Mount!FirstAnswer
  <2> QED BY <2>6, <2>7, <2>8, <2>9 DEF Mount!BusInv
<1> QED BY <1>4, <1>5

(* A screensaver that runs sends an event, which says whether it is active or *)
(* is of no interest.                                                         *)
LEMMA SendKeeps ==
    ASSUME Mount!BusInv, x1.runs, NEW e \in Mount!Events, x1'.events = Append(x1.events, e), x1'.runs = x1.runs,
           x1' \in [runs : BOOLEAN, active : BOOLEAN, events : Seq(Mount!Events)],
           e.type \in {"changed", "reply"}, e.type = "reply" => e.by <= x4.made, e.active = x1'.active,
           e.type = "reply" => x1'.active = x1.active,
           UNCHANGED <<x2, x3, x4>>,
           \/ x5' = x5 /\ e.type = "changed"
           \/ x5 # <<>> /\ x5' = Tail(x5) /\ e.type = "reply" /\ e.by = x5[1] /\ e.ok
    PROVE  Mount!BusInv'
<1>0. Mount!BusTypes /\ Mount!EventsInOrder /\ Mount!LockIsComing /\ Mount!FirstAnswer
  BY DEF Mount!BusInv
<1>n. PICK n \in Nat : n = Len(x1.events) /\ DOMAIN x1.events = 1 .. n
  BY <1>0, EventTypes
<1>1. /\ Len(x1'.events) = n + 1 /\ DOMAIN x1'.events = 1 .. (n + 1)
      /\ x1'.events[n + 1] = e /\ \A j \in 1 .. n : x1'.events[j] = x1.events[j]
  BY <1>0, <1>n, SentLast
<1>t. /\ x4 \in [made : Nat, making : Nat, live : SUBSET Nat] /\ x5 \in Seq(Nat \ {0})
      /\ \A i \in DOMAIN x5 : x5[i] <= x4.made
      /\ \A q \in x4.live : q \in 1 .. x4.made
      /\ (x3 = 0 \/ x3 \in x4.live) /\ x1.active \in BOOLEAN /\ x1'.active \in BOOLEAN
  BY <1>0 DEF Mount!BusTypes
<1>2. /\ x5' \in Seq(Nat \ {0}) /\ \A i \in DOMAIN x5' : x5'[i] <= x4.made
      /\ Mount!Range(x5') \subseteq Mount!Range(x5)
      /\ \A q \in Mount!Range(x5) : q \in Mount!Range(x5') \/ (e.type = "reply" /\ e.by = q /\ e.ok)
  <2>1. CASE x5' = x5
    BY <1>t, <2>1
  <2>2. CASE x5 # <<>> /\ x5' = Tail(x5) /\ e.type = "reply" /\ e.by = x5[1] /\ e.ok
    <3>1. /\ Tail(x5) \in Seq(Nat \ {0}) /\ Len(Tail(x5)) = Len(x5) - 1
          /\ \A i \in 1 .. Len(Tail(x5)) : Tail(x5)[i] = x5[i + 1]
      BY <1>t, <2>2, HeadTailProperties
    <3>2. DOMAIN x5 = 1 .. Len(x5) /\ DOMAIN x5' = 1 .. (Len(x5) - 1) /\ Len(x5) \in Nat
      BY <1>t, <2>2, <3>1
    <3>3. ASSUME NEW i \in DOMAIN x5' PROVE i + 1 \in DOMAIN x5 /\ x5'[i] = x5[i + 1]
      BY <2>2, <3>1, <3>2
    <3>4. ASSUME NEW i \in DOMAIN x5, i # 1 PROVE i - 1 \in DOMAIN x5' /\ x5'[i - 1] = x5[i]
      <4>1. i - 1 \in DOMAIN x5' /\ (i - 1) + 1 = i
        BY <3>2, <3>4
      <4> QED BY <3>3, <4>1
    <3>5. \A i \in DOMAIN x5' : x5'[i] <= x4.made
      BY <1>t, <3>3
    <3>6. Mount!Range(x5') \subseteq Mount!Range(x5)
      BY <3>3 DEF Mount!Range
    <3>7. \A q \in Mount!Range(x5) : q \in Mount!Range(x5') \/ q = x5[1]
      BY <3>4 DEF Mount!Range
    <3> QED BY <2>2, <3>1, <3>5, <3>6, <3>7
  <2> QED BY <2>1, <2>2
<1>3. Mount!BusTypes'
  <2>1. x4'.made >= x4.made /\ x4'.live \subseteq x4.live \cup {x4'.made}
        /\ (x4'.made = 0 => x4'.live = {}) /\ (x3' = 0 \/ x3' \in x4'.live)
        /\ x4' \in [made : Nat, making : Nat, live : SUBSET Nat]
    BY <1>t
  <2>2. \A i \in DOMAIN x5' : x5'[i] <= x4'.made
    BY <1>2
  <2>3. x2' = x2 /\ (e.type = "reply" => e.by <= x4'.made)
    OBVIOUS
  <2> QED BY <1>0, <1>2, <2>1, <2>2, <2>3, TypesGrown
<1>4. Mount!EventsInOrder'
  <2>1. \A i \in 1 .. n : Mount!InOrder(i)'
    BY <1>0, <1>1, <1>n, OrderKept
  <2>2. Mount!InOrder(n + 1)'
    BY <1>1 DEF Mount!InOrder
  <2>3. \A i \in 1 .. (n + 1) : i \in 1 .. n \/ i = n + 1
    OBVIOUS
  <2> QED BY <1>1, <2>1, <2>2, <2>3 DEF Mount!EventsInOrder
<1>6. ASSUME NEW v \in BOOLEAN, v = x1'.active, Mount!Sets(n + 1)' \/ Mount!Before(n + 1, v)
      PROVE  Mount!Before(Len(x1.events) + 1, v)'
  <2>1. Mount!Sets(n + 1)' => Mount!Value(n + 1)' = v
    BY <1>1, <1>6, <1>t DEF Mount!Sets, Mount!Value
  <2>2. n + 1 \in 1 .. (n + 1)
    OBVIOUS
  <2>3. Mount!Before(n + 1, v) => Mount!Before(n + 1, v)'
    BY <1>1, <2>2, BeforeKept
  <2> QED BY <1>1, <1>6, <2>1, <2>3, BeforeNext
<1>7. ASSUME x3 # 0, x3 \in Mount!Range(x5) PROVE x3 \in Mount!Range(x5') \/ Mount!Sets(n + 1)'
  BY <1>1, <1>2, <1>7 DEF Mount!Sets, Mount!Answer
<1>8. Mount!LockIsComing'
  <2>1. CASE x4.making > 0
    BY <2>1 DEF Mount!LockIsComing
  <2>2. CASE \E i \in 1 .. n : x1.events[i].type = "appeared"
    <3>1. PICK i \in 1 .. n : x1.events[i].type = "appeared"
      BY <2>2
    <3>2. i \in 1 .. (n + 1) /\ x1'.events[i].type = "appeared"
      BY <1>1, <3>1
    <3> QED BY <1>1, <3>2 DEF Mount!LockIsComing
  <2>3. CASE /\ x3 # 0 /\ \A i \in 1 .. n : x1.events[i].type # "vanished"
             /\ x3 \in Mount!Range(x5) \/ Mount!Before(n + 1, x1.active)
    <3>1. \A i \in 1 .. (n + 1) : x1'.events[i].type # "vanished"
      <4> TAKE i \in 1 .. (n + 1)
      <4>1. i = n + 1 \/ i \in 1 .. n
        OBVIOUS
      <4> QED BY <1>1, <2>3, <4>1
    <3>2. PICK v \in BOOLEAN : v = x1'.active
      BY <1>t
    <3>3. x3 \in Mount!Range(x5') \/ Mount!Sets(n + 1)' \/ Mount!Before(n + 1, v)
      <4>1. CASE x3 \in Mount!Range(x5)
        BY <1>7, <2>3, <4>1
      <4>2. CASE Mount!Before(n + 1, x1.active) /\ e.type = "reply"
        BY <3>2, <4>2
      <4>3. CASE e.type # "reply"
        BY <1>1, <4>3 DEF Mount!Sets
      <4> QED BY <2>3, <4>1, <4>2, <4>3
    <3>4. x3' \in Mount!Range(x5') \/ Mount!Before(Len(x1.events) + 1, v)'
      BY <1>6, <3>2, <3>3
    <3>5. Mount!Before(Len(x1.events) + 1, v)' => Mount!Before(Len(x1.events) + 1, x1.active)'
      BY <3>2 DEF Mount!Before
    <3> QED BY <1>1, <2>3, <3>1, <3>4, <3>5 DEF Mount!LockIsComing
  <2> QED BY <1>0, <1>n, <2>1, <2>2, <2>3 DEF Mount!LockIsComing
<1>9. Mount!FirstAnswer'
  <2>1. ASSUME x4.made = 0, ~x1'.active PROVE Mount!Before(Len(x1.events) + 1, FALSE)'
    <3>1. CASE e.type = "reply"
      <4>1. Mount!Before(n + 1, FALSE)
        BY <1>0, <1>n, <2>1, <3>1 DEF Mount!FirstAnswer
      <4> QED BY <1>6, <1>t, <2>1, <4>1
    <3>2. CASE e.type # "reply"
      <4>1. Mount!Sets(n + 1)'
        BY <1>1, <3>2 DEF Mount!Sets
      <4> QED BY <1>6, <1>t, <2>1, <4>1
    <3> QED BY <3>1, <3>2
  <2>2. ASSUME x4.made <= 1, x3 # 0, NEW i \in 1 .. (n + 1), Mount!Answer(i)', ~x1'.events[i].active
        PROVE  Mount!Before(i, FALSE)'
    <3>1. CASE i \in 1 .. n
      BY <1>0, <1>1, <1>n, <2>2, <3>1, AnswersKept
    <3>2. CASE i = n + 1
      <4>1. e.type = "reply" /\ e.ok /\ e.by = x3 /\ ~x1'.active /\ ~x1.active
        BY <1>1, <2>2, <3>2 DEF Mount!Answer
      <4>2. x3 \in Mount!Range(x5)
        <5>1. x5 # <<>> /\ e.by = x5[1]
          BY <4>1
        <5>2. 1 \in DOMAIN x5
          BY <1>t, <5>1
        <5> QED BY <4>1, <5>1, <5>2 DEF Mount!Range
      <4>3. Mount!Before(n + 1, FALSE)
        BY <1>0, <1>n, <2>2, <4>1, <4>2 DEF Mount!FirstAnswer
      <4>4. n + 1 \in 1 .. (n + 1)
        OBVIOUS
      <4> QED BY <1>1, <3>2, <4>3, <4>4, BeforeKept
    <3>3. i = n + 1 \/ i \in 1 .. n
      OBVIOUS
    <3> QED BY <3>1, <3>2, <3>3
  <2>3. ASSUME x4.made <= 1, x3 # 0, x3 \in Mount!Range(x5'), ~x1'.active
        PROVE  Mount!Before(Len(x1.events) + 1, FALSE)'
    <3>1. CASE Mount!Sets(n + 1)'
      BY <1>6, <1>t, <2>3, <3>1
    <3>2. CASE ~Mount!Sets(n + 1)'
      <4>1. e.type = "reply" /\ ~x1.active
        BY <1>1, <2>3, <3>2 DEF Mount!Sets
      <4>2. Mount!Before(n + 1, FALSE)
        BY <1>0, <1>2, <1>n, <2>3, <4>1 DEF Mount!FirstAnswer
      <4> QED BY <1>6, <1>t, <2>3, <4>2
    <3> QED BY <3>1, <3>2
  <2> QED BY <1>0, <1>1, <2>1, <2>2, <2>3 DEF Mount!FirstAnswer
<1> QED BY <1>3, <1>4, <1>8, <1>9 DEF Mount!BusInv

LEMMA AnswersKeeps == ASSUME Mount!BusInv, Mount!Answers PROVE Mount!BusInv'
<1>0. Mount!BusTypes /\ Mount!EventsInOrder
  BY DEF Mount!BusInv
<1>t. /\ x1 \in [runs : BOOLEAN, active : BOOLEAN, events : Seq(Mount!Events)] /\ x5 \in Seq(Nat \ {0})
      /\ \A i \in DOMAIN x5 : x5[i] <= x4.made
  BY <1>0 DEF Mount!BusTypes
<1>1. x5 # <<>> /\ 1 \in DOMAIN x5 /\ x5[1] \in Nat \ {0} /\ x5[1] <= x4.made
  BY <1>t DEF Mount!Answers
<1>2. x1.runs
  BY <1>0, <1>1 DEF Mount!EventsInOrder
<1> DEFINE e == [type |-> "reply", by |-> x5[1], ok |-> TRUE, active |-> x1.active]
<1>3. e \in [type : {"reply"}, by : Nat \ {0}, ok : BOOLEAN, active : BOOLEAN]
  BY <1>t, <1>1
<1>4. e \in Mount!Events
  BY <1>3 DEF Mount!Events
<1>5. /\ x1' = [x1 EXCEPT !.events = Append(@, e)] /\ x5' = Tail(x5)
      /\ UNCHANGED <<x2, x3, x4>>
  BY DEF Mount!Answers, Mount!Send
<1>6. Append(x1.events, e) \in Seq(Mount!Events)
  <2>1. x1.events \in Seq(Mount!Events)
    BY <1>t
  <2> HIDE DEF e
  <2> QED BY <1>4, <2>1, AppendProperties
<1>7. /\ x1'.events = Append(x1.events, e) /\ x1'.runs = x1.runs /\ x1'.active = x1.active
      /\ x1' \in [runs : BOOLEAN, active : BOOLEAN, events : Seq(Mount!Events)]
  BY <1>t, <1>5, <1>6
<1>8. /\ e.type = "reply" /\ e.type \in {"changed", "reply"} /\ e.by = x5[1] /\ e.ok /\ e.active = x1'.active
      /\ e.by <= x4.made
  BY <1>1, <1>7
<1> HIDE DEF e
<1>9. \/ x5' = x5 /\ e.type = "changed"
      \/ x5 # <<>> /\ x5' = Tail(x5) /\ e.type = "reply" /\ e.by = x5[1] /\ e.ok
  BY <1>1, <1>5, <1>8
<1> QED BY <1>2, <1>4, <1>5, <1>7, <1>8, <1>9, SendKeeps

LEMMA LocksKeeps == ASSUME Mount!BusInv, Mount!Locks PROVE Mount!BusInv'
<1>0. Mount!BusTypes
  BY DEF Mount!BusInv
<1>t. x1 \in [runs : BOOLEAN, active : BOOLEAN, events : Seq(Mount!Events)] /\ x1.runs
  BY <1>0 DEF Mount!BusTypes, Mount!Locks
<1> DEFINE e == [type |-> "changed", active |-> ~x1.active]
<1>4. e \in Mount!Events
  BY <1>t DEF Mount!Events
<1>5. /\ x1' = [x1 EXCEPT !.active = ~@, !.events = Append(@, e)]
      /\ x5' = x5 /\ UNCHANGED <<x2, x3, x4>>
  BY DEF Mount!Locks
<1>6. Append(x1.events, e) \in Seq(Mount!Events)
  <2>1. x1.events \in Seq(Mount!Events)
    BY <1>t
  <2> HIDE DEF e
  <2> QED BY <1>4, <2>1, AppendProperties
<1>7. /\ x1'.events = Append(x1.events, e) /\ x1'.runs = x1.runs /\ x1'.active = ~x1.active
      /\ x1' \in [runs : BOOLEAN, active : BOOLEAN, events : Seq(Mount!Events)]
  BY <1>t, <1>5, <1>6
<1>8. e.type = "changed" /\ e.type \in {"changed", "reply"} /\ e.type # "reply" /\ e.active = x1'.active
  BY <1>7
<1> HIDE DEF e
<1>9. \/ x5' = x5 /\ e.type = "changed"
      \/ x5 # <<>> /\ x5' = Tail(x5) /\ e.type = "reply" /\ e.by = x5[1] /\ e.ok
  BY <1>5, <1>8
<1> QED BY <1>t, <1>4, <1>5, <1>7, <1>8, <1>9, SendKeeps

LEMMA StartsKeeps == ASSUME Mount!BusInv, Mount!Starts PROVE Mount!BusInv'
<1>0. Mount!BusTypes /\ Mount!EventsInOrder /\ Mount!LockIsComing /\ Mount!FirstAnswer
  BY DEF Mount!BusInv
<1>n. PICK n \in Nat : n = Len(x1.events) /\ DOMAIN x1.events = 1 .. n
  BY <1>0, EventTypes
<1>t. /\ x1 \in [runs : BOOLEAN, active : BOOLEAN, events : Seq(Mount!Events)]
      /\ x4 \in [made : Nat, making : Nat, live : SUBSET Nat] /\ x5 \in Seq(Nat \ {0})
      /\ \A i \in DOMAIN x5 : x5[i] <= x4.made
      /\ \A q \in x4.live : q \in 1 .. x4.made
      /\ (x3 = 0 \/ x3 \in x4.live)
  BY <1>0 DEF Mount!BusTypes
<1> DEFINE e == [type |-> "appeared"]
<1>2. e \in Mount!Events /\ e.type = "appeared"
  BY DEF Mount!Events
<1>3. PICK locked \in BOOLEAN : x1' = [runs |-> TRUE, active |-> locked, events |-> Append(x1.events, e)]
  BY DEF Mount!Starts
<1>4. UNCHANGED <<x2, x3, x4, x5>> /\ ~x1.runs
  BY DEF Mount!Starts
<1> HIDE DEF e
<1>5. Append(x1.events, e) \in Seq(Mount!Events)
  BY <1>t, <1>2, AppendProperties
<1>6. /\ x1'.events = Append(x1.events, e) /\ x1'.runs /\ x1'.active = locked
      /\ x1' \in [runs : BOOLEAN, active : BOOLEAN, events : Seq(Mount!Events)]
  BY <1>3, <1>5
<1>7. Mount!Gone(n + 1) /\ x5 = <<>>
  BY <1>0, <1>4, <1>n DEF Mount!EventsInOrder
<1>1. /\ Len(x1'.events) = n + 1 /\ DOMAIN x1'.events = 1 .. (n + 1)
      /\ x1'.events[n + 1] = e /\ \A j \in 1 .. n : x1'.events[j] = x1.events[j]
  BY <1>0, <1>n, <1>2, <1>6, SentLast
<1>8. Mount!BusTypes'
  <2>1. x4'.made >= x4.made /\ x4'.live \subseteq x4.live \cup {x4'.made}
        /\ (x4'.made = 0 => x4'.live = {}) /\ (x3' = 0 \/ x3' \in x4'.live)
        /\ x4' \in [made : Nat, making : Nat, live : SUBSET Nat]
    BY <1>t, <1>4
  <2>2. x5' \in Seq(Nat \ {0}) /\ \A i \in DOMAIN x5' : x5'[i] <= x4'.made
    BY <1>t, <1>4
  <2>3. x2' = x2 /\ (e.type = "reply" => e.by <= x4'.made)
    BY <1>2, <1>4
  <2> QED BY <1>0, <1>2, <1>6, <2>1, <2>2, <2>3, TypesGrown
<1>9. Mount!EventsInOrder'
  <2>1. \A i \in 1 .. n : Mount!InOrder(i)'
    <3>1. n + 1 \in (n + 1) .. (n + 1) /\ x1'.events[n + 1].type = "appeared"
      BY <1>1, <1>2
    <3>2. \E j \in (n + 1) .. (n + 1) : x1'.events[j].type = "appeared"
      BY <3>1
    <3> QED BY <1>0, <1>1, <1>4, <1>n, <3>2, OrderKept
  <2>2. Mount!InOrder(n + 1)'
    <3>1. n + 1 \in 1 .. (n + 1)
      OBVIOUS
    <3>2. Mount!Gone(n + 1)'
      BY <1>1, <1>4, <1>7, <3>1, GoneKept
    <3> QED BY <1>1, <1>2, <3>2 DEF Mount!InOrder
  <2>3. \A i \in 1 .. (n + 1) : i \in 1 .. n \/ i = n + 1
    OBVIOUS
  <2> QED BY <1>1, <1>6, <2>1, <2>2, <2>3 DEF Mount!EventsInOrder
<1>10. Mount!LockIsComing'
  <2>1. n + 1 \in DOMAIN x1'.events /\ x1'.events[n + 1].type = "appeared"
    BY <1>1, <1>2
  <2> QED BY <2>1 DEF Mount!LockIsComing
<1>11. Mount!FirstAnswer'
  <2>1. ASSUME x4.made = 0 PROVE ~x2' /\ Mount!Before(Len(x1.events) + 1, FALSE)'
    <3>1. Mount!Sets(n + 1)' /\ Mount!Value(n + 1)' = FALSE
      BY <1>1, <1>2 DEF Mount!Sets, Mount!Value
    <3>2. Mount!Before(Len(x1.events) + 1, FALSE)'
      BY <1>1, <3>1, BeforeNext
    <3>3. ~x2'
      BY <1>0, <1>4, <2>1 DEF Mount!FirstAnswer
    <3> QED BY <3>2, <3>3
  <2>2. ASSUME x4.made <= 1, x3 # 0, NEW i \in 1 .. (n + 1), Mount!Answer(i)', ~x1'.events[i].active
        PROVE  Mount!Before(i, FALSE)'
    <3>1. CASE i \in 1 .. n
      BY <1>0, <1>1, <1>4, <1>n, <2>2, <3>1, AnswersKept
    <3>2. CASE i = n + 1
      BY <1>1, <1>2, <2>2, <3>2 DEF Mount!Answer
    <3>3. i = n + 1 \/ i \in 1 .. n
      OBVIOUS
    <3> QED BY <3>1, <3>2, <3>3
  <2>3. x3' \notin Mount!Range(x5')
    BY <1>4, <1>7 DEF Mount!Range
  <2> QED BY <1>1, <1>4, <2>1, <2>2, <2>3 DEF Mount!FirstAnswer
<1> QED BY <1>8, <1>9, <1>10, <1>11 DEF Mount!BusInv

LEMMA FailedCalls ==
    ASSUME Mount!BusTypes, NEW n \in Nat, n = Len(x1.events), NEW m \in Nat, m = Len(x5), Mount!Stops
    PROVE  /\ x1'.events \in Seq(Mount!Events) /\ Len(x1'.events) = n + 1 + m /\ DOMAIN x1'.events = 1 .. (n + 1 + m)
           /\ \A j \in 1 .. n : x1'.events[j] = x1.events[j]
           /\ x1'.events[n + 1] = [type |-> "vanished"]
           /\ \A j \in (n + 2) .. (n + 1 + m) : \E i \in DOMAIN x5 : x1'.events[j] = Mount!Failed(x5[i])
<1> DEFINE gone == Append(x1.events, [type |-> "vanished"])
           failed == [i \in DOMAIN x5 |-> Mount!Failed(x5[i])]
<1>1. x1.events \in Seq(Mount!Events) /\ x5 \in Seq(Nat \ {0}) /\ DOMAIN x5 = 1 .. m
  BY DEF Mount!BusTypes
<1>2. [type |-> "vanished"] \in Mount!Events
  BY DEF Mount!Events
<1>3. /\ gone \in Seq(Mount!Events) /\ Len(gone) = n + 1 /\ gone[n + 1] = [type |-> "vanished"]
      /\ \A j \in 1 .. n : gone[j] = x1.events[j]
  BY <1>1, <1>2, AppendProperties
<1>4. failed \in Seq(Mount!Events) /\ Len(failed) = m /\ \A i \in 1 .. m : failed[i] = Mount!Failed(x5[i])
  <2>1. ASSUME NEW i \in 1 .. m PROVE Mount!Failed(x5[i]) \in Mount!Events
    <3>1. x5[i] \in Nat \ {0}
      BY <1>1
    <3>2. Mount!Failed(x5[i]) \in [type : {"reply"}, by : Nat \ {0}, ok : BOOLEAN, active : BOOLEAN]
      BY <3>1 DEF Mount!Failed
    <3> QED BY <3>2 DEF Mount!Events
  <2>2. failed = [i \in 1 .. m |-> Mount!Failed(x5[i])]
    BY <1>1
  <2>3. failed \in [1 .. m -> Mount!Events]
    BY <2>1, <2>2
  <2>4. failed \in Seq(Mount!Events) /\ Len(failed) = m
    BY <2>3
  <2> HIDE DEF failed
  <2> QED BY <2>2, <2>4
<1>5. x1'.events = gone \o failed
  BY DEF Mount!Stops
<1> HIDE DEF gone, failed
<1>6. /\ gone \o failed \in Seq(Mount!Events) /\ Len(gone \o failed) = Len(gone) + Len(failed)
      /\ \A i \in 1 .. (Len(gone) + Len(failed)) :
            (gone \o failed)[i] = IF i <= Len(gone) THEN gone[i] ELSE failed[i - Len(gone)]
  BY <1>3, <1>4, ConcatProperties
<1>7. Len(x1'.events) = n + 1 + m /\ x1'.events \in Seq(Mount!Events)
  BY <1>3, <1>4, <1>5, <1>6
<1>8. DOMAIN x1'.events = 1 .. (n + 1 + m)
  BY <1>7
<1>9. \A j \in 1 .. (n + 1 + m) : x1'.events[j] = IF j <= n + 1 THEN gone[j] ELSE failed[j - (n + 1)]
  BY <1>3, <1>4, <1>5, <1>6
<1>10. ASSUME NEW j \in 1 .. n PROVE x1'.events[j] = x1.events[j]
  <2>1. j \in 1 .. (n + 1 + m) /\ j <= n + 1
    OBVIOUS
  <2> QED BY <1>3, <1>9, <2>1
<1>11. x1'.events[n + 1] = [type |-> "vanished"]
  <2>1. n + 1 \in 1 .. (n + 1 + m) /\ n + 1 <= n + 1
    OBVIOUS
  <2> QED BY <1>3, <1>9, <2>1
<1>12. ASSUME NEW j \in (n + 2) .. (n + 1 + m) PROVE \E i \in DOMAIN x5 : x1'.events[j] = Mount!Failed(x5[i])
  <2>1. j \in 1 .. (n + 1 + m) /\ ~(j <= n + 1) /\ j - (n + 1) \in 1 .. m
    OBVIOUS
  <2>2. x1'.events[j] = failed[j - (n + 1)]
    BY <1>9, <2>1
  <2> QED BY <1>1, <1>4, <2>1, <2>2
<1> QED BY <1>7, <1>8, <1>10, <1>11, <1>12

LEMMA StopsKeeps == ASSUME Mount!BusInv, Mount!Stops PROVE Mount!BusInv'
<1>0. Mount!BusTypes /\ Mount!EventsInOrder /\ Mount!LockIsComing /\ Mount!FirstAnswer
  BY DEF Mount!BusInv
<1>n. PICK n \in Nat : n = Len(x1.events) /\ DOMAIN x1.events = 1 .. n
  BY <1>0, EventTypes
<1>t. /\ x4 \in [made : Nat, making : Nat, live : SUBSET Nat] /\ x5 \in Seq(Nat \ {0})
      /\ \A i \in DOMAIN x5 : x5[i] <= x4.made
      /\ \A q \in x4.live : q \in 1 .. x4.made
      /\ (x3 = 0 \/ x3 \in x4.live) /\ x2 \in BOOLEAN
      /\ \A i \in 1 .. n : x1.events[i].type = "reply" => x1.events[i].by <= x4.made
  BY <1>0, <1>n DEF Mount!BusTypes
<1>m. PICK m \in Nat : m = Len(x5)
  BY <1>t
<1>1. /\ x1'.events \in Seq(Mount!Events) /\ Len(x1'.events) = n + 1 + m /\ DOMAIN x1'.events = 1 .. (n + 1 + m)
      /\ \A j \in 1 .. n : x1'.events[j] = x1.events[j]
      /\ x1'.events[n + 1] = [type |-> "vanished"]
      /\ \A j \in (n + 2) .. (n + 1 + m) : \E i \in DOMAIN x5 : x1'.events[j] = Mount!Failed(x5[i])
  BY <1>0, <1>n, <1>m, FailedCalls
<1>2. ASSUME NEW j \in (n + 2) .. (n + 1 + m)
      PROVE  x1'.events[j].type = "reply" /\ ~x1'.events[j].ok /\ x1'.events[j].by <= x4.made
  <2>1. PICK i \in DOMAIN x5 : x1'.events[j] = Mount!Failed(x5[i])
    BY <1>1
  <2>2. x5[i] <= x4.made
    BY <1>t
  <2> QED BY <2>1, <2>2 DEF Mount!Failed
<1>3. \A j \in 1 .. (n + 1 + m) : j \in 1 .. n \/ j = n + 1 \/ j \in (n + 2) .. (n + 1 + m)
  OBVIOUS
<1>4. UNCHANGED <<x2, x3, x4>> /\ x5' = <<>> /\ x1'.runs = FALSE /\ x1'.active = FALSE
      /\ x1' = [runs |-> FALSE, active |-> FALSE, events |-> x1'.events]
  BY DEF Mount!Stops
<1>5. Mount!BusTypes'
  <2>1. x1' \in [runs : BOOLEAN, active : BOOLEAN, events : Seq(Mount!Events)]
    BY <1>1, <1>4
  <2>2. ASSUME NEW i \in DOMAIN x1'.events, x1'.events[i].type = "reply" PROVE x1'.events[i].by <= x4.made
    <3>1. CASE i \in 1 .. n
      BY <1>1, <1>t, <2>2, <3>1
    <3>2. CASE i = n + 1
      BY <1>1, <2>2, <3>2
    <3>3. CASE i \in (n + 2) .. (n + 1 + m)
      BY <1>2, <3>3
    <3> QED BY <1>1, <1>3, <3>1, <3>2, <3>3
  <2>3. x4' = x4 /\ x3' = x3 /\ x2' = x2 /\ x5' \in Seq(Nat \ {0}) /\ DOMAIN x5' = {}
    BY <1>4
  <2> QED BY <1>t, <2>1, <2>2, <2>3 DEF Mount!BusTypes
<1>6. Mount!EventsInOrder'
  <2>1. Mount!Gone(Len(x1.events) + 1)'
    <3>1. n + 1 \in 1 .. ((n + 1 + m + 1) - 1) /\ Len(x1'.events) + 1 = n + 1 + m + 1
          /\ (n + 1) + 1 = n + 2 /\ (n + 1 + m + 1) - 1 = n + 1 + m
      BY <1>1
    <3>2. \A j \in ((n + 1) + 1) .. ((n + 1 + m + 1) - 1) : x1'.events[j].type = "reply" /\ ~x1'.events[j].ok
      BY <1>2, <3>1
    <3>3. x1'.events[n + 1].type = "vanished"
      BY <1>1
    <3>4. Mount!Gone(n + 1 + m + 1)'
      BY <3>1, <3>2, <3>3 DEF Mount!Gone
    <3>5. PICK l \in Nat : l = n + 1 + m + 1
      OBVIOUS
    <3>6. Mount!Gone(l)'
      BY <3>4, <3>5
    <3> QED BY <3>1, <3>5, <3>6 DEF Mount!Gone
  <2>2. \A i \in 1 .. n : Mount!InOrder(i)'
    <3>0. 1 + m \in Nat /\ n + 1 + m = n + (1 + m)
      OBVIOUS
    <3>1. DOMAIN x1'.events = 1 .. (n + (1 + m))
      BY <1>1, <3>0
    <3> QED BY <1>0, <1>1, <1>4, <1>n, <3>0, <3>1, OrderKept
  <2>3. Mount!InOrder(n + 1)'
    BY <1>1, <1>4 DEF Mount!InOrder
  <2>4. \A i \in (n + 2) .. (n + 1 + m) : Mount!InOrder(i)'
    BY <1>2, <1>4 DEF Mount!InOrder
  <2> QED BY <1>1, <1>3, <1>4, <2>1, <2>2, <2>3, <2>4 DEF Mount!EventsInOrder
<1>7. Mount!LockIsComing'
  BY <1>4 DEF Mount!LockIsComing
<1>8. Mount!FirstAnswer'
  <2>1. x4.made = 0 => ~x2'
    BY <1>0, <1>4 DEF Mount!FirstAnswer
  <2>2. ASSUME x4.made <= 1, x3 # 0, NEW i \in 1 .. (n + 1 + m), Mount!Answer(i)', ~x1'.events[i].active
        PROVE  Mount!Before(i, FALSE)'
    <3>1. CASE i \in 1 .. n
      BY <1>0, <1>1, <1>4, <1>n, <2>2, <3>1, AnswersKept
    <3>2. CASE i = n + 1
      BY <1>1, <2>2, <3>2 DEF Mount!Answer
    <3>3. CASE i \in (n + 2) .. (n + 1 + m)
      BY <1>2, <2>2, <3>3 DEF Mount!Answer
    <3> QED BY <1>3, <3>1, <3>2, <3>3
  <2>3. x3' \notin Mount!Range(x5')
    BY <1>4 DEF Mount!Range
  <2> QED BY <1>1, <1>4, <2>1, <2>2, <2>3 DEF Mount!FirstAnswer
<1> QED BY <1>5, <1>6, <1>7, <1>8 DEF Mount!BusInv

LEMMA BusBegins == Mount!Init => Mount!BusInv
<1> SUFFICES ASSUME Mount!Init PROVE Mount!BusInv
  OBVIOUS
<1>1. /\ x1 = [runs |-> FALSE, active |-> FALSE, events |-> <<>>] /\ x2 = FALSE /\ x3 = 0
      /\ x4 = [made |-> 0, making |-> 0, live |-> {}] /\ x5 = <<>>
  BY DEF Mount!Init
<1>2. x1.events = <<>> /\ ~x1.runs /\ ~x1.active /\ DOMAIN x1.events = {} /\ Len(x1.events) + 1 = 1
  BY <1>1
<1>3. Mount!BusTypes
  <2>1. x1 \in [runs : BOOLEAN, active : BOOLEAN, events : Seq(Mount!Events)] /\ x5 \in Seq(Nat \ {0})
    BY <1>1
  <2>2. x4 \in [made : Nat, making : Nat, live : SUBSET Nat] /\ x4.live = {} /\ DOMAIN x5 = {}
    BY <1>1
  <2> QED BY <1>1, <1>2, <2>1, <2>2 DEF Mount!BusTypes
<1>4. Mount!EventsInOrder
  BY <1>1, <1>2 DEF Mount!EventsInOrder, Mount!Gone
<1>5. Mount!LockIsComing /\ Mount!FirstAnswer
  BY <1>1, <1>2 DEF Mount!LockIsComing, Mount!FirstAnswer
<1> QED BY <1>3, <1>4, <1>5 DEF Mount!BusInv

LEMMA BusStep == ASSUME Mount!BusInv, [Mount!Next]_(Mount!vars) PROVE Mount!BusInv'
<1>1. CASE Mount!Appeared
  BY <1>1, AppearedKeeps
<1>2. CASE Mount!ProxyReady
  BY <1>2, ProxyReadyKeeps
<1>3. CASE Mount!Vanished
  BY <1>3, VanishedKeeps
<1>4. CASE Mount!GetActiveReady
  BY <1>4, AnswerKeeps
<1>5. CASE Mount!ScreensaverSignal
  BY <1>5, SignalKeeps
<1>6. CASE Mount!Answers
  BY <1>6, AnswersKeeps
<1>7. CASE Mount!Locks
  BY <1>7, LocksKeeps
<1>8. CASE Mount!Starts
  BY <1>8, StartsKeeps
<1>9. CASE Mount!Stops
  BY <1>9, StopsKeeps
<1>10. CASE UNCHANGED <<Mount!bus, x2>>
  <2>1. UNCHANGED <<x1, x3, x4, x5, x2>>
    BY <1>10 DEF Mount!bus
  <2>2. Mount!BusTypes' /\ Mount!EventsInOrder'
    BY <2>1 DEF Mount!BusInv, Mount!BusTypes, Mount!EventsInOrder, Mount!InOrder, Mount!Gone
  <2>3. ASSUME NEW i \in Int, NEW v \in BOOLEAN PROVE Mount!Before(i, v)' <=> Mount!Before(i, v)
    BY <2>1 DEF Mount!Before, Mount!Sets, Mount!Answer, Mount!Value
  <2>4. \A i \in DOMAIN x1.events : i \in Int
    BY EventTypes DEF Mount!BusInv
  <2>5. PICK n \in Int, a \in BOOLEAN : n = Len(x1.events) + 1 /\ a = x1.active
    BY EventTypes DEF Mount!BusInv
  <2>6. Mount!LockIsComing'
    <3>1. Mount!Before(n, a) <=> Mount!Before(Len(x1.events) + 1, x1.active)
      BY <2>5 DEF Mount!Before
    <3>2. Mount!Before(n, a)' <=> Mount!Before(Len(x1.events) + 1, x1.active)'
      BY <2>1, <2>5 DEF Mount!Before
    <3>3. Mount!Before(n, a)' <=> Mount!Before(n, a)
      BY <2>3
    <3> QED BY <2>1, <3>1, <3>2, <3>3 DEF Mount!BusInv, Mount!LockIsComing
  <2>7. Mount!FirstAnswer'
    <3>1. Mount!Before(n, FALSE)' <=> Mount!Before(n, FALSE)
      BY <2>3
    <3>2. \A i \in DOMAIN x1.events : Mount!Before(i, FALSE)' <=> Mount!Before(i, FALSE)
      BY <2>3, <2>4
    <3> QED BY <2>1, <2>5, <3>1, <3>2 DEF Mount!BusInv, Mount!FirstAnswer, Mount!Answer
  <2> QED BY <2>2, <2>6, <2>7 DEF Mount!BusInv
<1>11. CASE \/ Mount!SessionChanges \/ Mount!AutomountAll \/ Mount!VolumeAdded \/ Mount!VolumeRemoved
            \/ Mount!AutorunMount \/ Mount!VolumeMounted \/ Mount!StartupMounted \/ Mount!MarkEnds \/ Mount!Unmounted
            \/ Mount!Guessed \/ Mount!Chooses \/ Mount!Remembers \/ Mount!Confirms \/ Mount!Cancels
  <2>1. UNCHANGED <<Mount!bus, x2>>
    BY <1>11 DEF Mount!SessionChanges, Mount!AutomountAll, Mount!VolumeAdded, Mount!VolumeRemoved,
          Mount!AutorunMount, Mount!VolumeMounted,
         Mount!StartupMounted, Mount!MarkEnds, Mount!Unmounted, Mount!Guessed, Mount!Chooses, Mount!Remembers,
               Mount!Confirms, Mount!Cancels
  <2> QED BY <1>10, <2>1
<1>12. CASE UNCHANGED Mount!vars
  BY <1>10, <1>12 DEF Mount!vars
<1> QED BY <1>1, <1>2, <1>3, <1>4, <1>5, <1>6, <1>7, <1>8, <1>9, <1>11, <1>12 DEF Mount!Next

(* ------------------------------------------------------ the queue --------- *)
LEMMA QueueGrown ==
    ASSUME NEW S, NEW q \in Seq(S), Mount!IsInjective(q), NEW v \in S, v \notin Mount!Range(q)
    PROVE  /\ <<v>> \o q \in Seq(S) /\ Mount!IsInjective(<<v>> \o q)
           /\ Mount!Range(<<v>> \o q) \subseteq Mount!Range(q) \cup {v}
<1>n. PICK n \in Nat : n = Len(q) /\ DOMAIN q = 1 .. n
  OBVIOUS
<1>1. <<v>> \in Seq(S) /\ Len(<<v>>) = 1 /\ <<v>>[1] = v
  OBVIOUS
<1> DEFINE r == <<v>> \o q
<1>2. /\ r \in Seq(S) /\ Len(r) = 1 + n
      /\ \A i \in 1 .. (1 + n) : r[i] = IF i <= 1 THEN <<v>>[i] ELSE q[i - 1]
  BY <1>1, <1>n, ConcatProperties
<1> HIDE DEF r
<1>3. DOMAIN r = 1 .. (n + 1)
  BY <1>2
<1>4. ASSUME NEW i \in 1 .. (n + 1)
      PROVE  (i = 1 /\ r[i] = v) \/ (i # 1 /\ i - 1 \in DOMAIN q /\ r[i] = q[i - 1] /\ (i - 1) + 1 = i)
  BY <1>1, <1>2, <1>n
<1>5. Mount!Range(r) \subseteq Mount!Range(q) \cup {v}
  BY <1>3, <1>4 DEF Mount!Range
<1>6. ASSUME NEW i \in 1 .. (n + 1), NEW j \in 1 .. (n + 1), r[i] = r[j] PROVE i = j
  <2>1. CASE i = 1 /\ r[i] = v
    BY <1>4, <1>6, <2>1 DEF Mount!Range
  <2>2. CASE i # 1 /\ i - 1 \in DOMAIN q /\ r[i] = q[i - 1] /\ (i - 1) + 1 = i
    <3>1. CASE j = 1 /\ r[j] = v
      BY <1>6, <2>2, <3>1 DEF Mount!Range
    <3>2. CASE j # 1 /\ j - 1 \in DOMAIN q /\ r[j] = q[j - 1] /\ (j - 1) + 1 = j
      BY <1>6, <2>2, <3>2 DEF Mount!IsInjective
    <3> QED BY <1>4, <3>1, <3>2
  <2> QED BY <1>4, <2>1, <2>2
<1>7. Mount!IsInjective(r)
  BY <1>3, <1>6 DEF Mount!IsInjective
<1> QED BY <1>2, <1>5, <1>7 DEF r

LEMMA QueueCut ==
    ASSUME NEW S, NEW q \in Seq(S), Mount!IsInjective(q), NEW n \in Nat, n = Len(q), NEW k \in 1 .. n
    PROVE  /\ Mount!RemoveAt(q, k) \in Seq(S) /\ Mount!IsInjective(Mount!RemoveAt(q, k))
           /\ Mount!Range(Mount!RemoveAt(q, k)) \subseteq Mount!Range(q) \ {q[k]}
<1>n. n = Len(q) /\ DOMAIN q = 1 .. n
  OBVIOUS
<1> DEFINE a == SubSeq(q, 1, k - 1)
           b == SubSeq(q, k + 1, Len(q))
           r == Mount!RemoveAt(q, k)
<1>1. a \in Seq(S) /\ Len(a) = k - 1 /\ \A i \in 1 .. (k - 1) : a[i] = q[i]
  BY <1>n
<1>2. b \in Seq(S) /\ Len(b) = n - k /\ \A i \in 1 .. (n - k) : b[i] = q[i + k]
  <2>1. k \in 1 .. n /\ b = SubSeq(q, k + 1, n)
    BY <1>n
  <2>2. PICK m \in Int : m = k + 1
    BY <2>1
  <2>3. \A i \in m .. n : q[i] \in S
    BY <1>n, <2>1, <2>2
  <2>4. /\ SubSeq(q, m, n) \in Seq(S) /\ Len(SubSeq(q, m, n)) = IF m <= n THEN n - m + 1 ELSE 0
        /\ \A i \in 1 .. (n - m + 1) : SubSeq(q, m, n)[i] = q[m + i - 1]
    BY <1>n, <2>2, <2>3, SubSeqProperties
  <2>5. b = SubSeq(q, m, n)
    BY <2>1, <2>2
  <2> HIDE DEF b
  <2>6. n - m + 1 = n - k /\ (~(m <= n) => n - k = 0)
    BY <2>1, <2>2
  <2>7. b \in Seq(S) /\ Len(b) = n - k
    BY <2>4, <2>5, <2>6
  <2>8. ASSUME NEW i \in 1 .. (n - k) PROVE b[i] = q[i + k]
    <3>1. i \in 1 .. (n - m + 1) /\ m + i - 1 = i + k
      BY <2>1, <2>2
    <3>2. b[i] = q[m + i - 1]
      BY <2>4, <2>5, <3>1
    <3> QED BY <3>1, <3>2
  <2> QED BY <2>7, <2>8
<1>3. r = a \o b
  BY DEF Mount!RemoveAt
<1> HIDE DEF a, b, r
<1>4. /\ r \in Seq(S) /\ Len(r) = n - 1
      /\ \A i \in 1 .. (n - 1) : r[i] = IF i <= k - 1 THEN a[i] ELSE b[i - (k - 1)]
  <2>1. /\ a \o b \in Seq(S) /\ Len(a \o b) = Len(a) + Len(b)
        /\ \A i \in 1 .. (Len(a) + Len(b)) : (a \o b)[i] = IF i <= Len(a) THEN a[i] ELSE b[i - Len(a)]
    BY <1>1, <1>2, ConcatProperties
  <2>2. Len(a) = k - 1 /\ Len(b) = n - k /\ Len(a) + Len(b) = n - 1
    BY <1>1, <1>2, <1>n
  <2> QED BY <1>3, <2>1, <2>2
<1>5. DOMAIN r = 1 .. (n - 1)
  BY <1>4
<1>6. ASSUME NEW i \in 1 .. (n - 1)
      PROVE  (i < k /\ r[i] = q[i]) \/ (i >= k /\ r[i] = q[i + 1])
  <2>1. CASE i <= k - 1
    <3>1. i \in 1 .. (k - 1)
      BY <1>n, <2>1
    <3> QED BY <1>1, <1>4, <2>1, <3>1, <1>n
  <2>2. CASE ~(i <= k - 1)
    <3>1. i - (k - 1) \in 1 .. (n - k) /\ (i - (k - 1)) + k = i + 1 /\ i >= k
      BY <1>n, <2>2
    <3>2. r[i] = b[i - (k - 1)]
      BY <1>4, <2>2
    <3>3. b[i - (k - 1)] = q[(i - (k - 1)) + k]
      BY <1>2, <3>1
    <3> QED BY <3>1, <3>2, <3>3
  <2> QED BY <2>1, <2>2
<1>7. ASSUME NEW i \in 1 .. (n - 1) PROVE \E m \in DOMAIN q : m # k /\ r[i] = q[m] /\ m = (IF i < k THEN i ELSE i + 1)
  BY <1>6, <1>n
<1>8. Mount!Range(r) \subseteq Mount!Range(q) \ {q[k]}
  BY <1>5, <1>7, SMTT(30) DEF Mount!Range, Mount!IsInjective
<1>9. ASSUME NEW i \in 1 .. (n - 1), NEW j \in 1 .. (n - 1), r[i] = r[j] PROVE i = j
  <2>1. (IF i < k THEN i ELSE i + 1) = (IF j < k THEN j ELSE j + 1)
    BY <1>7, <1>9 DEF Mount!IsInjective
  <2> QED BY <1>n, <2>1
<1>10. Mount!IsInjective(r)
  BY <1>5, <1>9 DEF Mount!IsInjective
<1> QED BY <1>4, <1>8, <1>10 DEF r

(* A mark needs a mount that runs or a timer.                                 *)
Marked(r) == r.mark => r.mounting > 0 \/ r.timers > 0

LEMMA OneVolume ==
    ASSUME Mount!VolumeTypes, Mount!MarkIsTemporary, NEW v \in Volumes, NEW r \in Mount!Vols, Marked(r),
           x9' = [x9 EXCEPT ![v] = r]
    PROVE  x9' \in [Volumes -> Mount!Vols] /\ Mount!MarkIsTemporary'
<1>1. x9 \in [Volumes -> Mount!Vols]
  BY DEF Mount!VolumeTypes
<1>2. x9' \in [Volumes -> Mount!Vols]
  BY <1>1
<1>3. ASSUME NEW u \in Volumes PROVE Marked(x9'[u])
  BY <1>1 DEF Mount!MarkIsTemporary, Marked
<1> QED BY <1>2, <1>3 DEF Mount!MarkIsTemporary, Marked

LEMMA VolumesKeep ==
    ASSUME Mount!VolumeTypes, Mount!MarkIsTemporary, [Mount!Next]_(Mount!vars)
    PROVE  x9' \in [Volumes -> Mount!Vols] /\ Mount!MarkIsTemporary'
<1>0. x9 \in [Volumes -> Mount!Vols] /\ \A v \in Volumes : x9[v] \in Mount!Vols /\ Marked(x9[v])
  BY DEF Mount!VolumeTypes, Mount!MarkIsTemporary, Marked
<1>a. ASSUME NEW r \in Mount!Vols
      PROVE  /\ Mount!DoMount(r) \in Mount!Vols /\ Marked(Mount!DoMount(r)) /\ Mount!Allow(r) \in Mount!Vols
            /\ Marked(Mount!Allow(r))
  <2>1. PICK m \in Nat, t \in Nat : m = r.mounting + 1 /\ t = r.timers + 1
    BY DEF Mount!Vols
  <2>2. [r EXCEPT !.mounting = m, !.mark = TRUE] \in Mount!Vols
    BY Zenon DEF Mount!Vols
  <2>3. [r EXCEPT !.mark = TRUE, !.timers = t] \in Mount!Vols
    BY Zenon DEF Mount!Vols
  <2>4. Mount!DoMount(r) = [r EXCEPT !.mounting = m, !.mark = TRUE] /\ Mount!Allow(r) = [r EXCEPT !.mark = TRUE,
        !.timers = t]
    BY <2>1 DEF Mount!DoMount, Mount!Allow
  <2>5. m > 0 /\ t > 0
    BY <2>1 DEF Mount!Vols
  <2>6. [r EXCEPT !.mounting = m, !.mark = TRUE].mounting = m /\ [r EXCEPT !.mark = TRUE, !.timers = t].timers = t
    BY DEF Mount!Vols
  <2> QED BY <2>2, <2>3, <2>4, <2>5, <2>6 DEF Marked
<1>1. CASE Mount!ScreensaverSignal
  <2>1. x9' = x9 \/ x9' = [v \in Volumes |-> IF v \in Mount!Range(x7) THEN Mount!DoMount(x9[v]) ELSE x9[v]]
    BY <1>1 DEF Mount!ScreensaverSignal
  <2>2. ASSUME x9' = [v \in Volumes |-> IF v \in Mount!Range(x7) THEN Mount!DoMount(x9[v]) ELSE x9[v]]
        PROVE  x9' \in [Volumes -> Mount!Vols] /\ \A v \in Volumes : Marked(x9'[v])
    BY <1>0, <1>a, <2>2
  <2> QED BY <1>0, <2>1, <2>2 DEF Mount!MarkIsTemporary, Marked
<1>2. CASE Mount!AutomountAll
  <2>1. PICK set \in SUBSET Volumes :
           x9' = [v \in Volumes |-> IF v \in set THEN [x9[v] EXCEPT !.startup = TRUE] ELSE x9[v]]
    BY <1>2 DEF Mount!AutomountAll
  <2>2. ASSUME NEW r \in Mount!Vols PROVE [r EXCEPT !.startup = TRUE] \in Mount!Vols
        /\ [r EXCEPT !.startup = TRUE].mark = r.mark
               /\ [r EXCEPT !.startup = TRUE].mounting = r.mounting /\ [r EXCEPT !.startup = TRUE].timers = r.timers
    BY DEF Mount!Vols
  <2>3. x9' \in [Volumes -> Mount!Vols]
    BY <1>0, <2>1, <2>2
  <2>4. \A v \in Volumes : Marked(x9'[v])
    BY <1>0, <2>1, <2>2 DEF Marked
  <2> QED BY <2>3, <2>4 DEF Mount!MarkIsTemporary, Marked
<1>3. CASE Mount!VolumeAdded
  <2>1. PICK v \in Volumes, automount \in BOOLEAN :
           LET new == [Mount!NoVolume EXCEPT !.there = TRUE]
           IN  x9' = [x9 EXCEPT ![v] = IF ~automount THEN Mount!Allow(new)
                                         ELSE IF x6 /\ ~x2 THEN Mount!DoMount(new) ELSE new]
    BY <1>3 DEF Mount!VolumeAdded
  <2> DEFINE new == [Mount!NoVolume EXCEPT !.there = TRUE]
  <2>2. new \in Mount!Vols /\ Marked(new)
    BY DEF Mount!NoVolume, Mount!Vols, Marked
  <2> HIDE DEF new
  <2>3. PICK r \in Mount!Vols : Marked(r) /\ x9' = [x9 EXCEPT ![v] = r]
    BY <1>a, <2>1, <2>2 DEF new
  <2> QED BY <2>3, OneVolume
<1>4. CASE Mount!VolumeRemoved
  <2>1. PICK v \in Volumes : x9' = [x9 EXCEPT ![v].there = FALSE, ![v].mounted = FALSE]
    BY <1>4 DEF Mount!VolumeRemoved
  <2> DEFINE r == [x9[v] EXCEPT !.there = FALSE, !.mounted = FALSE]
  <2>2. r \in Mount!Vols /\ Marked(r)
    BY <1>0 DEF Mount!Vols, Marked
  <2>3. x9' = [x9 EXCEPT ![v] = r]
    BY <1>0, <2>1
  <2> HIDE DEF r
  <2> QED BY <2>2, <2>3, OneVolume
<1>5. CASE Mount!AutorunMount
  <2>1. PICK v \in Volumes : x9' = [x9 EXCEPT ![v].mounted = TRUE, ![v].mark = IF x6 THEN FALSE ELSE @]
    BY <1>5 DEF Mount!AutorunMount
  <2> DEFINE r == [x9[v] EXCEPT !.mounted = TRUE, !.mark = IF x6 THEN FALSE ELSE @]
  <2>2. r \in Mount!Vols /\ Marked(r)
    BY <1>0 DEF Mount!Vols, Marked
  <2>3. x9' = [x9 EXCEPT ![v] = r]
    BY <1>0, <2>1
  <2> HIDE DEF r
  <2> QED BY <2>2, <2>3, OneVolume
<1>6. CASE Mount!VolumeMounted
  <2>1. PICK v \in Volumes : /\ x9[v].mounting > 0
                             /\ x9' = [x9 EXCEPT ![v].mounting = @ - 1, ![v].timers = IF x9[v].mark THEN @ + 1 ELSE @]
    BY <1>6 DEF Mount!VolumeMounted
  <2> DEFINE r == [x9[v] EXCEPT !.mounting = @ - 1, !.timers = IF x9[v].mark THEN @ + 1 ELSE @]
  <2>0. x9[v] \in Mount!Vols /\ x9[v].mounting - 1 \in Nat /\ x9[v].timers + 1 \in Nat
    BY <1>0, <2>1 DEF Mount!Vols
  <2>2. r.timers = (IF x9[v].mark THEN x9[v].timers + 1 ELSE x9[v].timers) /\ r.mark = x9[v].mark
    BY <2>0 DEF Mount!Vols
  <2>3. Marked(r)
    BY <2>0, <2>2 DEF Marked, Mount!Vols
  <2>4. r \in Mount!Vols
    <3>1. PICK m \in Nat, t \in Nat : m = x9[v].mounting - 1
          /\ t = (IF x9[v].mark THEN x9[v].timers + 1 ELSE x9[v].timers)
      BY <2>0 DEF Mount!Vols
    <3>2. [x9[v] EXCEPT !.mounting = m, !.timers = t] \in Mount!Vols
      BY <2>0, Zenon DEF Mount!Vols
    <3> QED BY <3>1, <3>2
  <2>5. x9' = [x9 EXCEPT ![v] = r]
    BY <1>0, <2>1
  <2> HIDE DEF r
  <2> QED BY <2>3, <2>4, <2>5, OneVolume
<1>7. CASE Mount!StartupMounted
  <2>1. PICK v \in Volumes : x9' = [x9 EXCEPT ![v].startup = FALSE]
    BY <1>7 DEF Mount!StartupMounted
  <2> DEFINE r == [x9[v] EXCEPT !.startup = FALSE]
  <2>2. r \in Mount!Vols /\ Marked(r)
    BY <1>0 DEF Mount!Vols, Marked
  <2>3. x9' = [x9 EXCEPT ![v] = r]
    BY <1>0, <2>1
  <2> HIDE DEF r
  <2> QED BY <2>2, <2>3, OneVolume
<1>8. CASE Mount!MarkEnds
  <2>1. PICK v \in Volumes : x9[v].timers > 0 /\ x9' = [x9 EXCEPT ![v].timers = @ - 1, ![v].mark = FALSE]
    BY <1>8 DEF Mount!MarkEnds
  <2> DEFINE r == [x9[v] EXCEPT !.timers = @ - 1, !.mark = FALSE]
  <2>0. x9[v] \in Mount!Vols /\ x9[v].timers - 1 \in Nat
    BY <1>0, <2>1 DEF Mount!Vols
  <2>2. r \in Mount!Vols
    <3>1. PICK t \in Nat : t = x9[v].timers - 1
      BY <2>0
    <3>2. [x9[v] EXCEPT !.timers = t, !.mark = FALSE] \in Mount!Vols
      BY <2>0, Zenon DEF Mount!Vols
    <3> QED BY <3>1, <3>2
  <2>3. Marked(r)
    BY <2>0 DEF Marked, Mount!Vols
  <2>4. x9' = [x9 EXCEPT ![v] = r]
    BY <1>0, <2>1
  <2> HIDE DEF r
  <2> QED BY <2>2, <2>3, <2>4, OneVolume
<1>9. CASE Mount!Unmounted
  <2>1. PICK v \in Volumes : x9' = [x9 EXCEPT ![v].mounted = FALSE]
    BY <1>9 DEF Mount!Unmounted
  <2> DEFINE r == [x9[v] EXCEPT !.mounted = FALSE]
  <2>2. r \in Mount!Vols /\ Marked(r)
    BY <1>0 DEF Mount!Vols, Marked
  <2>3. x9' = [x9 EXCEPT ![v] = r]
    BY <1>0, <2>1
  <2> HIDE DEF r
  <2> QED BY <2>2, <2>3, OneVolume
<1>10. CASE UNCHANGED x9
  BY <1>0, <1>10 DEF Mount!MarkIsTemporary, Marked
<1>11. CASE \/ Mount!Appeared \/ Mount!ProxyReady \/ Mount!Vanished \/ Mount!GetActiveReady \/ Mount!Answers
      \/ Mount!Locks \/ Mount!Starts \/ Mount!Stops
            \/ Mount!SessionChanges \/ Mount!Guessed \/ Mount!Chooses \/ Mount!Remembers \/ Mount!Confirms
                  \/ Mount!Cancels \/ UNCHANGED Mount!vars
  <2>1. UNCHANGED x9
    BY <1>11 DEF Mount!Appeared, Mount!ProxyReady, Mount!Vanished, Mount!GetActiveReady, Mount!Answers,
          Mount!Locks, Mount!Starts, Mount!Stops,
       Mount!SessionChanges, Mount!Guessed, Mount!Chooses, Mount!Remembers, Mount!Confirms, Mount!Cancels, Mount!vars
  <2> QED BY <1>10, <2>1, SMTT(60)
<1> QED BY <1>1, <1>2, <1>3, <1>4, <1>5, <1>6, <1>7, <1>8, <1>9, <1>11 DEF Mount!Next

(* What is in the queue stays as it is, or leaves, unless it is added.        *)
LEMMA QueueKept ==
    ASSUME Mount!QueueWaitsForLock, UNCHANGED <<x7, x6>>, x4'.made >= x4.made,
           x4.made \in Nat, x4'.made \in Nat, x2' = x2 \/ x2' = TRUE \/ (x2' = FALSE /\ (x2 = FALSE \/ x4.made > 1)),
           \A v \in Mount!Range(x7) : x9'[v].there = x9[v].there /\ (x9'[v].mark => x9[v].mark)
    PROVE  Mount!QueueWaitsForLock'
BY DEF Mount!QueueWaitsForLock

LEMMA QueueOfSender ==
    ASSUME Mount!BusInv, Mount!VolumeTypes, Mount!QueueWaitsForLock, Mount!Appeared \/ Mount!ProxyReady
          \/ Mount!Vanished \/ Mount!GetActiveReady \/ Mount!ScreensaverSignal
    PROVE  Mount!QueueWaitsForLock' /\ x7' \in Seq(Volumes)
<1>0. Mount!BusTypes /\ Mount!EventsInOrder /\ Mount!FirstAnswer /\ x7 \in Seq(Volumes) /\ x2 \in BOOLEAN
  BY EventTypes DEF Mount!BusInv, Mount!VolumeTypes
<1>t. x4.made \in Nat /\ x4 \in [made : Nat, making : Nat, live : SUBSET Nat]
  BY <1>0 DEF Mount!BusTypes
<1>1. CASE Mount!Appeared
  <2>1. UNCHANGED <<x7, x6, x9>> /\ x4' = [x4 EXCEPT !.making = @ + 1]
        /\ x1.events # <<>> /\ x1.events[1].type = "appeared"
        /\ x2' = FALSE
    BY <1>1 DEF Mount!Appeared, Mount!Is, Mount!autorun
  <2>2. x4'.made = x4.made
    BY <1>t, <2>1
  <2>3. ~x2
    <3>1. 1 \in DOMAIN x1.events
      BY <1>0, <2>1, EventTypes
    <3>2. Mount!Gone(1)
      BY <1>0, <2>1, <3>1 DEF Mount!EventsInOrder, Mount!InOrder
    <3> QED BY <3>2 DEF Mount!Gone
  <2>4. x2' = x2
    BY <1>0, <2>1, <2>3
  <2>5. \A v \in Mount!Range(x7) : x9'[v].there = x9[v].there /\ (x9'[v].mark => x9[v].mark)
    BY <2>1
  <2>6. x4'.made >= x4.made /\ x4'.made \in Nat
    BY <1>t, <2>2
  <2>7. Mount!QueueWaitsForLock'
    BY <1>t, <2>1, <2>4, <2>5, <2>6, QueueKept
  <2> QED BY <1>0, <2>1, <2>7
<1>2. CASE Mount!ProxyReady
  <2>1. UNCHANGED <<x7, x6, x9, x2>> /\ x4'.made = x4.made + 1
    BY <1>2 DEF Mount!ProxyReady
  <2> QED BY <1>0, <1>t, <2>1, QueueKept
<1>3. CASE Mount!Vanished
  BY <1>3 DEF Mount!Vanished, Mount!QueueWaitsForLock
<1>4. CASE Mount!GetActiveReady
  <2>1. UNCHANGED <<x7, x6, x9>> /\ x1.events # <<>> /\ x1.events[1].type = "reply"
        /\ x2' = (IF x1.events[1].by = x3 /\ x1.events[1].ok THEN x1.events[1].active ELSE x2)
        /\ x4' = [x4 EXCEPT !.live = IF x1.events[1].by = x3 \/ x1.events[1].by < x3
                                             THEN @ ELSE @ \ {x1.events[1].by}]
    BY <1>4 DEF Mount!GetActiveReady, Mount!Is
  <2>2. x4'.made = x4.made
    BY <1>t, <2>1
  <2>3. ASSUME Mount!Answer(1), ~x1.events[1].active, x4.made <= 1 PROVE x2 = FALSE
    <3>1. 1 \in DOMAIN x1.events
      BY <1>0, <2>1, EventTypes
    <3>2. x1.events[1] \in Mount!Events /\ x1.events[1].type = "reply"
      BY <1>0, <2>1, <3>1, EventTypes
    <3>3. x1.events[1].by # 0
      BY <3>2 DEF Mount!Events
    <3>4. x3 # 0
      BY <2>3, <3>3 DEF Mount!Answer
    <3>5. Mount!Before(1, FALSE)
      BY <1>0, <2>3, <3>1, <3>4 DEF Mount!FirstAnswer
    <3> QED BY <3>5 DEF Mount!Before
  <2>4. x2' = x2 \/ (Mount!Answer(1) /\ x2' = x1.events[1].active)
    BY <2>1 DEF Mount!Answer
  <2>5. x2' = x2 \/ x2' = TRUE \/ (x2' = FALSE /\ (x2 = FALSE \/ x4.made > 1))
    <3>1. CASE Mount!Answer(1) /\ x2' = x1.events[1].active
      <4>1. x1.events[1].active \in BOOLEAN
        <5>1. 1 \in DOMAIN x1.events
          BY <1>0, <2>1, EventTypes
        <5>2. x1.events[1] \in Mount!Events /\ x1.events[1].type = "reply"
          BY <1>0, <2>1, <5>1, EventTypes
        <5> QED BY <5>2 DEF Mount!Events
      <4>2. CASE x1.events[1].active = TRUE
        BY <3>1, <4>2
      <4>3. CASE x1.events[1].active = FALSE
        <5>1. x4.made <= 1 \/ x4.made > 1
          BY <1>t
        <5> QED BY <2>3, <3>1, <4>3, <5>1
      <4> QED BY <4>1, <4>2, <4>3
    <3> QED BY <2>4, <3>1
  <2>6. x4'.made >= x4.made /\ x4'.made \in Nat
    BY <1>t, <2>2
  <2>7. \A v \in Mount!Range(x7) : x9'[v].there = x9[v].there /\ (x9'[v].mark => x9[v].mark)
    BY <2>1
  <2>8. Mount!QueueWaitsForLock'
    BY <1>t, <2>1, <2>5, <2>6, <2>7, QueueKept
  <2> QED BY <1>0, <2>1, <2>8
<1>5. CASE Mount!ScreensaverSignal
  <2>1. /\ x6' = x6 /\ x4' = x4 /\ x1.events # <<>> /\ x1.events[1].type = "changed"
        /\ x2' = (IF x4.live # {} THEN x1.events[1].active ELSE x2)
    BY <1>5 DEF Mount!ScreensaverSignal, Mount!Is
  <2>2. CASE x4.live = {} \/ x2'
    <3>1. UNCHANGED <<x9, x7>>
      BY <1>5, <2>2 DEF Mount!ScreensaverSignal
    <3>2. x2' = x2 \/ x2' = TRUE
      <4>1. CASE x4.live = {}
        BY <2>1, <4>1
      <4>2. CASE x4.live # {}
        <5>1. 1 \in DOMAIN x1.events
          BY <1>0, <2>1, EventTypes
        <5>2. x1.events[1] \in Mount!Events /\ x1.events[1].type = "changed"
          BY <1>0, <2>1, <5>1, EventTypes
        <5>3. x1.events[1].active \in BOOLEAN
          BY <5>2 DEF Mount!Events
        <5> QED BY <2>1, <2>2, <4>2, <5>3
      <4> QED BY <4>1, <4>2
    <3>3. x4'.made >= x4.made /\ x4'.made \in Nat
      BY <1>t, <2>1
    <3>4. \A v \in Mount!Range(x7) : x9'[v].there = x9[v].there /\ (x9'[v].mark => x9[v].mark)
      BY <3>1
    <3>5. Mount!QueueWaitsForLock'
      BY <1>t, <2>1, <3>1, <3>2, <3>3, <3>4, QueueKept
    <3> QED BY <1>0, <3>1, <3>5
  <2>3. CASE ~(x4.live = {} \/ x2')
    BY <1>5, <2>3 DEF Mount!ScreensaverSignal, Mount!QueueWaitsForLock
  <2> QED BY <2>2, <2>3
<1> QED BY <1>1, <1>2, <1>3, <1>4, <1>5

(* No other event touches what the manager knows of the lock.                 *)
LEMMA QueueOfVolumes ==
    ASSUME Mount!VolumeTypes, Mount!QueueWaitsForLock, UNCHANGED <<x4, x2>>,
           Mount!SessionChanges \/ Mount!AutomountAll \/ Mount!VolumeAdded \/ Mount!VolumeRemoved
                 \/ Mount!AutorunMount
              \/ Mount!VolumeMounted \/ Mount!StartupMounted \/ Mount!MarkEnds \/ Mount!Unmounted
    PROVE  Mount!QueueWaitsForLock' /\ x7' \in Seq(Volumes) /\ x6' \in BOOLEAN
<1>0. /\ x7 \in Seq(Volumes) /\ x9 \in [Volumes -> Mount!Vols] /\ x6 \in BOOLEAN
      /\ \A v \in Mount!Range(x7) : v \in Volumes
  BY DEF Mount!VolumeTypes, Mount!Range
<1>k. ASSUME UNCHANGED <<x7, x6>>,
             \A v \in Volumes : x9'[v].there = x9[v].there /\ (x9'[v].mark => x9[v].mark)
      PROVE  Mount!QueueWaitsForLock'
  BY <1>0, <1>k DEF Mount!QueueWaitsForLock
<1>1. CASE Mount!SessionChanges
  <2>1. x6' = ~x6 /\ x7' = (IF x6' THEN x7 ELSE <<>>) /\ x9' = x9
    BY <1>1 DEF Mount!SessionChanges
  <2>2. x7' = <<>>
    BY <2>1 DEF Mount!QueueWaitsForLock
  <2> QED BY <1>0, <2>1, <2>2 DEF Mount!QueueWaitsForLock
<1>2. CASE Mount!AutomountAll
  <2>1. PICK set \in SUBSET Volumes :
           x9' = [v \in Volumes |-> IF v \in set THEN [x9[v] EXCEPT !.startup = TRUE] ELSE x9[v]]
    BY <1>2 DEF Mount!AutomountAll
  <2>2. ASSUME NEW r \in Mount!Vols PROVE [r EXCEPT !.startup = TRUE].mark = r.mark
        /\ [r EXCEPT !.startup = TRUE].there = r.there
    BY DEF Mount!Vols
  <2>3. \A v \in Volumes : x9'[v].there = x9[v].there /\ (x9'[v].mark => x9[v].mark)
    BY <1>0, <2>1, <2>2
  <2>4. UNCHANGED <<x7, x6>>
    BY <1>2 DEF Mount!AutomountAll
  <2> QED BY <1>0, <1>k, <2>3, <2>4
<1>3. CASE Mount!VolumeAdded
  <2>1. PICK v \in {u \in Volumes : x9[u] = Mount!NoVolume /\ \A d \in x11 : d.volume # u}, automount \in BOOLEAN :
          /\ x9' = [x9 EXCEPT ![v] = LET new == [Mount!NoVolume EXCEPT !.there = TRUE] IN
                                       IF ~automount THEN Mount!Allow(new)
                                       ELSE IF x6 /\ ~x2 THEN Mount!DoMount(new) ELSE new]
          /\ x7' = IF automount /\ x6 /\ x2 THEN <<v>> \o x7 ELSE x7
    BY <1>3 DEF Mount!VolumeAdded
  <2>2. v \in Volumes /\ ~x9[v].there /\ x6' = x6
    BY <1>3, <2>1 DEF Mount!NoVolume, Mount!VolumeAdded
  <2>3. \A u \in Volumes : u # v => x9'[u] = x9[u]
    BY <1>0, <2>1
  <2>4. CASE automount /\ x6 /\ x2
    <3>1. Mount!IsInjective(x7) /\ v \notin Mount!Range(x7)
      <4>1. CASE x7 = <<>>
        BY <4>1 DEF Mount!IsInjective, Mount!Range
      <4>2. CASE x7 # <<>>
        BY <2>2, <4>2 DEF Mount!QueueWaitsForLock
      <4> QED BY <4>1, <4>2
    <3>2. x7' = <<v>> \o x7
      BY <2>1, <2>4
    <3>3. x7' \in Seq(Volumes) /\ Mount!IsInjective(x7') /\ Mount!Range(x7') \subseteq Mount!Range(x7) \cup {v}
      BY <1>0, <2>2, <3>1, <3>2, QueueGrown
    <3>4. x9'[v] = [Mount!NoVolume EXCEPT !.there = TRUE]
      BY <1>0, <2>1, <2>2, <2>4
    <3>5. x9'[v].there /\ ~x9'[v].mark
      BY <3>4 DEF Mount!NoVolume
    <3>6. ASSUME NEW u \in Mount!Range(x7) PROVE x9[u].there /\ ~x9[u].mark
      <4>1. x7 # <<>>
        BY <3>6 DEF Mount!Range
      <4> QED BY <3>6, <4>1 DEF Mount!QueueWaitsForLock
    <3>7. \A u \in Mount!Range(x7') : x9'[u].there /\ ~x9'[u].mark
      BY <1>0, <2>3, <3>3, <3>5, <3>6
    <3> QED BY <1>0, <2>2, <2>4, <3>3, <3>7 DEF Mount!QueueWaitsForLock
  <2>5. CASE ~(automount /\ x6 /\ x2)
    <3>1. x7' = x7
      BY <2>1, <2>5
    <3>2. x7 # <<>> => v \notin Mount!Range(x7)
      BY <2>2 DEF Mount!QueueWaitsForLock
    <3>3. \A u \in Mount!Range(x7) : x7 # <<>> => x9'[u] = x9[u]
      BY <1>0, <2>3, <3>2
    <3> QED BY <1>0, <2>2, <3>1, <3>3 DEF Mount!QueueWaitsForLock
  <2> QED BY <2>4, <2>5
<1>4. CASE Mount!VolumeRemoved
  <2>1. PICK v \in Volumes :
           /\ x9' = [x9 EXCEPT ![v].there = FALSE, ![v].mounted = FALSE]
           /\ IF v \notin Mount!Range(x7) THEN x7' = x7
              ELSE \E i \in DOMAIN x7 :
                      x7[i] = v /\ v \notin Mount!Range(SubSeq(x7, 1, i - 1)) /\ x7' = Mount!RemoveAt(x7, i)
           /\ x6' = x6
    BY <1>4 DEF Mount!VolumeRemoved
  <2>2. \A u \in Volumes : u # v => x9'[u] = x9[u]
    BY <1>0, <2>1
  <2>3. CASE v \notin Mount!Range(x7)
    <3>1. x7' = x7
      BY <2>1, <2>3
    <3>2. \A u \in Mount!Range(x7) : x9'[u] = x9[u]
      BY <1>0, <2>2, <2>3
    <3> QED BY <1>0, <2>1, <3>1, <3>2 DEF Mount!QueueWaitsForLock
  <2>4. CASE v \in Mount!Range(x7)
    <3>1. x7 # <<>> /\ Mount!IsInjective(x7)
      <4>1. x7 # <<>>
        BY <2>4 DEF Mount!Range
      <4> QED BY <4>1 DEF Mount!QueueWaitsForLock
    <3>2. PICK i \in DOMAIN x7 : x7[i] = v /\ x7' = Mount!RemoveAt(x7, i)
      BY <2>1, <2>4
    <3>n. PICK n \in Nat : n = Len(x7) /\ DOMAIN x7 = 1 .. n
      BY <1>0
    <3>3. i \in 1 .. n
      BY <3>n
    <3>4. x7' \in Seq(Volumes) /\ Mount!IsInjective(x7') /\ Mount!Range(x7') \subseteq Mount!Range(x7) \ {v}
      BY <1>0, <3>1, <3>2, <3>3, <3>n, QueueCut
    <3>5. \A u \in Mount!Range(x7') : x9'[u].there /\ ~x9'[u].mark
      BY <1>0, <2>2, <3>1, <3>4 DEF Mount!QueueWaitsForLock
    <3> QED BY <1>0, <2>1, <3>1, <3>4, <3>5 DEF Mount!QueueWaitsForLock
  <2> QED BY <2>3, <2>4
<1>5. CASE Mount!AutorunMount
  <2>1. PICK v \in Volumes : x9' = [x9 EXCEPT ![v].mounted = TRUE, ![v].mark = IF x6 THEN FALSE ELSE @]
    BY <1>5 DEF Mount!AutorunMount
  <2>2. UNCHANGED <<x7, x6>>
    BY <1>5 DEF Mount!AutorunMount
  <2>3. \A u \in Volumes : x9'[u].there = x9[u].there /\ (x9'[u].mark => x9[u].mark)
    BY <1>0, <2>1 DEF Mount!Vols
  <2> QED BY <1>0, <1>k, <2>2, <2>3
<1>6. CASE Mount!VolumeMounted
  <2>1. PICK v \in Volumes : x9' = [x9 EXCEPT ![v].mounting = @ - 1, ![v].timers = IF x9[v].mark THEN @ + 1 ELSE @]
    BY <1>6 DEF Mount!VolumeMounted
  <2>2. UNCHANGED <<x7, x6>>
    BY <1>6 DEF Mount!VolumeMounted
  <2>3. \A u \in Volumes : x9'[u].there = x9[u].there /\ (x9'[u].mark => x9[u].mark)
    BY <1>0, <2>1 DEF Mount!Vols
  <2> QED BY <1>0, <1>k, <2>2, <2>3
<1>7. CASE Mount!StartupMounted
  <2>1. PICK v \in Volumes : x9' = [x9 EXCEPT ![v].startup = FALSE]
    BY <1>7 DEF Mount!StartupMounted
  <2>2. UNCHANGED <<x7, x6>>
    BY <1>7 DEF Mount!StartupMounted
  <2>3. \A u \in Volumes : x9'[u].there = x9[u].there /\ (x9'[u].mark => x9[u].mark)
    BY <1>0, <2>1 DEF Mount!Vols
  <2> QED BY <1>0, <1>k, <2>2, <2>3
<1>8. CASE Mount!MarkEnds
  <2>1. PICK v \in Volumes : x9' = [x9 EXCEPT ![v].timers = @ - 1, ![v].mark = FALSE]
    BY <1>8 DEF Mount!MarkEnds
  <2>2. UNCHANGED <<x7, x6>>
    BY <1>8 DEF Mount!MarkEnds
  <2>3. \A u \in Volumes : x9'[u].there = x9[u].there /\ (x9'[u].mark => x9[u].mark)
    BY <1>0, <2>1 DEF Mount!Vols
  <2> QED BY <1>0, <1>k, <2>2, <2>3
<1>9. CASE Mount!Unmounted
  <2>1. PICK v \in Volumes : x9' = [x9 EXCEPT ![v].mounted = FALSE]
    BY <1>9 DEF Mount!Unmounted
  <2>2. UNCHANGED <<x7, x6>>
    BY <1>9 DEF Mount!Unmounted
  <2>3. \A u \in Volumes : x9'[u].there = x9[u].there /\ (x9'[u].mark => x9[u].mark)
    BY <1>0, <2>1 DEF Mount!Vols
  <2> QED BY <1>0, <1>k, <2>2, <2>3
<1> QED BY <1>1, <1>2, <1>3, <1>4, <1>5, <1>6, <1>7, <1>8, <1>9

LEMMA TypesOfVolumes ==
    ASSUME Mount!BusInv, Mount!VolumeTypes, Mount!QueueWaitsForLock, Mount!MarkIsTemporary, [Mount!Next]_(Mount!vars)
    PROVE  Mount!VolumeTypes' /\ Mount!QueueWaitsForLock' /\ Mount!MarkIsTemporary'
<1>0. /\ x7 \in Seq(Volumes) /\ x9 \in [Volumes -> Mount!Vols] /\ x6 \in BOOLEAN /\ x10 \subseteq Volumes
  BY DEF Mount!VolumeTypes
<1>1. x9' \in [Volumes -> Mount!Vols] /\ Mount!MarkIsTemporary'
  BY VolumesKeep
<1>2. CASE Mount!Appeared \/ Mount!ProxyReady \/ Mount!Vanished \/ Mount!GetActiveReady \/ Mount!ScreensaverSignal
  <2>1. Mount!QueueWaitsForLock' /\ x7' \in Seq(Volumes)
    BY <1>2, QueueOfSender
  <2>2. x6' = x6 /\ x10' = x10
    BY <1>2 DEF Mount!Appeared, Mount!ProxyReady, Mount!Vanished, Mount!GetActiveReady, Mount!ScreensaverSignal,
          Mount!autorun
  <2> QED BY <1>0, <1>1, <2>1, <2>2 DEF Mount!VolumeTypes
<1>3. CASE Mount!SessionChanges \/ Mount!AutomountAll \/ Mount!VolumeAdded \/ Mount!VolumeRemoved
      \/ Mount!AutorunMount
              \/ Mount!VolumeMounted \/ Mount!StartupMounted \/ Mount!MarkEnds \/ Mount!Unmounted
  <2>1. UNCHANGED <<x4, x2>>
    BY <1>3 DEF Mount!SessionChanges, Mount!AutomountAll, Mount!VolumeAdded, Mount!VolumeRemoved,
          Mount!AutorunMount, Mount!VolumeMounted,
       Mount!StartupMounted, Mount!MarkEnds, Mount!Unmounted, Mount!bus
  <2>2. Mount!QueueWaitsForLock' /\ x7' \in Seq(Volumes) /\ x6' \in BOOLEAN
    BY <1>3, <2>1, QueueOfVolumes
  <2>3. x10' \subseteq Volumes
    <3>1. CASE Mount!AutorunMount
      BY <1>0, <3>1 DEF Mount!AutorunMount
    <3>2. CASE Mount!SessionChanges \/ Mount!AutomountAll \/ Mount!VolumeAdded \/ Mount!VolumeRemoved
                  \/ Mount!VolumeMounted \/ Mount!StartupMounted \/ Mount!MarkEnds \/ Mount!Unmounted
      BY <1>0, <3>2, ZenonT(60) DEF Mount!SessionChanges, Mount!AutomountAll, Mount!VolumeAdded, Mount!VolumeRemoved,
            Mount!VolumeMounted,
         Mount!StartupMounted, Mount!MarkEnds, Mount!Unmounted, Mount!autorun
    <3> QED BY <1>3, <3>1, <3>2
  <2> QED BY <1>1, <2>2, <2>3 DEF Mount!VolumeTypes
<1>4. CASE Mount!Answers \/ Mount!Locks \/ Mount!Starts \/ Mount!Stops \/ Mount!Guessed \/ Mount!Chooses
      \/ Mount!Remembers \/ Mount!Confirms \/ Mount!Cancels \/ UNCHANGED Mount!vars
  <2>1. UNCHANGED <<x9, x7, x6, x2, x4>>
    BY <1>4, ZenonT(60) DEF Mount!Answers, Mount!Locks, Mount!Starts, Mount!Stops, Mount!Guessed, Mount!Chooses,
          Mount!Remembers, Mount!Confirms, Mount!Cancels, Mount!bus, Mount!vars
  <2>2. x10' \subseteq x10
    BY <1>4 DEF Mount!Answers, Mount!Locks, Mount!Starts, Mount!Stops, Mount!Guessed, Mount!Chooses,
          Mount!Remembers, Mount!Confirms, Mount!Cancels, Mount!autorun, Mount!vars
  <2>3. Mount!QueueWaitsForLock'
    BY <2>1 DEF Mount!QueueWaitsForLock
  <2> QED BY <1>0, <1>1, <2>1, <2>2, <2>3, SMTT(60) DEF Mount!VolumeTypes
<1> QED BY <1>2, <1>3, <1>4 DEF Mount!Next

LEMMA AutomountBegins == ASSUME Mount!Init PROVE Mount!BusInv /\ Mount!VolumeTypes /\ Mount!QueueWaitsForLock
      /\ Mount!MarkIsTemporary
<1>1. x7 = <<>> /\ x6 \in BOOLEAN /\ x10 = {} /\ x9 = [v \in Volumes |-> Mount!NoVolume]
  BY DEF Mount!Init
<1>2. Mount!NoVolume \in Mount!Vols /\ ~Mount!NoVolume.mark
  BY DEF Mount!NoVolume, Mount!Vols
<1>3. Mount!VolumeTypes
  BY <1>1, <1>2 DEF Mount!VolumeTypes
<1>4. Mount!QueueWaitsForLock /\ Mount!MarkIsTemporary
  BY <1>1, <1>2 DEF Mount!QueueWaitsForLock, Mount!MarkIsTemporary
<1> QED BY <1>3, <1>4, BusBegins

LEMMA AutomountMeans ==
    ASSUME Mount!BusInv, Mount!VolumeTypes
    PROVE  Mount!TypeOK /\ Mount!KnowsTheLock
<1>0. Mount!BusTypes /\ Mount!EventsInOrder /\ Mount!LockIsComing
  BY DEF Mount!BusInv
<1>1. Mount!TypeOK
  <2>1. x2 \in BOOLEAN /\ x3 \in 0 .. x4.made
    BY <1>0, EventTypes
  <2>2. \A v \in Volumes : x9[v].mounting \in Nat /\ x9[v].timers \in Nat
    BY DEF Mount!VolumeTypes, Mount!Vols
  <2> QED BY <2>1, <2>2 DEF Mount!VolumeTypes, Mount!TypeOK
<1>2. ASSUME x1.events = <<>>, x5 = <<>>, x4.making = 0 PROVE x2 = x1.active
  <2>1. Len(x1.events) + 1 = 1 /\ DOMAIN x1.events = {} /\ Mount!Range(x5) = {}
    BY <1>2 DEF Mount!Range
  <2>2. x2 \in BOOLEAN /\ x1.active \in BOOLEAN
    BY <1>0, EventTypes
  <2>3. CASE x1.runs
    <3>1. Mount!Before(Len(x1.events) + 1, x1.active)
      BY <1>0, <1>2, <2>1, <2>3 DEF Mount!LockIsComing
    <3> QED BY <2>1, <3>1 DEF Mount!Before
  <2>4. CASE ~x1.runs
    <3>1. Mount!Gone(Len(x1.events) + 1) /\ ~x1.active
      BY <1>0, <2>4 DEF Mount!EventsInOrder
    <3>2. ~x2
      BY <2>1, <3>1 DEF Mount!Gone
    <3> QED BY <2>2, <3>1, <3>2
  <2> QED BY <2>3, <2>4
<1> QED BY <1>1, <1>2 DEF Mount!KnowsTheLock

LEMMA AutomountStep == ASSUME Mount!AutomountInv, [Mount!Next]_(Mount!vars) PROVE Mount!AutomountInv'
<1>1. Mount!BusInv /\ Mount!VolumeTypes /\ Mount!QueueWaitsForLock /\ Mount!MarkIsTemporary
  BY DEF Mount!AutomountInv
<1>2. Mount!BusInv'
  BY <1>1, BusStep
<1>3. Mount!VolumeTypes' /\ Mount!QueueWaitsForLock' /\ Mount!MarkIsTemporary'
  BY <1>1, TypesOfVolumes
<1> QED BY <1>2, <1>3 DEF Mount!AutomountInv

(* --------------------------------------------------- the selected icons --- *)
(* The variables of IconSelection are live x1, flags x2, selected x3, band x4,*)
(* last x5, from x6, press x7, drag x8, hist x9. What its operators on the    *)
(* selection return: the list still agrees with the flags.                    *)
LEMMA SetOn ==
    ASSUME x1 \subseteq Icons, NEW w, Selection!Agrees(w), NEW S \in SUBSET x1
    PROVE  LET v == Selection!Set(w, S, TRUE)
           IN  /\ Selection!Agrees(v) /\ v.band = w.band /\ v.last = w.last /\ v.from = w.from
               /\ v.selected = w.selected \cup S
<1> USE DEF Selection!Agrees, Selection!Worlds
<1> DEFINE v == Selection!Set(w, S, TRUE)
<1>1. v = [w EXCEPT !.flags = @ \cup S, !.selected = @ \cup (S \ w.flags)]
  BY DEF Selection!Set
<1> HIDE DEF v
<1>2. /\ v.flags = w.flags \cup S /\ v.selected = w.selected \cup (S \ w.flags)
      /\ v \in Selection!Worlds /\ v.band = w.band /\ v.last = w.last /\ v.from = w.from
  BY <1>1
<1>3. v.selected = w.selected \cup S
  BY <1>2
<1>4. Selection!Agrees(v)
  BY <1>2, <1>3
<1> QED BY <1>2, <1>3, <1>4 DEF v

LEMMA SetOff ==
    ASSUME x1 \subseteq Icons, NEW w, Selection!Agrees(w), NEW S \in SUBSET x1
    PROVE  LET v == Selection!Set(w, S, FALSE)
           IN  /\ Selection!Agrees(v) /\ v.band = w.band /\ v.last = w.last /\ v.from = w.from
               /\ v.selected = w.selected \ S
<1> USE DEF Selection!Agrees, Selection!Worlds
<1> DEFINE v == Selection!Set(w, S, FALSE)
<1>1. v = [w EXCEPT !.flags = @ \ S, !.selected = @ \ (S \cap w.flags)]
  BY DEF Selection!Set
<1> HIDE DEF v
<1>2. /\ v.flags = w.flags \ S /\ v.selected = w.selected \ (S \cap w.flags)
      /\ v \in Selection!Worlds /\ v.band = w.band /\ v.last = w.last /\ v.from = w.from
  BY <1>1
<1>3. v.selected = w.selected \ S
  BY <1>2
<1>4. Selection!Agrees(v)
  BY <1>2, <1>3
<1> QED BY <1>2, <1>3, <1>4 DEF v

LEMMA UnselectKeeps ==
    ASSUME x1 \subseteq Icons, NEW w, Selection!Agrees(w), NEW v, v = Selection!Unselect(w)
    PROVE  /\ Selection!Agrees(v) /\ v.band = w.band /\ v.last = w.last /\ v.from = w.from
           /\ v.selected = {} /\ v.flags = {}
BY DEF Selection!Agrees, Selection!Worlds, Selection!Set, Selection!Unselect

LEMMA ToggleAllKeeps ==
    ASSUME x1 \subseteq Icons, NEW w, Selection!Agrees(w), NEW S \in SUBSET x1, NEW v, v = Selection!ToggleAll(w, S)
    PROVE  /\ Selection!Agrees(v) /\ v.band = w.band /\ v.last = w.last /\ v.from = w.from
           /\ v.selected = Selection!SymDiff(w.selected, S)
<1> DEFINE a == Selection!Set(w, S \cap w.flags, FALSE)
           b == Selection!Set(a, S \ w.flags, TRUE)
<1> HIDE DEF a, b
<1>1. Selection!Agrees(a) /\ a.band = w.band /\ a.last = w.last /\ a.from = w.from
      /\ a.selected = w.selected \ (S \cap w.flags)
  BY SetOff DEF a
<1>2. Selection!Agrees(b) /\ b.band = w.band /\ b.last = w.last /\ b.from = w.from
      /\ b.selected = a.selected \cup (S \ w.flags)
  <2>1. S \ w.flags \in SUBSET x1
    OBVIOUS
  <2>2. LET u == Selection!Set(a, S \ w.flags, TRUE)
        IN  /\ Selection!Agrees(u) /\ u.band = a.band /\ u.last = a.last /\ u.from = a.from
            /\ u.selected = a.selected \cup (S \ w.flags)
    BY <1>1, <2>1, SetOn
  <2> QED BY <1>1, <2>2, ZenonT(30) DEF b
<1>3. v = [b EXCEPT !.band = w.band]
  BY DEF Selection!ToggleAll, a, b
<1>4. v = b
  BY <1>2, <1>3 DEF Selection!Agrees, Selection!Worlds
<1>5. S \cap w.flags = S \cap w.selected
  BY DEF Selection!Agrees
<1> QED BY <1>1, <1>2, <1>4, <1>5 DEF Selection!SymDiff

LEMMA Became ==
    ASSUME NEW w, Selection!Agrees(w), Selection!Become(w), x1' = x1, x9'.freed = x9.freed
    PROVE  Selection!Agrees(Selection!world)' /\ Selection!world' = w
<1>1. Selection!world' = w
  BY DEF Selection!Agrees, Selection!Worlds, Selection!world, Selection!Become
<1> QED BY <1>1 DEF Selection!Agrees, Selection!Worlds, Selection!Placed

(* An action is a change of the selection and of what it leaves alone.        *)
LEMMA PressIconKeeps ==
    ASSUME Selection!SelectionInv, Selection!PressIcon PROVE Selection!SelectionInv' /\ Selection!ClickSettles
<1> USE DEF Selection!Hists, Selection!Drags, Selection!Rects
<1>1. PICK i \in Selection!Placed, m \in Selection!Mods, secondary \in BOOLEAN :
          /\ x7 = None /\ ~x8.on /\ x7' = Selection!Pressed(i, m, secondary)
          /\ Selection!Become(Selection!Set(IF i \notin x2 /\ Selection!Plain(m)
                                            THEN Selection!Unselect(Selection!world)
                                            ELSE Selection!world, {i}, TRUE))
          /\ x9' = [x9 EXCEPT !.before = x3, !.click = TRUE] /\ UNCHANGED <<x1, x8>>
  BY DEF Selection!PressIcon
<1> DEFINE w == IF i \notin x2 /\ Selection!Plain(m) THEN Selection!Unselect(Selection!world) ELSE Selection!world
           v == Selection!Set(w, {i}, TRUE)
<1>2. /\ x1 \subseteq Icons /\ i \in x1 /\ {i} \in SUBSET x1 /\ Selection!Agrees(Selection!world)
      /\ x3 = Selection!world.selected /\ x4 = Selection!world.band /\ x2 = Selection!world.flags
      /\ x9 \in Selection!Hists
  BY DEF Selection!SelectionInv, Selection!Placed, Selection!world
<1>3. Selection!Agrees(w) /\ w.band = x4 /\ (~Selection!Plain(m) => w.selected = x3)
  BY <1>2, UnselectKeeps
<1> HIDE DEF w
<1>4. Selection!Agrees(v) /\ v.band = x4 /\ v.selected = w.selected \cup {i}
  BY <1>2, <1>3, SetOn
<1>5. Selection!Become(v)
  BY <1>1 DEF w
<1> HIDE DEF v
<1>6. x9'.freed = x9.freed /\ x9'.before = x3 /\ x9' \in Selection!Hists
  BY <1>1, <1>2 DEF Selection!Agrees, Selection!Worlds
<1>7. Selection!Agrees(Selection!world)' /\ x3' = w.selected \cup {i} /\ x4' = x4
  BY <1>1, <1>4, <1>5, <1>6, Became DEF Selection!Become
<1>8. Selection!PressKept'
  <2>1. x7' \in [icon : Selection!Placed, did : BOOLEAN, mods : Selection!Mods, secondary : BOOLEAN]
        /\ x7'.icon = i /\ x7'.mods = m /\ x7'.secondary = secondary /\ x7'.did = (i \notin x2 /\ ~secondary)
    BY <1>1 DEF Selection!Pressed
  <2>2. i \in x2 <=> i \in x3
    BY <1>2 DEF Selection!Agrees
  <2> QED BY <1>1, <1>3, <1>6, <1>7, <2>1, <2>2 DEF Selection!PressKept, Selection!Placed
<1>9. Selection!BandIsDrawn' /\ Selection!BandFollows' /\ x9' \in Selection!Hists
  BY <1>1, <1>6, <1>7 DEF Selection!SelectionInv, Selection!BandIsDrawn, Selection!BandFollows
<1> QED BY <1>1, <1>2, <1>7, <1>8, <1>9 DEF Selection!SelectionInv, Selection!ClickSettles

LEMMA ReleaseIconKeeps ==
    ASSUME Selection!SelectionInv, Selection!ReleaseIcon PROVE Selection!SelectionInv' /\ Selection!ClickSettles
<1> USE DEF Selection!Hists, Selection!Drags, Selection!Rects
<1>1. PICK m \in Selection!Mods, middle \in BOOLEAN :
          /\ x7 # None
          /\ LET w == IF x7.secondary THEN Selection!world ELSE Selection!Released(x7.icon, m)
             IN  Selection!Become(IF x7.secondary \/ middle THEN w ELSE [w EXCEPT !.last = x7.icon, !.from = None])
          /\ x7' = None
          /\ x9' = [x9 EXCEPT !.before = {}, !.drag = FALSE, !.click = @ /\ m = x7.mods]
          /\ UNCHANGED <<x1, x8>>
  BY DEF Selection!ReleaseIcon
<1> DEFINE w == IF x7.secondary THEN Selection!world ELSE Selection!Released(x7.icon, m)
           v == IF x7.secondary \/ middle THEN w ELSE [w EXCEPT !.last = x7.icon, !.from = None]
           i == x7.icon
<1>2. /\ x1 \subseteq Icons /\ i \in x1 /\ {i} \in SUBSET x1 /\ Selection!Agrees(Selection!world)
      /\ x3 = Selection!world.selected /\ x4 = Selection!world.band /\ x2 = Selection!world.flags
      /\ x9 \in Selection!Hists
      /\ (i \in x2 <=> i \in x3)
  BY <1>1 DEF Selection!SelectionInv, Selection!Placed, Selection!world, Selection!PressKept, Selection!Agrees
<1>3. /\ Selection!Agrees(w) /\ w.band = x4
      /\ ~x7.secondary => w.selected = IF Selection!Plain(m) THEN (IF i \in x2 THEN {i} ELSE {})
                                       ELSE IF m.ctrl /\ ~x7.did THEN x3 \ {i} ELSE x3
  <2> DEFINE u == Selection!Unselect(Selection!world)
             on == Selection!Set(u, {i}, TRUE)
             off == Selection!Set(u, {i}, FALSE)
             less == Selection!Set(Selection!world, {i}, FALSE)
  <2>1. Selection!Agrees(u) /\ u.band = x4 /\ u.selected = {}
    BY <1>2, UnselectKeeps
  <2>2. /\ x7.secondary => w = Selection!world
        /\ ~x7.secondary /\ Selection!Plain(m) /\ i \in x2 => w = on
        /\ ~x7.secondary /\ ~Selection!Plain(m) => w = IF m.ctrl /\ ~x7.did THEN less ELSE Selection!world
    BY DEF Selection!Released
  <2>3. ASSUME ~x7.secondary, Selection!Plain(m), i \notin x2 PROVE w = off
    <3>1. (i \in x2) = FALSE
      BY <2>3
    <3> QED BY <2>3, <3>1 DEF Selection!Released
  <2> HIDE DEF w, u
  <2>4. Selection!Agrees(on) /\ on.band = x4 /\ on.selected = u.selected \cup {i}
    BY <1>2, <2>1, SetOn, ZenonT(40)
  <2>5. Selection!Agrees(off) /\ off.band = x4 /\ off.selected = u.selected \ {i}
    BY <1>2, <2>1, SetOff, ZenonT(40)
  <2>6. Selection!Agrees(less) /\ less.band = x4 /\ less.selected = x3 \ {i}
    BY <1>2, SetOff, ZenonT(40)
  <2> HIDE DEF on, off, less
  <2> QED BY <1>2, <2>1, <2>2, <2>3, <2>4, <2>5, <2>6
<1>4. Selection!Become(v)
  BY <1>1
<1> HIDE DEF w
<1>5. Selection!Agrees(v) /\ v.band = x4 /\ v.selected = w.selected
  BY <1>2, <1>3 DEF Selection!Agrees, Selection!Worlds
<1> HIDE DEF v
<1>6. /\ x9'.freed = x9.freed /\ x9'.drag = FALSE /\ (x9'.click => x9.click /\ m = x7.mods)
      /\ x9' \in Selection!Hists
  BY <1>1, <1>2
<1>7. Selection!Agrees(Selection!world)' /\ x3' = w.selected /\ x4' = x4
  BY <1>1, <1>4, <1>5, <1>6, Became DEF Selection!Become
<1>8. Selection!ClickSettles
  <2> SUFFICES ASSUME x9'.click, ~x7.secondary
               PROVE  x3' = IF Selection!Plain(m) THEN {i}
                            ELSE IF m.ctrl THEN Selection!SymDiff(x9.before, {i}) ELSE x9.before \cup {i}
    BY <1>6 DEF Selection!ClickSettles
  <2>1. /\ i \in x3 /\ (x7.did <=> i \notin x9.before)
        /\ ~Selection!Plain(m) => x3 = x9.before \cup {i}
    BY <1>1, <1>6 DEF Selection!SelectionInv, Selection!PressKept
  <2>2. i \in x2
    BY <1>2, <2>1
  <2>3. CASE Selection!Plain(m)
    BY <1>3, <1>7, <2>2, <2>3
  <2>4. CASE ~Selection!Plain(m) /\ m.ctrl /\ ~x7.did
    BY <1>3, <1>7, <2>1, <2>4 DEF Selection!SymDiff
  <2>5. CASE ~Selection!Plain(m) /\ ~(m.ctrl /\ ~x7.did)
    BY <1>3, <1>7, <2>1, <2>5 DEF Selection!SymDiff
  <2> QED BY <2>3, <2>4, <2>5
<1>9. Selection!BandIsDrawn' /\ Selection!BandFollows' /\ x9' \in Selection!Hists /\ Selection!PressKept'
  BY <1>1, <1>6, <1>7 DEF Selection!SelectionInv, Selection!BandIsDrawn, Selection!BandFollows, Selection!PressKept
<1> QED BY <1>1, <1>2, <1>7, <1>8, <1>9 DEF Selection!SelectionInv

LEMMA PressDesktopKeeps ==
    ASSUME SelectionAssumption, Selection!SelectionInv, Selection!PressDesktop
    PROVE  Selection!SelectionInv' /\ Selection!ClickSettles
<1> USE DEF Selection!Hists, Selection!Drags, Selection!Rects
<1>1. PICK m \in Selection!Mods, x \in 0 .. Width, y \in 0 .. Height :
        /\ x7 = None /\ ~x8.on
        /\ Selection!Become(IF Selection!Plain(m) THEN [Selection!Unselect(Selection!world) EXCEPT !.band = {}]
                            ELSE Selection!world)
        /\ x8' = [on |-> TRUE, x |-> x, y |-> y, dx |-> 0, dy |-> 0, rect |-> [x |-> 0, y |-> 0, w |-> 0, h |-> 0]]
        /\ x9' = [x9 EXCEPT !.base = x3', !.drag = TRUE, !.click = FALSE]
        /\ UNCHANGED <<x1, x7>>
  BY DEF Selection!PressDesktop
<1> DEFINE u == Selection!Unselect(Selection!world)
           w == IF Selection!Plain(m) THEN [u EXCEPT !.band = {}] ELSE Selection!world
<1>2. /\ x1 \subseteq Icons /\ Selection!Agrees(Selection!world) /\ x4 = {} /\ Selection!world.band = x4
      /\ x9 \in Selection!Hists
  BY <1>1 DEF Selection!SelectionInv, Selection!BandIsDrawn, Selection!world
<1>3. Selection!Agrees(u) /\ u.band = {}
  BY <1>2, UnselectKeeps
<1>4. Selection!Become(w)
  BY <1>1
<1> HIDE DEF u
<1>5. Selection!Agrees(w) /\ w.band = {}
  BY <1>2, <1>3 DEF Selection!Agrees, Selection!Worlds
<1> HIDE DEF w
<1>6. x4' = {} /\ x3' = w.selected /\ x3' \in SUBSET Icons
  BY <1>4, <1>5 DEF Selection!Become, Selection!Agrees, Selection!Worlds
<1>7. /\ x9'.freed = x9.freed /\ x9'.base = x3'
      /\ x9' \in Selection!Hists
  BY <1>1, <1>2, <1>6
<1>8. Selection!Agrees(Selection!world)'
  BY <1>1, <1>4, <1>5, <1>7, Became
<1>10. Selection!BandIsDrawn'
  BY <1>1, SelectionAssumption DEF Selection!BandIsDrawn
<1>11. Selection!BandFollows'
  <2>1. Selection!Under(x8.rect)' = {}
    BY <1>1 DEF Selection!Under
  <2>2. x3' = Selection!SymDiff(x3', {})
    BY DEF Selection!SymDiff
  <2> QED BY <1>6, <1>7, <2>1, <2>2 DEF Selection!BandFollows
<1> QED BY <1>1, <1>2, <1>7, <1>8, <1>10, <1>11 DEF Selection!SelectionInv, Selection!ClickSettles, Selection!PressKept

(* A side of the rectangle grows or shrinks as its corner and its length say, *)
(* as long as the pointer stays on one side of the start.                     *)
LEMMA Side ==
    ASSUME NEW x \in Int, NEW d \in Int, NEW e \in Int, (d >= 0 /\ e >= 0) \/ (d <= 0 /\ e <= 0)
    PROVE  LET a == IF d < 0 THEN x + d ELSE x
               b == IF e < 0 THEN x + e ELSE x
               n == Selection!Abs1(d)
               k == Selection!Abs1(e)
           IN  /\ b <= a /\ k >= n => \A p : p \in a .. a + n - 1 => p \in b .. b + k - 1
               /\ a <= b /\ n >= k => \A p : p \in b .. b + k - 1 => p \in a .. a + n - 1
<1>1. CASE d >= 0 /\ e >= 0
  BY <1>1 DEF Selection!Abs1
<1>2. CASE d <= 0 /\ e <= 0
  BY <1>2 DEF Selection!Abs1
<1> QED BY <1>1, <1>2

LEMMA BandGrows ==
    ASSUME NEW x \in Int, NEW y \in Int, NEW d \in Int, NEW e \in Int, NEW dx \in Int, NEW dy \in Int,
           (d >= 0 /\ dx >= 0) \/ (d <= 0 /\ dx <= 0), (e >= 0 /\ dy >= 0) \/ (e <= 0 /\ dy <= 0)
    PROVE  LET old == Selection!RectOf(x, y, d, e)
               r == Selection!RectOf(x, y, dx, dy)
           IN  /\ ~Selection!Leaves(r, old) => Selection!Under(old) \subseteq Selection!Under(r)
               /\ ~Selection!Enters(r, old) => Selection!Under(r) \subseteq Selection!Under(old)
<1>0. PICK old, r : old = Selection!RectOf(x, y, d, e) /\ r = Selection!RectOf(x, y, dx, dy)
  OBVIOUS
<1>1. /\ old.x = (IF d < 0 THEN x + d ELSE x) /\ old.w = Selection!Abs1(d)
      /\ old.y = (IF e < 0 THEN y + e ELSE y) /\ old.h = Selection!Abs1(e)
      /\ r.x = (IF dx < 0 THEN x + dx ELSE x) /\ r.w = Selection!Abs1(dx)
      /\ r.y = (IF dy < 0 THEN y + dy ELSE y) /\ r.h = Selection!Abs1(dy)
  BY <1>0 DEF Selection!RectOf
<1>2. /\ old.x \in Int /\ old.y \in Int /\ old.w \in Int /\ old.h \in Int
      /\ r.x \in Int /\ r.y \in Int /\ r.w \in Int /\ r.h \in Int
  BY <1>1 DEF Selection!Abs1
<1>3. /\ r.x <= old.x /\ r.w >= old.w =>
            \A p : p \in old.x .. old.x + old.w - 1 => p \in r.x .. r.x + r.w - 1
      /\ old.x <= r.x /\ old.w >= r.w =>
            \A p : p \in r.x .. r.x + r.w - 1 => p \in old.x .. old.x + old.w - 1
  <2>1. LET a == IF d < 0 THEN x + d ELSE x
            b == IF dx < 0 THEN x + dx ELSE x
            n == Selection!Abs1(d)
            k == Selection!Abs1(dx)
        IN  /\ b <= a /\ k >= n => \A p : p \in a .. a + n - 1 => p \in b .. b + k - 1
            /\ a <= b /\ n >= k => \A p : p \in b .. b + k - 1 => p \in a .. a + n - 1
    BY Side
  <2> QED BY <1>1, <2>1
<1>4. /\ r.y <= old.y /\ r.h >= old.h =>
            \A p : p \in old.y .. old.y + old.h - 1 => p \in r.y .. r.y + r.h - 1
      /\ old.y <= r.y /\ old.h >= r.h =>
            \A p : p \in r.y .. r.y + r.h - 1 => p \in old.y .. old.y + old.h - 1
  <2>1. LET a == IF e < 0 THEN y + e ELSE y
            b == IF dy < 0 THEN y + dy ELSE y
            n == Selection!Abs1(e)
            k == Selection!Abs1(dy)
        IN  /\ b <= a /\ k >= n => \A p : p \in a .. a + n - 1 => p \in b .. b + k - 1
            /\ a <= b /\ n >= k => \A p : p \in b .. b + k - 1 => p \in a .. a + n - 1
    BY Side
  <2> QED BY <1>1, <2>1
<1>5. ~Selection!Leaves(r, old) => Selection!Under(old) \subseteq Selection!Under(r)
  BY <1>2, <1>3, <1>4 DEF Selection!Leaves, Selection!Under
<1>6. ~Selection!Enters(r, old) => Selection!Under(r) \subseteq Selection!Under(old)
  BY <1>2, <1>3, <1>4 DEF Selection!Enters, Selection!Under
<1> QED BY <1>0, <1>5, <1>6

LEMMA DragUpdateKeeps ==
    ASSUME SelectionAssumption, Selection!SelectionInv, Selection!DragUpdate
    PROVE  Selection!SelectionInv' /\ Selection!ClickSettles
<1> USE DEF Selection!Hists, Selection!Drags, Selection!Rects
<1>1. /\ x1 \subseteq Icons /\ Selection!Agrees(Selection!world) /\ x8.on
      /\ Selection!world.band = x4 /\ Selection!world.selected = x3 /\ x4 \subseteq Selection!Placed
      /\ x8 \in Selection!Drags
      /\ x9 \in Selection!Hists
  BY DEF Selection!DragUpdate, Selection!SelectionInv, Selection!BandIsDrawn, Selection!world,
         Selection!Agrees, Selection!Worlds
<1>2. PICK dx \in Int, dy \in Int :
        /\ LET r == Selection!RectOf(x8.x, x8.y, dx, dy)
               gone == IF Selection!Leaves(r, x8.rect) THEN x4 \ Selection!Under(r) ELSE {}
               w == [Selection!ToggleAll(Selection!world, gone) EXCEPT !.band = x4 \ gone]
               come == IF Selection!Enters(r, x8.rect) THEN Selection!Under(r) \ w.band ELSE {}
           IN  /\ Selection!Become([Selection!ToggleAll(w, come) EXCEPT !.band = w.band \cup come])
               /\ x8' = [x8 EXCEPT !.rect = r, !.dx = dx, !.dy = dy]
        /\ x9' = [x9 EXCEPT !.drag = @ /\ x8.dx * dx >= 0 /\ x8.dy * dy >= 0]
        /\ UNCHANGED <<x1, x7>>
  <2>1. /\ \A n \in -x8.x .. Width - x8.x : n \in Int
        /\ \A n \in -x8.y .. Height - x8.y : n \in Int
    BY <1>1, SelectionAssumption
  <2> QED BY <2>1, ZenonT(60) DEF Selection!DragUpdate
<1> DEFINE r == Selection!RectOf(x8.x, x8.y, dx, dy)
           gone == IF Selection!Leaves(r, x8.rect) THEN x4 \ Selection!Under(r) ELSE {}
           u == Selection!ToggleAll(Selection!world, gone)
           w == [u EXCEPT !.band = x4 \ gone]
           come == IF Selection!Enters(r, x8.rect) THEN Selection!Under(r) \ w.band ELSE {}
           t == Selection!ToggleAll(w, come)
           v == [t EXCEPT !.band = w.band \cup come]
<1>3. /\ Selection!Become(v) /\ x8' = [x8 EXCEPT !.rect = r, !.dx = dx, !.dy = dy]
      /\ x9' = [x9 EXCEPT !.drag = @ /\ x8.dx * dx >= 0 /\ x8.dy * dy >= 0] /\ UNCHANGED <<x1, x7>>
  BY <1>2
<1>4. gone \in SUBSET x4 /\ gone \in SUBSET x1 /\ Selection!Under(r) \subseteq Selection!Placed
      /\ Selection!Placed \subseteq x1
  BY <1>1 DEF Selection!Under, Selection!Placed
<1>5. Selection!Agrees(u) /\ u.selected = Selection!SymDiff(x3, gone)
  <2> HIDE DEF gone
  <2> QED BY <1>1, <1>4, ToggleAllKeeps
<1> HIDE DEF u
<1>6. Selection!Agrees(w) /\ w.selected = u.selected /\ w.band = x4 \ gone
  BY <1>1, <1>4, <1>5 DEF Selection!Agrees, Selection!Worlds
<1> HIDE DEF w
<1>7. come \in SUBSET x1 /\ come \subseteq Selection!Placed
  BY <1>4
<1>8. Selection!Agrees(t) /\ t.selected = Selection!SymDiff(w.selected, come)
  <2> HIDE DEF come
  <2> QED BY <1>1, <1>6, <1>7, ToggleAllKeeps
<1> HIDE DEF t
<1>9. Selection!Agrees(v) /\ v.selected = t.selected /\ v.band = (x4 \ gone) \cup come
  BY <1>1, <1>6, <1>7, <1>8 DEF Selection!Agrees, Selection!Worlds
<1> HIDE DEF v
<1>10. /\ x9'.freed = x9.freed /\ x9'.base = x9.base /\ x9'.click = x9.click /\ x9'.before = x9.before
       /\ x9'.drag = (x9.drag /\ x8.dx * dx >= 0 /\ x8.dy * dy >= 0)
       /\ x9' \in Selection!Hists
  BY <1>1, <1>3
<1>11. Selection!Agrees(Selection!world)' /\ x3' = v.selected /\ x4' = v.band
  BY <1>3, <1>9, <1>10, Became DEF Selection!Become
<1>12. /\ r \in Selection!Rects /\ x8'.rect = r /\ x8'.on /\ x8'.dx = dx /\ x8'.dy = dy
       /\ x8'.x = x8.x /\ x8'.y = x8.y
       /\ x8' \in Selection!Drags
  <2>1. x8.x \in Int /\ x8.y \in Int
    BY <1>1
  <2>2. r \in Selection!Rects
    BY <2>1 DEF Selection!RectOf, Selection!Abs1
  <2> HIDE DEF r
  <2> QED BY <1>1, <1>3, <2>2
<1>13. Selection!BandIsDrawn'
  BY <1>12 DEF Selection!BandIsDrawn
<1>14. Selection!BandFollows'
  <2> SUFFICES ASSUME x9.drag, x8.dx * dx >= 0, x8.dy * dy >= 0
               PROVE  x4' = Selection!Under(r) /\ x3' = Selection!SymDiff(x9.base, x4')
    BY <1>3, <1>10, <1>12 DEF Selection!BandFollows, Selection!Under, Selection!Placed
  <2>1. x4 = Selection!Under(x8.rect) /\ x3 = Selection!SymDiff(x9.base, x4)
    BY <1>1 DEF Selection!SelectionInv, Selection!BandFollows
  <2>2. /\ ~Selection!Leaves(r, x8.rect) => x4 \subseteq Selection!Under(r)
        /\ ~Selection!Enters(r, x8.rect) => Selection!Under(r) \subseteq x4
    <3>1. CASE x8.rect = Selection!RectOf(x8.x, x8.y, x8.dx, x8.dy)
      <4>1. PICK x \in Int, y \in Int, d \in Int, e \in Int : x = x8.x /\ y = x8.y /\ d = x8.dx /\ e = x8.dy
        BY <1>1
      <4>2. d * dx >= 0 /\ e * dy >= 0
        BY <4>1
      <4>3. (d >= 0 /\ dx >= 0) \/ (d <= 0 /\ dx <= 0)
        BY <4>2, Z3
      <4>4. (e >= 0 /\ dy >= 0) \/ (e <= 0 /\ dy <= 0)
        BY <4>2, Z3
      <4>5. LET old == Selection!RectOf(x, y, d, e)
                new == Selection!RectOf(x, y, dx, dy)
            IN  /\ ~Selection!Leaves(new, old) => Selection!Under(old) \subseteq Selection!Under(new)
                /\ ~Selection!Enters(new, old) => Selection!Under(new) \subseteq Selection!Under(old)
        BY <4>3, <4>4, BandGrows
      <4> QED BY <2>1, <3>1, <4>1, <4>5
    <3>2. CASE x8.rect.w = 0 /\ x8.rect.h = 0
      <4>1. x4 = {}
        BY <1>1, <2>1, <3>2 DEF Selection!Under
      <4>2. ASSUME ~Selection!Enters(r, x8.rect) PROVE Selection!Under(r) = {}
        <5>1. r.x \in Int /\ r.w \in Int /\ r.w <= 0
          BY <1>1, <1>12, <3>2, <4>2 DEF Selection!Enters
        <5> QED BY <5>1 DEF Selection!Under
      <4> QED BY <4>1, <4>2
    <3> QED BY <3>1, <3>2 DEF Selection!SelectionInv, Selection!BandIsDrawn
  <2> DEFINE a == Selection!Under(r)
  <2>3. gone = x4 \ a /\ come = a \ (x4 \ gone)
    BY <1>6, <2>2
  <2> HIDE DEF gone, come, a
  <2>4. x4' = a
    BY <1>9, <1>11, <2>3
  <2>5. x3' = Selection!SymDiff(Selection!SymDiff(Selection!SymDiff(x9.base, x4), gone), come)
    BY <1>5, <1>6, <1>8, <1>9, <1>11, <2>1
  <2>6. x3' = Selection!SymDiff(x9.base, a)
    BY <2>3, <2>5 DEF Selection!SymDiff
  <2> QED BY <2>4, <2>6 DEF a
<1>15. Selection!PressKept' /\ x7 = None
  BY <1>1, <1>3 DEF Selection!SelectionInv, Selection!PressKept
<1> QED BY <1>1, <1>3, <1>10, <1>11, <1>13, <1>14, <1>15 DEF Selection!SelectionInv, Selection!ClickSettles

LEMMA DragEndKeeps ==
    ASSUME Selection!SelectionInv, Selection!DragEnd PROVE Selection!SelectionInv' /\ Selection!ClickSettles
<1> USE DEF Selection!Hists, Selection!Drags, Selection!Rects
<1> DEFINE w == [Selection!world EXCEPT !.band = {}]
           nowhere == [x |-> 0, y |-> 0, w |-> 0, h |-> 0]
<1>1. /\ x1 \subseteq Icons /\ Selection!Agrees(Selection!world) /\ x8.on /\ x7 = None
      /\ x8 \in Selection!Drags
      /\ x9 \in Selection!Hists
  BY DEF Selection!DragEnd, Selection!SelectionInv, Selection!BandIsDrawn, Selection!PressKept
<1>2. /\ x8' = [x8 EXCEPT !.on = FALSE, !.x = 0, !.y = 0, !.dx = 0, !.dy = 0, !.rect = nowhere]
      /\ Selection!Become(w) /\ x9' = [x9 EXCEPT !.drag = FALSE, !.base = {}] /\ UNCHANGED <<x1, x7>>
  BY DEF Selection!DragEnd
<1>3. Selection!Agrees(w) /\ w.band = {}
  BY <1>1 DEF Selection!Agrees, Selection!Worlds
<1>4. /\ x9'.freed = x9.freed
      /\ x9' \in Selection!Hists
  BY <1>1, <1>2
<1>5. Selection!Agrees(Selection!world)' /\ x4' = {}
  <2> HIDE DEF w
  <2> QED BY <1>2, <1>3, <1>4, Became DEF Selection!Become
<1>6. nowhere \in Selection!Rects /\ nowhere.w = 0 /\ nowhere.h = 0
  OBVIOUS
<1>7. /\ x8' \in Selection!Drags
      /\ x8'.on = FALSE /\ x8'.rect = nowhere
  <2> HIDE DEF nowhere
  <2> QED BY <1>1, <1>2, <1>6
<1>8. Selection!BandIsDrawn' /\ Selection!BandFollows'
  BY <1>5, <1>7 DEF Selection!BandIsDrawn, Selection!BandFollows
<1> QED BY <1>1, <1>2, <1>4, <1>5, <1>8
      DEF Selection!SelectionInv, Selection!PressKept, Selection!ClickSettles

(* What the keyboard makes of the selection.                                  *)
LEMMA MoveFocusBecomes ==
    ASSUME x1 \subseteq Icons, Selection!Agrees(Selection!world), Selection!MoveFocus
    PROVE  /\ \E w : Selection!Agrees(w) /\ Selection!Become(w) /\ w.band = x4
           /\ UNCHANGED <<x1, x7, x8>>
<1> DEFINE w(modify) == IF modify THEN Selection!world ELSE Selection!Unselect(Selection!world)
           v(extend, modify) == [w(modify) EXCEPT !.from = IF extend THEN (IF @ = None THEN x5 ELSE @)
                                                           ELSE IF modify THEN @ ELSE None]
           u(extend, modify, area, j) ==
              [(IF extend THEN Selection!Set(v(extend, modify), area, TRUE)
                ELSE IF modify THEN v(extend, modify) ELSE Selection!Set(v(extend, modify), {j}, TRUE)) EXCEPT !.last = j]
<1>0. PICK d \in {"left", "right", "up", "down"}, extend \in BOOLEAN, modify \in BOOLEAN :
          /\ x5 # None => x5 \in Selection!Placed
          /\ \E j \in Selection!NextIcon(d) :
                \E area \in IF v(extend, modify).from # None THEN {Selection!Between(v(extend, modify).from, j)}
                            ELSE {S \in SUBSET Selection!Placed : j \in S} :
                    Selection!Become(u(extend, modify, area, j))
          /\ UNCHANGED <<x1, x7, x8>>
  BY Zenon DEF Selection!MoveFocus
<1> HIDE DEF v, u
<1>1. PICK j \in Selection!NextIcon(d) :
          \E area \in IF v(extend, modify).from # None THEN {Selection!Between(v(extend, modify).from, j)}
                      ELSE {S \in SUBSET Selection!Placed : j \in S} :
              Selection!Become(u(extend, modify, area, j))
  BY <1>0
<1>2. /\ Selection!Placed \subseteq x1 /\ j \in Selection!Placed /\ {j} \in SUBSET x1
      /\ Selection!world.band = x4 /\ Selection!world.last = x5
  BY <1>1 DEF Selection!Placed, Selection!NextIcon, Selection!FirstIcon, Selection!world
<1>3. Selection!Agrees(w(modify)) /\ w(modify).band = x4 /\ w(modify).last = x5
  BY <1>2, UnselectKeeps
<1> HIDE DEF w
<1>4. Selection!Agrees(v(extend, modify)) /\ v(extend, modify).band = x4
  BY <1>3 DEF v, Selection!Agrees, Selection!Worlds
<1>5. PICK area \in SUBSET Selection!Placed : Selection!Become(u(extend, modify, area, j))
  BY <1>1 DEF Selection!Between
<1> DEFINE a == Selection!Set(v(extend, modify), area, TRUE)
           b == Selection!Set(v(extend, modify), {j}, TRUE)
           t == IF extend THEN a ELSE IF modify THEN v(extend, modify) ELSE b
<1>6. Selection!Agrees(a) /\ a.band = x4
  BY <1>2, <1>4, SetOn
<1>7. Selection!Agrees(b) /\ b.band = x4
  BY <1>2, <1>4, SetOn
<1>8. u(extend, modify, area, j) = [t EXCEPT !.last = j]
  BY DEF u
<1> HIDE DEF a, b
<1>9. Selection!Agrees(t) /\ t.band = x4
  BY <1>4, <1>6, <1>7
<1> HIDE DEF t
<1>10. Selection!Agrees(u(extend, modify, area, j)) /\ u(extend, modify, area, j).band = x4
  BY <1>2, <1>8, <1>9 DEF Selection!Agrees, Selection!Worlds
<1> QED BY <1>5, <1>10 DEF Selection!MoveFocus

LEMMA KeysKeep ==
    ASSUME Selection!SelectionInv, Selection!Keys PROVE Selection!SelectionInv' /\ Selection!ClickSettles
<1> USE DEF Selection!Hists, Selection!Drags, Selection!Rects
<1>1. /\ x1 \subseteq Icons /\ Selection!Agrees(Selection!world) /\ Selection!world.band = x4
      /\ x9 \in Selection!Hists
  BY DEF Selection!SelectionInv, Selection!world
<1>2. PICK w : Selection!Agrees(w) /\ Selection!Become(w) /\ w.band = x4 /\ UNCHANGED <<x1, x7, x8>>
  <2> DEFINE old == Selection!world
  <2>1. CASE Selection!MoveFocus
    BY <1>1, <2>1, MoveFocusBecomes
  <2>2. CASE Selection!ToggleFocused
    <3>1. x5 \in x1 /\ {x5} \in SUBSET x1 /\ UNCHANGED <<x1, x7, x8>> /\ Selection!Become(Selection!Toggle(old, x5))
      BY <2>2 DEF Selection!ToggleFocused
    <3>2. Selection!Toggle(old, x5) = IF x5 \in old.flags THEN Selection!Set(old, {x5}, FALSE)
                                      ELSE Selection!Set(old, {x5}, TRUE)
      <4>1. (x5 \notin old.flags) = FALSE \/ (x5 \notin old.flags) = TRUE
        OBVIOUS
      <4> QED BY <4>1 DEF Selection!Toggle
    <3> DEFINE a == Selection!Set(old, {x5}, FALSE)
               b == Selection!Set(old, {x5}, TRUE)
    <3>3. Selection!Agrees(a) /\ a.band = x4
      BY <1>1, <3>1, SetOff
    <3>4. Selection!Agrees(b) /\ b.band = x4
      BY <1>1, <3>1, SetOn
    <3> HIDE DEF a, b
    <3> QED BY <3>1, <3>2, <3>3, <3>4 DEF a, b
  <2>3. CASE Selection!SelectAll
    <3>1. Selection!Agrees(Selection!Set(old, x1, TRUE)) /\ Selection!Set(old, x1, TRUE).band = x4
      BY <1>1, SetOn
    <3> QED BY <2>3, <3>1 DEF Selection!SelectAll
  <2>4. CASE Selection!UnselectAll \/ Selection!PopupDesktop
    <3>1. Selection!Agrees(Selection!Unselect(old)) /\ Selection!Unselect(old).band = x4
      BY <1>1, UnselectKeeps
    <3> QED BY <2>4, <3>1 DEF Selection!UnselectAll, Selection!PopupDesktop
  <2> QED BY <2>1, <2>2, <2>3, <2>4 DEF Selection!Keys
<1>3. x9' = [x9 EXCEPT !.click = FALSE, !.drag = FALSE]
  BY DEF Selection!Keys
<1>4. /\ x9'.freed = x9.freed /\ x9'.click = FALSE /\ x9'.drag = FALSE
      /\ x9' \in Selection!Hists
  BY <1>1, <1>3
<1>5. Selection!Agrees(Selection!world)' /\ x4' = x4
  BY <1>2, <1>4, Became DEF Selection!Become
<1> QED BY <1>1, <1>2, <1>4, <1>5
      DEF Selection!SelectionInv, Selection!PressKept, Selection!BandIsDrawn, Selection!BandFollows,
          Selection!ClickSettles, Selection!Placed

LEMMA RemoveIconKeeps ==
    ASSUME Selection!SelectionInv, Selection!RemoveIcon PROVE Selection!SelectionInv' /\ Selection!ClickSettles
<1> USE DEF Selection!Hists, Selection!Drags, Selection!Rects
<1>1. PICK i \in x1 :
        /\ x1' = x1 \ {i}
        /\ Selection!Become([(IF i \in Unplaced THEN Selection!world ELSE Selection!Forget(Selection!world, i))
                             EXCEPT !.flags = @ \ {i}])
        /\ x7' = IF x7 # None /\ x7.icon = i THEN None ELSE x7
        /\ x9' = [x9 EXCEPT !.before = IF x7' = None THEN {} ELSE @, !.click = FALSE, !.drag = FALSE,
                            !.freed = @ \cup ({i} \cap Unplaced)]
        /\ UNCHANGED x8
  BY DEF Selection!RemoveIcon
<1> DEFINE t == IF i \in Unplaced THEN Selection!world ELSE Selection!Forget(Selection!world, i)
           v == [t EXCEPT !.flags = @ \ {i}]
<1>2. /\ x1 \subseteq Icons /\ Selection!Agrees(Selection!world)
      /\ x2 = Selection!world.flags /\ x3 = Selection!world.selected /\ x4 = Selection!world.band
      /\ x5 = Selection!world.last /\ x6 = Selection!world.from
      /\ x9 \in Selection!Hists
  BY DEF Selection!SelectionInv, Selection!world
<1>3. /\ x2 \subseteq x1 /\ x3 \subseteq Icons /\ x4 \subseteq Selection!Placed
      /\ x5 \in Icons \cup {None} /\ x6 \in Icons \cup {None}
      /\ x3 \cap x1 = x2 /\ x3 \cup ({x5, x6} \ {None}) \subseteq x1 \cup x9.freed
  BY <1>2 DEF Selection!Agrees, Selection!Worlds
<1>4. /\ x2' = x2 \ {i}
      /\ x3' = IF i \in Unplaced THEN x3 ELSE x3 \ {i}
      /\ x4' = IF i \in Unplaced THEN x4 ELSE x4 \ {i}
      /\ x5' = IF i \notin Unplaced /\ x5 = i THEN None ELSE x5
      /\ x6' = IF i \notin Unplaced /\ x6 = i THEN None ELSE x6
  <2>1. Selection!Become(v)
    BY <1>1
  <2>2. CASE i \in Unplaced
    BY <1>2, <2>1, <2>2 DEF Selection!Become, Selection!world
  <2>3. CASE i \notin Unplaced
    BY <1>2, <2>1, <2>3 DEF Selection!Become, Selection!world, Selection!Forget
  <2> QED BY <2>2, <2>3
<1>5. /\ x9'.freed = x9.freed \cup ({i} \cap Unplaced) /\ x9'.click = FALSE /\ x9'.drag = FALSE
      /\ x9' \in Selection!Hists
  BY <1>1, <1>2
<1>6. Selection!Placed' = Selection!Placed \ {i} /\ Selection!Placed \subseteq x1 \ Unplaced
  BY <1>1 DEF Selection!Placed
<1>7. Selection!Agrees(Selection!world)'
  <2>1. x2' \subseteq x1' /\ x3' \subseteq Icons /\ x4' \subseteq Selection!Placed'
    BY <1>1, <1>3, <1>4, <1>6
  <2>2. x5' \in Icons \cup {None} /\ x6' \in Icons \cup {None}
    BY <1>3, <1>4
  <2>3. x3' \cap x1' = x2'
    BY <1>1, <1>3, <1>4
  <2>4. x3' \cup ({x5', x6'} \ {None}) \subseteq x1' \cup x9'.freed
    BY <1>1, <1>3, <1>4, <1>5
  <2> QED BY <2>1, <2>2, <2>3, <2>4 DEF Selection!Agrees, Selection!Worlds, Selection!world
<1>8. Selection!PressKept'
  BY <1>1, <1>5, <1>6 DEF Selection!SelectionInv, Selection!PressKept
<1>9. Selection!BandIsDrawn' /\ Selection!BandFollows'
  BY <1>1, <1>4, <1>5 DEF Selection!SelectionInv, Selection!BandIsDrawn, Selection!BandFollows
<1> QED BY <1>1, <1>2, <1>5, <1>7, <1>8, <1>9 DEF Selection!SelectionInv, Selection!ClickSettles

LEMMA SelectionStep ==
    ASSUME SelectionAssumption, Selection!SelectionInv, [Selection!Next]_(Selection!vars)
    PROVE  Selection!SelectionInv' /\ Selection!ClickSettles
<1>1. CASE UNCHANGED Selection!vars
  BY <1>1 DEF Selection!vars, Selection!SelectionInv, Selection!Agrees, Selection!Worlds, Selection!Placed, Selection!world,
              Selection!PressKept, Selection!BandIsDrawn, Selection!BandFollows, Selection!Under,
              Selection!ClickSettles
<1> QED BY <1>1, PressIconKeeps, ReleaseIconKeeps, PressDesktopKeeps, DragUpdateKeeps, DragEndKeeps, KeysKeep,
           RemoveIconKeeps DEF Selection!Next

LEMMA SelectionBegins == ASSUME Selection!Init PROVE Selection!SelectionInv
<1> USE DEF Selection!Hists, Selection!Drags, Selection!Rects
<1>1. /\ x1 = Icons /\ x2 = {} /\ x3 = {} /\ x4 = {} /\ x5 = None /\ x6 = None /\ x7 = None
      /\ x9 = [before |-> {}, base |-> {}, click |-> FALSE, drag |-> FALSE, freed |-> {}]
  BY DEF Selection!Init
<1>2. Selection!Agrees(Selection!world)
  BY <1>1 DEF Selection!Agrees, Selection!Worlds, Selection!world
<1>3. /\ x8 \in Selection!Drags
      /\ x8.rect.w = 0 /\ x8.rect.h = 0 /\ x8.on = FALSE
  BY DEF Selection!Init
<1> QED BY <1>1, <1>2, <1>3
      DEF Selection!SelectionInv, Selection!PressKept, Selection!BandIsDrawn, Selection!BandFollows

LEMMA SelectionMeans ==
    ASSUME Selection!SelectionInv PROVE Selection!TypeOK /\ Selection!BandFollows /\ Selection!NothingDangles
BY DEF Selection!SelectionInv, Selection!Agrees, Selection!Worlds, Selection!world, Selection!Placed, Selection!TypeOK,
       Selection!NothingDangles

(* ---------------------------------------------------- the input settings --- *)
(* r became q: properties other than those in P are as they were, the driver's *)
(* facts too.                                                                  *)
Kept(r, q, P) ==
    /\ q \in Inputs!Device /\ q.has = r.has /\ q.modes = r.modes /\ q.profile = r.profile /\ q.click = r.click
    /\ \A p \in Inputs!Props \ P : q.at[p] = r.at[p]

LEMMA PropertyChanges ==
    ASSUME NEW r \in Inputs!Device, NEW p \in Inputs!Props, NEW v \in Inputs!PropValues
    PROVE  Kept(r, Inputs!ChangeProperty(r, p, v), {p}) /\ Inputs!Has(Inputs!ChangeProperty(r, p, v), p, v)
  BY DEF Kept, Inputs!Device, Inputs!ChangeProperty, Inputs!Has

LEMMA ValuesOfKeys ==
    /\ \A s \in Inputs!Settings : \A k \in Inputs!Keys : s[k] \in Inputs!Values(k) /\ s[k] \in Inputs!PropValues
    /\ {"off", "on", "none", "areas", "fingers", "flat", "adaptive"} \subseteq Inputs!PropValues
<1>1. {"off", "on"} \subseteq Inputs!Values("mouse left-handed")
      /\ {"none", "areas", "fingers"} \subseteq Inputs!Values("touchpad click-method")
      /\ {"flat", "adaptive"} \subseteq Inputs!Values("mouse accel-profile")
  BY DEF Inputs!Values
<1>2. {"mouse left-handed", "touchpad click-method", "mouse accel-profile"} \subseteq Inputs!Keys
  BY DEF Inputs!Keys, Inputs!MouseKeys, Inputs!TouchpadKeys
<1>3. {"off", "on", "none", "areas", "fingers", "flat", "adaptive"} \subseteq Inputs!PropValues
  BY <1>1, <1>2 DEF Inputs!PropValues
<1> QED BY <1>3 DEF Inputs!Settings, Inputs!PropValues

(* What a key of one property sets, and where                                  *)
PropertyOf(k) ==
    CASE k \in {"mouse accel-profile", "trackball accel-profile"} -> "profile"
      [] k = "touchpad send-events" -> "send"
      [] k = "touchpad click-method" -> "click"
      [] OTHER -> Inputs!PropOf(k)
Written(r, k, v) ==
    CASE k \in {"mouse accel-profile", "trackball accel-profile"} -> Inputs!Has(r, "profile", Inputs!Profile(r, v))
      [] k = "touchpad send-events" -> Inputs!Supports(r, v) => Inputs!Has(r, "send", v)
      [] k = "touchpad click-method" ->
            Inputs!Supports(r, Inputs!ClickMethod(r, v)) => Inputs!Has(r, "click", Inputs!ClickMethod(r, v))
      [] OTHER -> Inputs!Has(r, Inputs!PropOf(k), v)
Simple == Inputs!MouseKeys \cup Inputs!TouchpadKeys \cup Inputs!TrackballKeys

LEMMA KeyWrites ==
    ASSUME NEW r \in Inputs!Device, NEW k \in Simple, NEW s \in Inputs!Settings
    PROVE  Kept(r, Inputs!Write(r, k, s[k]), {PropertyOf(k)}) /\ Written(Inputs!Write(r, k, s[k]), k, s[k])
<1>0. s[k] \in Inputs!Values(k) /\ s[k] \in Inputs!PropValues /\ r.profile \in Inputs!PropValues /\ r.click \in Inputs!PropValues
  BY ValuesOfKeys DEF Simple, Inputs!Keys, Inputs!Device
<1>00. \A X : Kept(r, r, X)
  BY DEF Kept
<1>1. CASE k \in {"mouse accel-profile", "trackball accel-profile"}
  <2>1. Inputs!Profile(r, s[k]) \in Inputs!PropValues
    BY <1>0 DEF Inputs!Profile
  <2> DEFINE q == Inputs!ChangeProperty(r, "profile", Inputs!Profile(r, s[k]))
  <2>2. Kept(r, q, {"profile"}) /\ Inputs!Has(q, "profile", Inputs!Profile(r, s[k])) 
    BY <2>1, PropertyChanges DEF Inputs!Props
  <2>3. Inputs!Profile(q, s[k]) = Inputs!Profile(r, s[k])
    BY <2>2 DEF Kept, Inputs!Profile
  <2>4. Inputs!Write(r, k, s[k]) = q
    BY <1>1, Zenon DEF Inputs!Write, Inputs!SetAccelProfile
  <2> HIDE DEF q
  <2> QED BY <1>1, <2>2, <2>3, <2>4 DEF PropertyOf, Written
<1>2. CASE k = "touchpad send-events"
  <2> DEFINE q == Inputs!ChangeProperty(r, "send", s[k])
  <2>1. Kept(r, q, {"send"}) /\ Inputs!Has(q, "send", s[k])
    BY <1>0, PropertyChanges DEF Inputs!Props
  <2>2. Inputs!Supports(q, s[k]) <=> Inputs!Supports(r, s[k])
    BY <2>1 DEF Kept, Inputs!Supports
  <2>3. Inputs!Write(r, k, s[k]) = IF Inputs!Supports(r, s[k]) THEN q ELSE r
    BY <1>2 DEF Inputs!Write, Inputs!SetSendEvents
  <2> HIDE DEF q
  <2> QED BY <1>00, <1>2, <2>1, <2>2, <2>3 DEF PropertyOf, Written
<1>3. CASE k = "touchpad click-method"
  <2> DEFINE m == Inputs!ClickMethod(r, s[k])
             q == Inputs!ChangeProperty(r, "click", m)
  <2>0. m \in Inputs!PropValues
    BY <1>0 DEF Inputs!ClickMethod
  <2>1. Kept(r, q, {"click"}) /\ Inputs!Has(q, "click", m)
    BY <2>0, PropertyChanges DEF Inputs!Props
  <2>2. Inputs!ClickMethod(q, s[k]) = m /\ (Inputs!Supports(q, m) <=> Inputs!Supports(r, m))
    BY <2>1 DEF Kept, Inputs!Supports, Inputs!ClickMethod
  <2>3. Inputs!Write(r, k, s[k]) = IF Inputs!Supports(r, m) THEN q ELSE r
    BY <1>3 DEF Inputs!Write, Inputs!SetClickMethod
  <2>4. m = Inputs!ClickMethod(r, s[k])
    OBVIOUS
  <2> HIDE DEF q, m
  <2> QED BY <1>00, <1>3, <2>1, <2>2, <2>3, <2>4 DEF PropertyOf, Written
<1>4. CASE k \notin {"mouse accel-profile", "trackball accel-profile", "touchpad send-events", "touchpad click-method"}
  <2>1. Inputs!PropOf(k) \in Inputs!Props
    BY <1>4 DEF Inputs!PropOf, Inputs!Props, Simple, Inputs!MouseKeys, Inputs!TouchpadKeys, Inputs!TrackballKeys
  <2>2. Inputs!Write(r, k, s[k]) = Inputs!ChangeProperty(r, Inputs!PropOf(k), s[k])
    BY <1>4, Zenon DEF Inputs!Write
  <2> QED BY <1>0, <1>4, <2>1, <2>2, PropertyChanges DEF PropertyOf, Written
<1> QED BY <1>1, <1>2, <1>3, <1>4

(* ApplyDeviceSettings, a part at a time.                                      *)
LEMMA DeviceKinds ==
    /\ Inputs!Mice \subseteq Inputs!Pointers /\ Inputs!Pointers \cap Inputs!Touchpads = {}
    /\ Inputs!MouseKeys \subseteq Simple /\ Inputs!TouchpadKeys \subseteq Simple /\ Inputs!TrackballKeys \subseteq Simple
  BY DEF Inputs!Mice, Inputs!Pointers, Inputs!Touchpads, Simple

LEMMA KeptTwice ==
    ASSUME NEW r, NEW q, NEW t, NEW P, NEW Q, Kept(r, q, P), Kept(q, t, Q)
    PROVE  Kept(r, t, P \cup Q)
  BY DEF Kept

(* What was written stays, when other properties change.                       *)
LEMMA HasStays ==
    ASSUME NEW r, NEW q, NEW P, Kept(r, q, P), NEW p \in Inputs!Props \ P, NEW v, Inputs!Has(r, p, v)
    PROVE  Inputs!Has(q, p, v)
  BY DEF Kept, Inputs!Has

LEMMA WrittenStays ==
    ASSUME NEW r, NEW q, NEW P, Kept(r, q, P), NEW k \in Simple, PropertyOf(k) \notin P, NEW v, Written(r, k, v)
    PROVE  Written(q, k, v)
<1>1. PropertyOf(k) \in Inputs!Props
  BY DEF PropertyOf, Inputs!PropOf, Inputs!Props, Simple, Inputs!MouseKeys, Inputs!TouchpadKeys, Inputs!TrackballKeys
<1>2. \A w : Inputs!Has(r, PropertyOf(k), w) => Inputs!Has(q, PropertyOf(k), w)
  BY <1>1, HasStays
<1>3. Inputs!Profile(q, v) = Inputs!Profile(r, v) /\ Inputs!ClickMethod(q, v) = Inputs!ClickMethod(r, v)
      /\ \A w : Inputs!Supports(q, w) <=> Inputs!Supports(r, w)
  BY DEF Kept, Inputs!Profile, Inputs!ClickMethod, Inputs!Supports
<1>4. CASE k \in {"mouse accel-profile", "trackball accel-profile"}
  BY <1>2, <1>3, <1>4 DEF PropertyOf, Written
<1>5. CASE k = "touchpad send-events"
  BY <1>2, <1>3, <1>5 DEF PropertyOf, Written
<1>6. CASE k = "touchpad click-method"
  BY <1>2, <1>3, <1>6 DEF PropertyOf, Written
<1>7. CASE k \notin {"mouse accel-profile", "trackball accel-profile", "touchpad send-events", "touchpad click-method"}
  BY <1>2, <1>7 DEF PropertyOf, Written
<1> QED BY <1>4, <1>5, <1>6, <1>7

(* The hand and the methods of scrolling                                       *)
LEMMA HandWrites ==
    ASSUME NEW r \in Inputs!Device, NEW d, NEW s \in Inputs!Settings, NEW all \in BOOLEAN
    PROVE  LET q == Inputs!UpdateMouseLeftHanded(r, d, s, all)
               t == Inputs!UpdateTouchpadLeftHanded(r, d, s)
           IN  /\ Kept(r, q, {"left"}) /\ Kept(r, t, {"left"})
               /\ d \in Inputs!Mice => Inputs!Has(q, "left", s["mouse left-handed"])
               /\ d \in Inputs!Touchpads => Inputs!Has(t, "left", Inputs!TouchpadHand(s))
               /\ d \in Inputs!Touchpads /\ all /\ s["touchpad left-handed"] = "mouse" => q = t
               /\ d \in Inputs!Touchpads /\ ~(all /\ s["touchpad left-handed"] = "mouse") => q = r
               /\ d \notin Inputs!Touchpads => t = r
               /\ d \notin Inputs!Mice \cup Inputs!Touchpads => q = r
<1>1. "left" \in Inputs!Props /\ s["mouse left-handed"] \in Inputs!PropValues /\ Inputs!TouchpadHand(s) \in Inputs!PropValues
  <2>1. {"mouse left-handed", "touchpad left-handed"} \subseteq Inputs!Keys
    BY DEF Inputs!Keys
  <2> QED BY <2>1, ValuesOfKeys DEF Inputs!Props, Inputs!TouchpadHand
<1>2. Kept(r, r, {"left"})
  BY DEF Kept
<1>3. \A v \in Inputs!PropValues : Kept(r, Inputs!ChangeProperty(r, "left", v), {"left"})
                                  /\ Inputs!Has(Inputs!ChangeProperty(r, "left", v), "left", v)
  BY <1>1, PropertyChanges
<1>4. d \notin Inputs!Mice \/ d \notin Inputs!Touchpads
  BY DeviceKinds
<1> QED BY <1>1, <1>2, <1>3, <1>4, Zenon DEF Inputs!UpdateMouseLeftHanded, Inputs!UpdateTouchpadLeftHanded

LEMMA ScrollWrites ==
    ASSUME NEW r \in Inputs!Device, NEW d, NEW s \in Inputs!Settings
    PROVE  LET q == Inputs!UpdateEdgeScroll(r, d, s)
               t == Inputs!UpdateTwoFingerScroll(r, d, s)
           IN  /\ Kept(r, q, {"edge"}) /\ Kept(r, t, {"two", "edge"})
               /\ d \in Inputs!Touchpads => /\ Inputs!Has(q, "edge", Inputs!Edge(s)) /\ Inputs!Has(t, "edge", Inputs!Edge(s))
                                            /\ Inputs!Has(t, "two", s["touchpad two-finger"])
               /\ d \notin Inputs!Touchpads => q = r /\ t = r
<1> DEFINE two == s["touchpad two-finger"]
<1>1. /\ {"two", "edge"} \subseteq Inputs!Props /\ {"on", "off"} \subseteq Inputs!PropValues
      /\ two \in {"on", "off"} /\ Inputs!Edge(s) \in Inputs!PropValues
  <2>1. {"touchpad two-finger", "touchpad edge"} \subseteq Inputs!Keys
    BY DEF Inputs!Keys
  <2>2. two \in Inputs!Values("touchpad two-finger") /\ s["touchpad edge"] \in Inputs!PropValues
    BY <2>1, ValuesOfKeys
  <2>3. two \in {"off", "on"}
    BY <2>2 DEF Inputs!Values
  <2> QED BY <2>2, <2>3, ValuesOfKeys DEF Inputs!Props, Inputs!Edge
<1>2. \A x \in Inputs!Device : \A p \in {"two", "edge"} : \A v \in Inputs!PropValues :
         Kept(x, Inputs!ChangeProperty(x, p, v), {p}) /\ Inputs!Has(Inputs!ChangeProperty(x, p, v), p, v)
  BY <1>1, PropertyChanges
<1>3. CASE d \notin Inputs!Touchpads
  BY <1>3 DEF Inputs!UpdateEdgeScroll, Inputs!UpdateTwoFingerScroll, Kept
<1>4. CASE d \in Inputs!Touchpads
  <2> DEFINE e(x) == Inputs!ChangeProperty(x, "edge", Inputs!Edge(s))
             a == Inputs!ChangeProperty(r, "two", "off")
             t == IF two = "on" THEN Inputs!ChangeProperty(e(r), "two", "on") ELSE e(a)
  <2>1. Inputs!UpdateEdgeScroll(r, d, s) = e(r) /\ Inputs!UpdateTwoFingerScroll(r, d, s) = t
    BY <1>4, Zenon DEF Inputs!UpdateEdgeScroll, Inputs!UpdateTwoFingerScroll, Inputs!SetScroll
  <2>2. Kept(r, e(r), {"edge"}) /\ Inputs!Has(e(r), "edge", Inputs!Edge(s)) /\ e(r) \in Inputs!Device
    BY <1>1, <1>2 DEF Kept
  <2>3. Kept(r, t, {"two", "edge"}) /\ Inputs!Has(t, "edge", Inputs!Edge(s)) /\ Inputs!Has(t, "two", two)
    <3>1. CASE two = "on"
      <4> DEFINE x == Inputs!ChangeProperty(e(r), "two", "on")
      <4>1. Kept(e(r), x, {"two"}) /\ Inputs!Has(x, "two", "on")
        BY <1>1, <1>2, <2>2
      <4> HIDE DEF x, e
      <4>2. Inputs!Has(x, "edge", Inputs!Edge(s))
        <5>1. "edge" \in Inputs!Props \ {"two"}
          BY <1>1
        <5> QED BY <2>2, <4>1, <5>1, HasStays
      <4>3. Kept(r, x, {"edge"} \cup {"two"})
        BY <2>2, <4>1, KeptTwice
      <4> QED BY <3>1, <4>1, <4>2, <4>3 DEF Kept, x
    <3>2. CASE two = "off"
      <4>1. Kept(r, a, {"two"}) /\ Inputs!Has(a, "two", "off") /\ a \in Inputs!Device
        BY <1>1, <1>2 DEF Kept
      <4>2. Kept(a, e(a), {"edge"}) /\ Inputs!Has(e(a), "edge", Inputs!Edge(s))
        BY <1>1, <1>2, <4>1
      <4> HIDE DEF a, e
      <4>3. Inputs!Has(e(a), "two", "off")
        <5>1. "two" \in Inputs!Props \ {"edge"}
          BY <1>1
        <5> QED BY <4>1, <4>2, <5>1, HasStays
      <4>4. Kept(r, e(a), {"two"} \cup {"edge"})
        BY <4>1, <4>2, KeptTwice
      <4> QED BY <3>2, <4>2, <4>3, <4>4 DEF Kept
    <3> QED BY <1>1, <3>1, <3>2
  <2> HIDE DEF e, t
  <2> QED BY <1>4, <2>1, <2>2, <2>3
<1> QED BY <1>3, <1>4

(* A key that sets one property of the devices of its kind                     *)
LEMMA UpdateWrites ==
    ASSUME NEW r \in Inputs!Device, NEW d, NEW s \in Inputs!Settings
    PROVE  /\ \A k \in Inputs!MouseKeys :
                LET q == Inputs!UpdateMouse(k, r, d, s)
                    kind == IF k = "mouse accel-profile" THEN Inputs!Mice ELSE Inputs!Pointers
                IN  /\ Kept(r, q, {PropertyOf(k)}) /\ (d \in kind => Written(q, k, s[k]))
                    /\ d \notin kind => q = r
           /\ \A k \in Inputs!TouchpadKeys :
                LET q == Inputs!UpdateTouchpad(k, r, d, s)
                IN  /\ Kept(r, q, {PropertyOf(k)}) /\ (d \in Inputs!Touchpads => Written(q, k, s[k]))
                    /\ d \notin Inputs!Touchpads => q = r
           /\ \A k \in Inputs!TrackballKeys :
                LET q == Inputs!UpdateTrackball(k, r, d, s)
                IN  /\ Kept(r, q, {PropertyOf(k)}) /\ (d \in Trackballs => Written(q, k, s[k]))
                    /\ d \notin Trackballs => q = r
<1>1. \A X : Kept(r, r, X)
  BY DEF Kept
<1>2. \A k \in Simple : Kept(r, Inputs!Write(r, k, s[k]), {PropertyOf(k)}) /\ Written(Inputs!Write(r, k, s[k]), k, s[k])
  BY KeyWrites
<1> QED BY <1>1, <1>2, DeviceKinds, Zenon DEF Inputs!UpdateMouse, Inputs!UpdateTouchpad, Inputs!UpdateTrackball

(* DeviceAgrees, in terms of what was written                                  *)
LEMMA AgreesWritten ==
    ASSUME NEW r \in Inputs!Device, NEW d, NEW s \in Inputs!Settings, NEW P
    PROVE  Inputs!DeviceAgrees(r, d, s, P) <=>
             /\ Inputs!HandAgrees(r, d, s, P) /\ Inputs!MethodAgrees(r, d, s, P) /\ Inputs!ProfileAgrees(r, d, s, P)
             /\ d \in Inputs!Touchpads => \A k \in Inputs!TouchpadKeys \ P : Written(r, k, s[k])
             /\ d \in Inputs!Pointers => \A k \in {"mouse speed", "mouse natural-scroll"} \ P : Written(r, k, s[k])
             /\ d \in Trackballs /\ "trackball button" \notin P => Written(r, "trackball button", s["trackball button"])
<1>1. Inputs!PointerAgrees(r, d, s, P) <=>
        /\ d \in Inputs!Pointers => \A k \in {"mouse speed", "mouse natural-scroll"} \ P : Written(r, k, s[k])
        /\ d \in Trackballs /\ "trackball button" \notin P => Written(r, "trackball button", s["trackball button"])
  BY DEF Written, Inputs!PointerAgrees, Inputs!PropOf
<1>2. Inputs!TouchpadAgrees(r, d, s, P) <=>
        (d \in Inputs!Touchpads => \A k \in Inputs!TouchpadKeys \ P : Written(r, k, s[k]))
  <2> DEFINE others == Inputs!TouchpadKeys \ {"touchpad send-events", "touchpad click-method"}
  <2>1. \A k \in others : Written(r, k, s[k]) <=> Inputs!Has(r, Inputs!PropOf(k), s[k])
    BY DEF Written, Inputs!TouchpadKeys
  <2>2. /\ Written(r, "touchpad send-events", s["touchpad send-events"]) <=>
             (Inputs!Supports(r, s["touchpad send-events"]) => Inputs!Has(r, "send", s["touchpad send-events"]))
        /\ Written(r, "touchpad click-method", s["touchpad click-method"]) <=>
             (Inputs!Supports(r, Inputs!ClickMethod(r, s["touchpad click-method"])) =>
                Inputs!Has(r, "click", Inputs!ClickMethod(r, s["touchpad click-method"])))
    BY DEF Written
  <2>3. Inputs!TouchpadKeys = others \cup {"touchpad send-events", "touchpad click-method"}
    BY DEF Inputs!TouchpadKeys
  <2>4. Inputs!TouchpadAgrees(r, d, s, P) <=>
          (d \in Inputs!Touchpads =>
             /\ \A k \in others \ P : Inputs!Has(r, Inputs!PropOf(k), s[k])
             /\ "touchpad send-events" \notin P => Written(r, "touchpad send-events", s["touchpad send-events"])
             /\ "touchpad click-method" \notin P => Written(r, "touchpad click-method", s["touchpad click-method"]))
    <3>1. \A k : k \in others \ P <=> k \in Inputs!TouchpadKeys \ ({"touchpad send-events", "touchpad click-method"} \cup P)
      OBVIOUS
    <3> HIDE DEF others
    <3> QED BY <2>2, <3>1, Zenon DEF Inputs!TouchpadAgrees
  <2> HIDE DEF others
  <2> QED BY <2>1, <2>3, <2>4
<1> QED BY <1>1, <1>2 DEF Inputs!DeviceAgrees

LEMMA MouseApplies ==
    ASSUME NEW r \in Inputs!Device, NEW d, NEW s \in Inputs!Settings, NEW all \in BOOLEAN
    PROVE  LET q == Inputs!ApplyMouse(r, d, s, all)
           IN  /\ Kept(r, q, {"left", "speed", "natural", "profile"})
               /\ d \in Inputs!Mice => /\ Inputs!Has(q, "left", s["mouse left-handed"])
                                       /\ Written(q, "mouse accel-profile", s["mouse accel-profile"])
               /\ d \in Inputs!Pointers => \A k \in {"mouse speed", "mouse natural-scroll"} : Written(q, k, s[k])
<1> DEFINE a == Inputs!UpdateMouseLeftHanded(r, d, s, all)
           b == Inputs!UpdateMouse("mouse speed", a, d, s)
           c == Inputs!UpdateMouse("mouse natural-scroll", b, d, s)
           q == Inputs!UpdateMouse("mouse accel-profile", c, d, s)
<1>0. /\ PropertyOf("mouse speed") = "speed" /\ PropertyOf("mouse natural-scroll") = "natural"
      /\ PropertyOf("mouse accel-profile") = "profile"
      /\ {"mouse speed", "mouse natural-scroll", "mouse accel-profile"} = Inputs!MouseKeys
      /\ {"left", "speed", "natural", "profile"} \subseteq Inputs!Props
  BY DEF PropertyOf, Inputs!PropOf, Inputs!MouseKeys, Inputs!Props
<1>1. Kept(r, a, {"left"}) /\ (d \in Inputs!Mice => Inputs!Has(a, "left", s["mouse left-handed"]))
  BY HandWrites, Zenon
<1>2. Kept(a, b, {"speed"}) /\ (d \in Inputs!Pointers => Written(b, "mouse speed", s["mouse speed"]))
  <2>1. a \in Inputs!Device
    BY <1>1 DEF Kept
  <2> HIDE DEF a
  <2> QED BY <1>0, <2>1, UpdateWrites
<1>3. Kept(b, c, {"natural"}) /\ (d \in Inputs!Pointers => Written(c, "mouse natural-scroll", s["mouse natural-scroll"]))
  <2>1. b \in Inputs!Device
    BY <1>2 DEF Kept
  <2> HIDE DEF b
  <2> QED BY <1>0, <2>1, UpdateWrites
<1>4. Kept(c, q, {"profile"}) /\ (d \in Inputs!Mice => Written(q, "mouse accel-profile", s["mouse accel-profile"]))
  <2>1. c \in Inputs!Device
    BY <1>3 DEF Kept
  <2> HIDE DEF c
  <2> QED BY <1>0, <2>1, UpdateWrites
<1>5. Inputs!ApplyMouse(r, d, s, all) = q
  BY DEF Inputs!ApplyMouse
<1> HIDE DEF a, b, c, q
<1>6. Kept(b, q, {"natural"} \cup {"profile"})
  BY <1>3, <1>4, KeptTwice
<1>7. Kept(a, q, {"speed"} \cup ({"natural"} \cup {"profile"}))
  BY <1>2, <1>6, KeptTwice
<1>8. Kept(r, q, {"left"} \cup ({"speed"} \cup ({"natural"} \cup {"profile"})))
  BY <1>1, <1>7, KeptTwice
<1>9. Kept(r, q, {"left", "speed", "natural", "profile"})
  BY <1>8 DEF Kept
<1>10. d \in Inputs!Mice => Inputs!Has(q, "left", s["mouse left-handed"])
  <2>1. "left" \in Inputs!Props \ ({"speed"} \cup ({"natural"} \cup {"profile"}))
    BY <1>0
  <2> QED BY <1>1, <1>7, <2>1, HasStays
<1>11. d \in Inputs!Pointers => Written(q, "mouse speed", s["mouse speed"])
  <2>1. "mouse speed" \in Simple /\ PropertyOf("mouse speed") \notin {"natural"} \cup {"profile"}
    BY <1>0, DeviceKinds
  <2> QED BY <1>2, <1>6, <2>1, WrittenStays
<1>12. d \in Inputs!Pointers => Written(q, "mouse natural-scroll", s["mouse natural-scroll"])
  <2>1. "mouse natural-scroll" \in Simple /\ PropertyOf("mouse natural-scroll") \notin {"profile"}
    BY <1>0, DeviceKinds
  <2> QED BY <1>3, <1>4, <2>1, WrittenStays
<1> QED BY <1>4, <1>5, <1>9, <1>10, <1>11, <1>12

LEMMA TouchpadApplies ==
    ASSUME NEW r \in Inputs!Device, NEW d, NEW s \in Inputs!Settings
    PROVE  LET q == Inputs!ApplyTouchpad(r, d, s)
           IN  /\ Kept(r, q, Inputs!Props \ {"profile", "button"})
               /\ d \notin Inputs!Touchpads => q = r
               /\ d \in Inputs!Touchpads =>
                     /\ Inputs!Has(q, "left", Inputs!TouchpadHand(s))
                     /\ Inputs!Has(q, "two", s["touchpad two-finger"]) /\ Inputs!Has(q, "edge", Inputs!Edge(s))
                     /\ \A k \in Inputs!TouchpadKeys : Written(q, k, s[k])
<1> DEFINE a == Inputs!UpdateTouchpadLeftHanded(r, d, s)
           b == Inputs!UpdateTouchpad("touchpad speed", a, d, s)
           c == Inputs!UpdateTouchpad("touchpad natural-scroll", b, d, s)
           e == Inputs!UpdateTouchpad("touchpad tap-to-click", c, d, s)
           f == Inputs!UpdateTouchpad("touchpad disable-while-typing", e, d, s)
           g == Inputs!UpdateTouchpad("touchpad send-events", f, d, s)
           h == Inputs!UpdateTwoFingerScroll(g, d, s)
           i == Inputs!UpdateEdgeScroll(h, d, s)
           q == Inputs!UpdateTouchpad("touchpad click-method", i, d, s)
           K == {"touchpad speed", "touchpad natural-scroll", "touchpad tap-to-click",
                 "touchpad disable-while-typing", "touchpad send-events", "touchpad click-method"}
<1>0. /\ PropertyOf("touchpad speed") = "speed" /\ PropertyOf("touchpad natural-scroll") = "natural"
      /\ PropertyOf("touchpad tap-to-click") = "tap" /\ PropertyOf("touchpad disable-while-typing") = "typing"
      /\ PropertyOf("touchpad send-events") = "send" /\ PropertyOf("touchpad click-method") = "click"
      /\ K = Inputs!TouchpadKeys /\ K \subseteq Simple
      /\ {"left", "speed", "natural", "tap", "typing", "send", "two", "edge", "click"} \subseteq Inputs!Props
  BY DeviceKinds DEF PropertyOf, Inputs!PropOf, Inputs!TouchpadKeys, Inputs!Props
<1>00. Inputs!ApplyTouchpad(r, d, s) = q
  BY DEF Inputs!ApplyTouchpad
<1>A. \A x \in Inputs!Device : \A k \in K :
        /\ Kept(x, Inputs!UpdateTouchpad(k, x, d, s), {PropertyOf(k)})
        /\ d \in Inputs!Touchpads => Written(Inputs!UpdateTouchpad(k, x, d, s), k, s[k])
        /\ d \notin Inputs!Touchpads => Inputs!UpdateTouchpad(k, x, d, s) = x
  BY <1>0, UpdateWrites
<1>B. \A x, y, P : Kept(x, y, P) => y \in Inputs!Device
  BY DEF Kept
<1>1. /\ Kept(r, a, {"left"}) /\ (d \in Inputs!Touchpads => Inputs!Has(a, "left", Inputs!TouchpadHand(s)))
      /\ d \notin Inputs!Touchpads => a = r
  BY HandWrites
<1>2. /\ Kept(a, b, {"speed"}) /\ (d \in Inputs!Touchpads => Written(b, "touchpad speed", s["touchpad speed"]))
      /\ d \notin Inputs!Touchpads => b = a
  BY <1>0, <1>1, <1>A, <1>B
<1>3. /\ Kept(b, c, {"natural"})
      /\ (d \in Inputs!Touchpads => Written(c, "touchpad natural-scroll", s["touchpad natural-scroll"]))
      /\ d \notin Inputs!Touchpads => c = b
  <2> HIDE DEF b
  <2> QED BY <1>0, <1>2, <1>A, <1>B
<1>4. /\ Kept(c, e, {"tap"})
      /\ (d \in Inputs!Touchpads => Written(e, "touchpad tap-to-click", s["touchpad tap-to-click"]))
      /\ d \notin Inputs!Touchpads => e = c
  <2> HIDE DEF c
  <2> QED BY <1>0, <1>3, <1>A, <1>B
<1>5. /\ Kept(e, f, {"typing"})
      /\ (d \in Inputs!Touchpads => Written(f, "touchpad disable-while-typing", s["touchpad disable-while-typing"]))
      /\ d \notin Inputs!Touchpads => f = e
  <2> HIDE DEF e
  <2> QED BY <1>0, <1>4, <1>A, <1>B
<1>6. /\ Kept(f, g, {"send"})
      /\ (d \in Inputs!Touchpads => Written(g, "touchpad send-events", s["touchpad send-events"]))
      /\ d \notin Inputs!Touchpads => g = f
  <2> HIDE DEF f
  <2> QED BY <1>0, <1>5, <1>A, <1>B
<1>7. /\ Kept(g, h, {"two", "edge"})
      /\ (d \in Inputs!Touchpads => Inputs!Has(h, "two", s["touchpad two-finger"]))
      /\ d \notin Inputs!Touchpads => h = g
  <2> HIDE DEF g
  <2> QED BY <1>6, <1>B, ScrollWrites
<1>8. /\ Kept(h, i, {"edge"}) /\ (d \in Inputs!Touchpads => Inputs!Has(i, "edge", Inputs!Edge(s)))
      /\ d \notin Inputs!Touchpads => i = h
  <2> HIDE DEF h
  <2> QED BY <1>7, <1>B, ScrollWrites
<1>9. /\ Kept(i, q, {"click"})
      /\ (d \in Inputs!Touchpads => Written(q, "touchpad click-method", s["touchpad click-method"]))
      /\ d \notin Inputs!Touchpads => q = i
  <2> HIDE DEF i
  <2> QED BY <1>0, <1>8, <1>A, <1>B
<1> HIDE DEF a, b, c, e, f, g, h, i, q, K
<1> DEFINE W8 == {"edge"} \cup {"click"}
           W7 == {"two", "edge"} \cup W8
           W6 == {"send"} \cup W7
           W5 == {"typing"} \cup W6
           W4 == {"tap"} \cup W5
           W3 == {"natural"} \cup W4
           W2 == {"speed"} \cup W3
           W1 == {"left"} \cup W2
<1>10. /\ Kept(h, q, W8) /\ Kept(g, q, W7) /\ Kept(f, q, W6) /\ Kept(e, q, W5) /\ Kept(c, q, W4) /\ Kept(b, q, W3)
       /\ Kept(a, q, W2) /\ Kept(r, q, W1)
  <2>1. Kept(h, q, W8)
    BY <1>8, <1>9, KeptTwice
  <2> HIDE DEF W8
  <2>2. Kept(g, q, W7)
    BY <1>7, <2>1, KeptTwice
  <2> HIDE DEF W7
  <2>3. Kept(f, q, W6)
    BY <1>6, <2>2, KeptTwice
  <2> HIDE DEF W6
  <2>4. Kept(e, q, W5)
    BY <1>5, <2>3, KeptTwice
  <2> HIDE DEF W5
  <2>5. Kept(c, q, W4)
    BY <1>4, <2>4, KeptTwice
  <2> HIDE DEF W4
  <2>6. Kept(b, q, W3)
    BY <1>3, <2>5, KeptTwice
  <2> HIDE DEF W3
  <2>7. Kept(a, q, W2)
    BY <1>2, <2>6, KeptTwice
  <2> HIDE DEF W2
  <2>8. Kept(r, q, W1)
    BY <1>1, <2>7, KeptTwice
  <2> QED BY <2>1, <2>2, <2>3, <2>4, <2>5, <2>6, <2>7, <2>8
<1>11. Kept(r, q, Inputs!Props \ {"profile", "button"})
  <2>1. W1 \subseteq Inputs!Props \ {"profile", "button"}
    BY <1>0
  <2> HIDE DEF W1, W2, W3, W4, W5, W6, W7, W8
  <2> QED BY <1>10, <2>1 DEF Kept
<1>12. ASSUME d \in Inputs!Touchpads
       PROVE  /\ Inputs!Has(q, "left", Inputs!TouchpadHand(s))
              /\ Inputs!Has(q, "two", s["touchpad two-finger"]) /\ Inputs!Has(q, "edge", Inputs!Edge(s))
  <2>1. "left" \in Inputs!Props \ W2 /\ "two" \in Inputs!Props \ W8 /\ "edge" \in Inputs!Props \ {"click"}
    BY <1>0
  <2> HIDE DEF W1, W2, W3, W4, W5, W6, W7, W8
  <2>2. Inputs!Has(q, "left", Inputs!TouchpadHand(s))
    BY <1>1, <1>10, <1>12, <2>1, HasStays
  <2>3. Inputs!Has(q, "two", s["touchpad two-finger"])
    BY <1>7, <1>10, <1>12, <2>1, HasStays
  <2>4. Inputs!Has(q, "edge", Inputs!Edge(s))
    BY <1>8, <1>9, <1>12, <2>1, HasStays
  <2> QED BY <2>2, <2>3, <2>4
<1>13. ASSUME d \in Inputs!Touchpads PROVE \A k \in K : Written(q, k, s[k])
  <2>1. "speed" \notin W3 /\ "natural" \notin W4 /\ "tap" \notin W5 /\ "typing" \notin W6 /\ "send" \notin W7
    OBVIOUS
  <2> HIDE DEF W1, W2, W3, W4, W5, W6, W7, W8
  <2>2. Written(q, "touchpad speed", s["touchpad speed"])
    <3>1. "touchpad speed" \in Simple /\ PropertyOf("touchpad speed") \notin W3
      BY <1>0, <2>1 DEF K
    <3>2. Written(b, "touchpad speed", s["touchpad speed"]) /\ Kept(b, q, W3)
      BY <1>2, <1>10, <1>13
    <3> QED BY <3>1, <3>2, WrittenStays
  <2>3. Written(q, "touchpad natural-scroll", s["touchpad natural-scroll"])
    <3>1. "touchpad natural-scroll" \in Simple /\ PropertyOf("touchpad natural-scroll") \notin W4
      BY <1>0, <2>1 DEF K
    <3>2. Written(c, "touchpad natural-scroll", s["touchpad natural-scroll"]) /\ Kept(c, q, W4)
      BY <1>3, <1>10, <1>13
    <3> QED BY <3>1, <3>2, WrittenStays
  <2>4. Written(q, "touchpad tap-to-click", s["touchpad tap-to-click"])
    <3>1. "touchpad tap-to-click" \in Simple /\ PropertyOf("touchpad tap-to-click") \notin W5
      BY <1>0, <2>1 DEF K
    <3>2. Written(e, "touchpad tap-to-click", s["touchpad tap-to-click"]) /\ Kept(e, q, W5)
      BY <1>4, <1>10, <1>13
    <3> QED BY <3>1, <3>2, WrittenStays
  <2>5. Written(q, "touchpad disable-while-typing", s["touchpad disable-while-typing"])
    <3>1. "touchpad disable-while-typing" \in Simple /\ PropertyOf("touchpad disable-while-typing") \notin W6
      BY <1>0, <2>1 DEF K
    <3>2. Written(f, "touchpad disable-while-typing", s["touchpad disable-while-typing"]) /\ Kept(f, q, W6)
      BY <1>5, <1>10, <1>13
    <3> QED BY <3>1, <3>2, WrittenStays
  <2>6. Written(q, "touchpad send-events", s["touchpad send-events"])
    <3>1. "touchpad send-events" \in Simple /\ PropertyOf("touchpad send-events") \notin W7
      BY <1>0, <2>1 DEF K
    <3>2. Written(g, "touchpad send-events", s["touchpad send-events"]) /\ Kept(g, q, W7)
      BY <1>6, <1>10, <1>13
    <3> QED BY <3>1, <3>2, WrittenStays
  <2> QED BY <1>9, <1>13, <2>2, <2>3, <2>4, <2>5, <2>6 DEF K
<1>14. d \notin Inputs!Touchpads => q = r
  BY <1>1, <1>2, <1>3, <1>4, <1>5, <1>6, <1>7, <1>8, <1>9
<1> QED BY <1>0, <1>00, <1>11, <1>12, <1>13, <1>14

LEMMA TrackballApplies ==
    ASSUME NEW r \in Inputs!Device, NEW d, NEW s \in Inputs!Settings
    PROVE  LET q == Inputs!ApplyTrackball(r, d, s)
           IN  /\ Kept(r, q, {"button", "profile"}) /\ (d \notin Trackballs => q = r)
               /\ d \in Trackballs => \A k \in Inputs!TrackballKeys : Written(q, k, s[k])
<1> DEFINE a == Inputs!UpdateTrackball("trackball button", r, d, s)
           q == Inputs!UpdateTrackball("trackball accel-profile", a, d, s)
<1>0. /\ PropertyOf("trackball button") = "button" /\ PropertyOf("trackball accel-profile") = "profile"
      /\ {"trackball button", "trackball accel-profile"} = Inputs!TrackballKeys
      /\ {"button", "profile"} \subseteq Inputs!Props
  BY DEF PropertyOf, Inputs!PropOf, Inputs!TrackballKeys, Inputs!Props
<1>1. /\ Kept(r, a, {"button"}) /\ (d \in Trackballs => Written(a, "trackball button", s["trackball button"]))
      /\ d \notin Trackballs => a = r
  BY <1>0, UpdateWrites
<1>2. /\ Kept(a, q, {"profile"})
      /\ (d \in Trackballs => Written(q, "trackball accel-profile", s["trackball accel-profile"]))
      /\ d \notin Trackballs => q = a
  <2>1. a \in Inputs!Device
    BY <1>1 DEF Kept
  <2> HIDE DEF a
  <2> QED BY <1>0, <2>1, UpdateWrites
<1>3. Inputs!ApplyTrackball(r, d, s) = q
  BY DEF Inputs!ApplyTrackball
<1> HIDE DEF a, q
<1>4. Kept(r, q, {"button"} \cup {"profile"})
  BY <1>1, <1>2, KeptTwice
<1>5. d \in Trackballs => Written(q, "trackball button", s["trackball button"])
  <2>1. "trackball button" \in Simple /\ PropertyOf("trackball button") \notin {"profile"}
    BY <1>0, DeviceKinds
  <2> QED BY <1>1, <1>2, <2>1, WrittenStays
<1>6. Kept(r, q, {"button", "profile"})
  BY <1>4 DEF Kept
<1> QED BY <1>0, <1>1, <1>2, <1>3, <1>5, <1>6

(* A device that is applied agrees, whatever it was before.                    *)
LEMMA ApplyAgrees ==
    ASSUME NEW r \in Inputs!Device, NEW d, NEW s \in Inputs!Settings, NEW all \in BOOLEAN
    PROVE  LET q == Inputs!ApplyDeviceSettings(r, d, s, all)
           IN  q \in Inputs!Device /\ \A P : Inputs!DeviceAgrees(q, d, s, P)
<1> DEFINE a == Inputs!ApplyMouse(r, d, s, all)
           b == Inputs!ApplyTouchpad(a, d, s)
           q == Inputs!ApplyTrackball(b, d, s)
<1>0. Inputs!ApplyDeviceSettings(r, d, s, all) = q
  BY DEF Inputs!ApplyDeviceSettings
<1>1. /\ Kept(r, a, {"left", "speed", "natural", "profile"})
      /\ d \in Inputs!Mice => /\ Inputs!Has(a, "left", s["mouse left-handed"])
                              /\ Written(a, "mouse accel-profile", s["mouse accel-profile"])
      /\ d \in Inputs!Pointers => \A k \in {"mouse speed", "mouse natural-scroll"} : Written(a, k, s[k])
  BY MouseApplies
<1> HIDE DEF a
<1>2. /\ Kept(a, b, Inputs!Props \ {"profile", "button"}) /\ (d \notin Inputs!Touchpads => b = a)
      /\ d \in Inputs!Touchpads =>
            /\ Inputs!Has(b, "left", Inputs!TouchpadHand(s))
            /\ Inputs!Has(b, "two", s["touchpad two-finger"]) /\ Inputs!Has(b, "edge", Inputs!Edge(s))
            /\ \A k \in Inputs!TouchpadKeys : Written(b, k, s[k])
  <2>1. a \in Inputs!Device
    BY <1>1 DEF Kept
  <2> QED BY <2>1, TouchpadApplies
<1> HIDE DEF b
<1>3. /\ Kept(b, q, {"button", "profile"}) /\ (d \notin Trackballs => q = b)
      /\ d \in Trackballs => \A k \in Inputs!TrackballKeys : Written(q, k, s[k])
  <2>1. b \in Inputs!Device
    BY <1>2 DEF Kept
  <2> QED BY <2>1, TrackballApplies
<1> HIDE DEF q
<1>4. q \in Inputs!Device
  BY <1>3 DEF Kept
<1>5. {"left", "two", "edge"} \subseteq Inputs!Props \ {"button", "profile"}
  BY DEF Inputs!Props
<1>6. /\ \A v : \A p \in {"left", "two", "edge"} : Inputs!Has(b, p, v) => Inputs!Has(q, p, v)
  BY <1>3, <1>5, HasStays
<1>7. \A k \in Simple : \A v : PropertyOf(k) \notin {"button", "profile"} /\ Written(b, k, v) => Written(q, k, v)
  BY <1>3, WrittenStays
<1>8. d \in Inputs!Mice => Inputs!Has(q, "left", s["mouse left-handed"])
  BY <1>1, <1>2, <1>6, DeviceKinds
<1>9. d \in Inputs!Touchpads => Inputs!Has(q, "left", Inputs!TouchpadHand(s))
                                /\ Inputs!Has(q, "two", s["touchpad two-finger"]) /\ Inputs!Has(q, "edge", Inputs!Edge(s))
  BY <1>2, <1>6
<1>10. d \in Inputs!Touchpads => \A k \in Inputs!TouchpadKeys : Written(q, k, s[k])
  <2>1. \A k \in Inputs!TouchpadKeys : k \in Simple /\ PropertyOf(k) \notin {"button", "profile"}
    <3>1. \A k \in Inputs!TouchpadKeys : PropertyOf(k) \in {"speed", "natural", "tap", "typing", "send", "click"}
      BY DEF PropertyOf, Inputs!PropOf, Inputs!TouchpadKeys
    <3> QED BY <3>1, DeviceKinds
  <2> QED BY <1>2, <1>7, <2>1
<1>11. d \in Inputs!Pointers => \A k \in {"mouse speed", "mouse natural-scroll"} : Written(q, k, s[k])
  <2>1. \A k \in {"mouse speed", "mouse natural-scroll"} : k \in Simple /\ PropertyOf(k) \notin {"button", "profile"}
    BY DeviceKinds DEF PropertyOf, Inputs!PropOf, Inputs!MouseKeys
  <2> QED BY <1>1, <1>2, <1>7, <2>1, DeviceKinds
<1>12. d \in Trackballs => Written(q, "trackball button", s["trackball button"])
                           /\ Written(q, "trackball accel-profile", s["trackball accel-profile"])
  BY <1>3 DEF Inputs!TrackballKeys
<1>13. d \in Inputs!Mice /\ d \notin Trackballs => Written(q, "mouse accel-profile", s["mouse accel-profile"])
  BY <1>1, <1>2, <1>3, DeviceKinds
<1>14. \A P : Inputs!ProfileAgrees(q, d, s, P)
  BY <1>12, <1>13 DEF Inputs!ProfileAgrees, Written
<1>15. \A P : Inputs!HandAgrees(q, d, s, P) /\ Inputs!MethodAgrees(q, d, s, P)
  BY <1>8, <1>9, Zenon DEF Inputs!HandAgrees, Inputs!MethodAgrees
<1>16. \A P : Inputs!DeviceAgrees(q, d, s, P)
  <2> TAKE P
  <2>1. d \in Inputs!Touchpads => \A k \in Inputs!TouchpadKeys \ P : Written(q, k, s[k])
    BY <1>10
  <2>2. d \in Inputs!Pointers => \A k \in {"mouse speed", "mouse natural-scroll"} \ P : Written(q, k, s[k])
    BY <1>11
  <2> QED BY <1>4, <1>12, <1>14, <1>15, <2>1, <2>2, AgreesWritten
<1> QED BY <1>0, <1>4, <1>16

(* A key has one function.                                                     *)
LEMMA OneFunction ==
    ASSUME NEW r, NEW d, NEW s, NEW k
    PROVE  /\ k \in Inputs!MouseKeys => Inputs!Update(k, r, d, s) = Inputs!UpdateMouse(k, r, d, s)
           /\ k \in Inputs!TouchpadKeys => Inputs!Update(k, r, d, s) = Inputs!UpdateTouchpad(k, r, d, s)
           /\ k \in Inputs!TrackballKeys => Inputs!Update(k, r, d, s) = Inputs!UpdateTrackball(k, r, d, s)
<1> DEFINE hands == {"mouse left-handed", "touchpad left-handed", "touchpad edge", "touchpad two-finger"}
<1>1. /\ k \in Inputs!MouseKeys => k \notin Inputs!TouchpadKeys \cup Inputs!TrackballKeys \cup hands
      /\ k \in Inputs!TouchpadKeys => k \notin Inputs!MouseKeys \cup Inputs!TrackballKeys \cup hands
      /\ k \in Inputs!TrackballKeys => k \notin Inputs!MouseKeys \cup Inputs!TouchpadKeys \cup hands
  BY DEF Inputs!MouseKeys, Inputs!TouchpadKeys, Inputs!TrackballKeys
<1>2. CASE k \in Inputs!MouseKeys
  BY <1>1, <1>2 DEF Inputs!Update
<1>3. CASE k \in Inputs!TouchpadKeys
  BY <1>1, <1>3 DEF Inputs!Update
<1>4. CASE k \in Inputs!TrackballKeys
  BY <1>1, <1>4 DEF Inputs!Update
<1> QED BY <1>2, <1>3, <1>4

LEMMA UpdateTypes ==
    ASSUME NEW r \in Inputs!Device, NEW d, NEW s \in Inputs!Settings, NEW k
    PROVE  Inputs!Update(k, r, d, s) \in Inputs!Device
<1>1. \A x, P : Kept(r, x, P) => x \in Inputs!Device
  BY DEF Kept
<1>2. /\ k \in Inputs!MouseKeys => Inputs!UpdateMouse(k, r, d, s) \in Inputs!Device
      /\ k \in Inputs!TouchpadKeys => Inputs!UpdateTouchpad(k, r, d, s) \in Inputs!Device
      /\ k \in Inputs!TrackballKeys => Inputs!UpdateTrackball(k, r, d, s) \in Inputs!Device
  BY <1>1, UpdateWrites
<1>3. Inputs!UpdateMouseLeftHanded(r, d, s, TRUE) \in Inputs!Device /\ Inputs!UpdateTouchpadLeftHanded(r, d, s) \in Inputs!Device
  BY <1>1, HandWrites
<1>4. Inputs!UpdateEdgeScroll(r, d, s) \in Inputs!Device /\ Inputs!UpdateTwoFingerScroll(r, d, s) \in Inputs!Device
  BY <1>1, ScrollWrites
<1> QED BY <1>2, <1>3, <1>4 DEF Inputs!Update

(* A notification that was handled holds its key up no more.                   *)
LEMMA UpdateAgrees ==
    ASSUME NEW r \in Inputs!Device, NEW d, NEW s \in Inputs!Settings, NEW P, NEW k \in Inputs!Keys,
           Inputs!DeviceAgrees(r, d, s, P)
    PROVE  LET q == Inputs!Update(k, r, d, s)
           IN  q \in Inputs!Device /\ Inputs!DeviceAgrees(q, d, s, P \ {k})
<1> DEFINE q == Inputs!Update(k, r, d, s)
<1>0. /\ Inputs!HandAgrees(r, d, s, P) /\ Inputs!MethodAgrees(r, d, s, P) /\ Inputs!ProfileAgrees(r, d, s, P)
      /\ d \in Inputs!Touchpads => \A x \in Inputs!TouchpadKeys \ P : Written(r, x, s[x])
      /\ d \in Inputs!Pointers => \A x \in {"mouse speed", "mouse natural-scroll"} \ P : Written(r, x, s[x])
      /\ d \in Trackballs /\ "trackball button" \notin P => Written(r, "trackball button", s["trackball button"])
  BY AgreesWritten
<1> DEFINE R == P \ {k}
           Simples(x) == /\ d \in Inputs!Touchpads => \A y \in Inputs!TouchpadKeys \ R : Written(x, y, s[y])
                         /\ d \in Inputs!Pointers =>
                              \A y \in {"mouse speed", "mouse natural-scroll"} \ R : Written(x, y, s[y])
                         /\ d \in Trackballs /\ "trackball button" \notin R =>
                              Written(x, "trackball button", s["trackball button"])
           Goal(x) == /\ x \in Inputs!Device /\ Inputs!HandAgrees(x, d, s, R) /\ Inputs!MethodAgrees(x, d, s, R)
                      /\ Inputs!ProfileAgrees(x, d, s, R) /\ Simples(x)
<1>1. Goal(q) => q \in Inputs!Device /\ Inputs!DeviceAgrees(q, d, s, P \ {k})
  BY AgreesWritten, Zenon
<1>2. \A Q : \A x : Kept(r, x, Q) =>
        /\ x \in Inputs!Device
        /\ \A p \in Inputs!Props \ Q : \A v : Inputs!Has(r, p, v) => Inputs!Has(x, p, v)
        /\ \A y \in Simple : \A v : PropertyOf(y) \notin Q /\ Written(r, y, v) => Written(x, y, v)
  BY HasStays, WrittenStays DEF Kept
<1>3. /\ PropertyOf("mouse speed") = "speed" /\ PropertyOf("mouse natural-scroll") = "natural"
      /\ PropertyOf("mouse accel-profile") = "profile"
      /\ PropertyOf("touchpad speed") = "speed" /\ PropertyOf("touchpad natural-scroll") = "natural"
      /\ PropertyOf("touchpad tap-to-click") = "tap" /\ PropertyOf("touchpad disable-while-typing") = "typing"
      /\ PropertyOf("touchpad send-events") = "send" /\ PropertyOf("touchpad click-method") = "click"
      /\ PropertyOf("trackball button") = "button" /\ PropertyOf("trackball accel-profile") = "profile"
  BY DEF PropertyOf, Inputs!PropOf
<1> HIDE DEF Simples, Goal, R
<1>R. \A x : x \in R <=> x \in P /\ x # k
  BY DEF R
<1>4. ASSUME NEW x, k \notin {"mouse left-handed", "touchpad left-handed"},
             \A v : Inputs!Has(r, "left", v) => Inputs!Has(x, "left", v)
      PROVE  Inputs!HandAgrees(x, d, s, R)
  BY <1>0, <1>4, <1>R DEF Inputs!HandAgrees
<1>5. ASSUME NEW x, k \notin {"touchpad two-finger", "touchpad edge"},
             \A v : \A p \in {"two", "edge"} : Inputs!Has(r, p, v) => Inputs!Has(x, p, v)
      PROVE  Inputs!MethodAgrees(x, d, s, R)
  BY <1>0, <1>5, <1>R DEF Inputs!MethodAgrees
<1>6. ASSUME NEW x, NEW Q, Kept(r, x, Q), "profile" \notin Q, k \notin {"mouse accel-profile", "trackball accel-profile"}
      PROVE  Inputs!ProfileAgrees(x, d, s, R)
  <2>1. \A y \in {"mouse accel-profile", "trackball accel-profile"} :
          Inputs!Has(r, "profile", Inputs!Profile(r, s[y])) => Inputs!Has(x, "profile", Inputs!Profile(x, s[y]))
    BY <1>6 DEF Kept, Inputs!Has, Inputs!Profile, Inputs!Props
  <2>2. \A y \in {"mouse accel-profile", "trackball accel-profile"} : y \in R <=> y \in P
    BY <1>6, <1>R
  <2> QED BY <1>0, <2>1, <2>2 DEF Inputs!ProfileAgrees
<1>7. ASSUME NEW x, NEW Q, Kept(r, x, Q), k \notin Simple, Q \subseteq {"left", "two", "edge"} PROVE Simples(x)
  <2>1. \A y \in Inputs!TouchpadKeys \cup {"mouse speed", "mouse natural-scroll", "trackball button"} :
           y \in Simple /\ PropertyOf(y) \notin Q /\ (y \in R <=> y \in P)
    <3>1. \A y \in Inputs!TouchpadKeys \cup {"mouse speed", "mouse natural-scroll", "trackball button"} :
             PropertyOf(y) \in {"speed", "natural", "tap", "typing", "send", "click", "button"} /\ y \in Simple
      BY <1>3 DEF Simple, Inputs!TouchpadKeys, Inputs!MouseKeys, Inputs!TrackballKeys
    <3> QED BY <1>7, <1>R, <3>1
  <2>2. \A y \in Inputs!TouchpadKeys \cup {"mouse speed", "mouse natural-scroll", "trackball button"} :
           Written(r, y, s[y]) => Written(x, y, s[y])
    BY <1>2, <1>7, <2>1
  <2> QED BY <1>0, <2>1, <2>2 DEF Simples
<1>8. ASSUME NEW x, NEW Q, Kept(r, x, Q), Q \cap {"left", "two", "edge"} = {},
             k \notin {"mouse left-handed", "touchpad left-handed", "touchpad two-finger", "touchpad edge"}
      PROVE  Inputs!HandAgrees(x, d, s, R) /\ Inputs!MethodAgrees(x, d, s, R)
  <2>1. {"left", "two", "edge"} \subseteq Inputs!Props \ Q
    BY <1>8 DEF Inputs!Props
  <2> QED BY <1>2, <1>4, <1>5, <1>8, <2>1
<1>9. \A Q : Kept(r, r, Q)
  BY DEF Kept
<1>10. CASE k \in {"mouse speed", "mouse natural-scroll"}
  <2>0. k \in Inputs!MouseKeys /\ k # "mouse accel-profile"
    BY <1>10 DEF Inputs!MouseKeys
  <2>1. Inputs!Update(k, r, d, s) = Inputs!UpdateMouse(k, r, d, s)
    BY <2>0, OneFunction
  <2>2. Kept(r, q, {PropertyOf(k)}) /\ (d \in Inputs!Pointers => Written(q, k, s[k])) /\ (d \notin Inputs!Pointers => q = r)
    <3>1. LET x == Inputs!UpdateMouse(k, r, d, s)
          IN  /\ Kept(r, x, {PropertyOf(k)}) /\ (d \in Inputs!Pointers => Written(x, k, s[k]))
              /\ d \notin Inputs!Pointers => x = r
      BY <2>0, UpdateWrites, Zenon
    <3> QED BY <2>1, <3>1
  <2> HIDE DEF q
  <2>3. PropertyOf(k) \in {"speed", "natural"}
    BY <1>3, <1>10
  <2>4. /\ Inputs!HandAgrees(q, d, s, R) /\ Inputs!MethodAgrees(q, d, s, R) /\ Inputs!ProfileAgrees(q, d, s, R)
    BY <1>6, <1>8, <1>10, <2>2, <2>3
  <2>5. \A y \in {"mouse speed", "mouse natural-scroll", "trackball button"} \ {k} : Written(r, y, s[y]) => Written(q, y, s[y])
    <3>1. \A y \in {"mouse speed", "mouse natural-scroll", "trackball button"} \ {k} :
             y \in Simple /\ PropertyOf(y) \notin {PropertyOf(k)}
      BY <1>3, <1>10 DEF Simple, Inputs!MouseKeys, Inputs!TrackballKeys
    <3> QED BY <1>2, <2>2, <3>1
  <2>6. d \in Inputs!Touchpads => \A y \in Inputs!TouchpadKeys \ R : Written(q, y, s[y])
    BY <1>0, <1>10, <1>R, <2>2, DeviceKinds DEF Inputs!TouchpadKeys
  <2>7. Simples(q)
    BY <1>0, <1>10, <1>R, <2>2, <2>5, <2>6 DEF Simples
  <2> QED BY <1>1, <1>2, <2>2, <2>4, <2>7 DEF Goal, q
<1>11. CASE k \in Inputs!TouchpadKeys
  <2>1. Inputs!Update(k, r, d, s) = Inputs!UpdateTouchpad(k, r, d, s)
    BY <1>11, OneFunction
  <2>2. Kept(r, q, {PropertyOf(k)}) /\ (d \in Inputs!Touchpads => Written(q, k, s[k])) /\ (d \notin Inputs!Touchpads => q = r)
    <3>1. LET x == Inputs!UpdateTouchpad(k, r, d, s)
          IN  /\ Kept(r, x, {PropertyOf(k)}) /\ (d \in Inputs!Touchpads => Written(x, k, s[k]))
              /\ d \notin Inputs!Touchpads => x = r
      BY <1>11, UpdateWrites, Zenon
    <3> QED BY <2>1, <3>1
  <2> HIDE DEF q
  <2>3. PropertyOf(k) \in {"speed", "natural", "tap", "typing", "send", "click"}
    BY <1>3, <1>11 DEF Inputs!TouchpadKeys
  <2>4. k \notin {"mouse left-handed", "touchpad left-handed", "touchpad two-finger", "touchpad edge",
                  "mouse accel-profile", "trackball accel-profile", "mouse speed", "mouse natural-scroll", "trackball button"}
    BY <1>11 DEF Inputs!TouchpadKeys
  <2>5. Inputs!HandAgrees(q, d, s, R) /\ Inputs!MethodAgrees(q, d, s, R) /\ Inputs!ProfileAgrees(q, d, s, R)
    BY <1>6, <1>8, <2>2, <2>3, <2>4
  <2>6. \A y \in (Inputs!TouchpadKeys \cup {"trackball button"}) \ {k} : Written(r, y, s[y]) => Written(q, y, s[y])
    <3>1. \A y \in (Inputs!TouchpadKeys \cup {"trackball button"}) \ {k} : y \in Simple /\ PropertyOf(y) \notin {PropertyOf(k)}
      BY <1>3, <1>11 DEF Simple, Inputs!TouchpadKeys, Inputs!TrackballKeys
    <3> QED BY <1>2, <2>2, <3>1
  <2>7. d \in Inputs!Touchpads => \A y \in Inputs!TouchpadKeys \ R : Written(q, y, s[y])
    BY <1>0, <1>R, <2>2, <2>6
  <2>8. d \in Inputs!Pointers => \A y \in {"mouse speed", "mouse natural-scroll"} \ R : Written(q, y, s[y])
    BY <1>0, <1>R, <2>2, <2>4, DeviceKinds
  <2>9. Simples(q)
    BY <1>0, <1>R, <2>4, <2>6, <2>7, <2>8 DEF Simples
  <2> QED BY <1>1, <1>2, <2>2, <2>5, <2>9 DEF Goal, q
<1>12. CASE k = "trackball button"
  <2>1. Inputs!Update(k, r, d, s) = Inputs!UpdateTrackball(k, r, d, s) /\ k \in Inputs!TrackballKeys
    BY <1>12 DEF Inputs!Update, Inputs!MouseKeys, Inputs!TouchpadKeys, Inputs!TrackballKeys
  <2>2. Kept(r, q, {"button"}) /\ (d \in Trackballs => Written(q, k, s[k]))
    BY <1>3, <1>12, <2>1, UpdateWrites
  <2> HIDE DEF q
  <2>3. /\ Inputs!HandAgrees(q, d, s, R) /\ Inputs!MethodAgrees(q, d, s, R) /\ Inputs!ProfileAgrees(q, d, s, R)
    BY <1>6, <1>8, <1>12, <2>2
  <2>4. \A y \in Inputs!TouchpadKeys \cup {"mouse speed", "mouse natural-scroll"} : Written(r, y, s[y]) => Written(q, y, s[y])
    <3>1. \A y \in Inputs!TouchpadKeys \cup {"mouse speed", "mouse natural-scroll"} : y \in Simple /\ PropertyOf(y) \notin {"button"}
      BY <1>3 DEF Simple, Inputs!TouchpadKeys, Inputs!MouseKeys
    <3> QED BY <1>2, <2>2, <3>1
  <2>5. \A y \in Inputs!TouchpadKeys \cup {"mouse speed", "mouse natural-scroll"} : y # k
    BY <1>12 DEF Inputs!TouchpadKeys
  <2>6. Simples(q)
    BY <1>0, <1>12, <1>R, <2>2, <2>4, <2>5 DEF Simples
  <2> QED BY <1>1, <1>2, <2>2, <2>3, <2>6 DEF Goal, q
<1>13. CASE k \in {"mouse accel-profile", "trackball accel-profile"}
  <2> DEFINE kind == IF k = "mouse accel-profile" THEN Inputs!Mice ELSE Trackballs
  <2>1. Kept(r, q, {"profile"}) /\ (d \in kind => Written(q, k, s[k])) /\ (d \notin kind => q = r)
    <3>1. CASE k = "mouse accel-profile"
      <4>0. k \in Inputs!MouseKeys
        BY <3>1 DEF Inputs!MouseKeys
      <4>1. Inputs!Update(k, r, d, s) = Inputs!UpdateMouse(k, r, d, s)
        BY <4>0, OneFunction
      <4> QED BY <1>3, <3>1, <4>0, <4>1, UpdateWrites
    <3>2. CASE k = "trackball accel-profile"
      <4>1. Inputs!Update(k, r, d, s) = Inputs!UpdateTrackball(k, r, d, s) /\ k \in Inputs!TrackballKeys
        BY <3>2 DEF Inputs!Update, Inputs!MouseKeys, Inputs!TouchpadKeys, Inputs!TrackballKeys
      <4> QED BY <1>3, <3>2, <4>1, UpdateWrites
    <3> QED BY <1>13, <3>1, <3>2
  <2> HIDE DEF q
  <2>2. Inputs!HandAgrees(q, d, s, R) /\ Inputs!MethodAgrees(q, d, s, R)
    BY <1>8, <1>13, <2>1
  <2>3. Inputs!ProfileAgrees(q, d, s, R)
    <3>1. CASE d \in kind
      <4>1. Inputs!Has(q, "profile", Inputs!Profile(q, s[k]))
        BY <1>13, <2>1, <3>1 DEF Written
      <4> QED BY <1>13, <3>1, <4>1 DEF Inputs!ProfileAgrees
    <3>2. CASE d \notin kind
      <4>1. q = r
        BY <2>1, <3>2
      <4> QED BY <1>0, <1>13, <1>R, <3>2, <4>1 DEF Inputs!ProfileAgrees
    <3> QED BY <3>1, <3>2
  <2>4. \A y \in Inputs!TouchpadKeys \cup {"mouse speed", "mouse natural-scroll", "trackball button"} :
           y # k /\ (Written(r, y, s[y]) => Written(q, y, s[y]))
    <3>1. \A y \in Inputs!TouchpadKeys \cup {"mouse speed", "mouse natural-scroll", "trackball button"} :
             y \in Simple /\ PropertyOf(y) \notin {"profile"}
      BY <1>3 DEF Simple, Inputs!TouchpadKeys, Inputs!MouseKeys, Inputs!TrackballKeys
    <3>2. \A y \in Inputs!TouchpadKeys \cup {"mouse speed", "mouse natural-scroll", "trackball button"} : y # k
      BY <1>13 DEF Inputs!TouchpadKeys
    <3> QED BY <1>2, <2>1, <3>1, <3>2
  <2>5. Simples(q)
    BY <1>0, <1>R, <2>4 DEF Simples
  <2> QED BY <1>1, <1>2, <2>1, <2>2, <2>3, <2>5 DEF Goal, q
<1>14. CASE k \in {"mouse left-handed", "touchpad left-handed"}
  <2> DEFINE a == Inputs!UpdateMouseLeftHanded(r, d, s, TRUE)
             b == Inputs!UpdateTouchpadLeftHanded(r, d, s)
  <2>1. q = IF k = "mouse left-handed" THEN a ELSE b
    BY <1>14 DEF Inputs!Update, Inputs!MouseKeys, Inputs!TouchpadKeys, Inputs!TrackballKeys
  <2>2. /\ Kept(r, a, {"left"}) /\ Kept(r, b, {"left"})
        /\ d \in Inputs!Mice => Inputs!Has(a, "left", s["mouse left-handed"])
        /\ d \in Inputs!Touchpads => Inputs!Has(b, "left", Inputs!TouchpadHand(s))
        /\ d \in Inputs!Touchpads /\ s["touchpad left-handed"] = "mouse" => a = b
        /\ d \in Inputs!Touchpads /\ s["touchpad left-handed"] # "mouse" => a = r
        /\ d \notin Inputs!Touchpads => b = r
    BY HandWrites
  <2> HIDE DEF a, b, q
  <2>3. Kept(r, q, {"left"})
    BY <2>1, <2>2
  <2>4. Inputs!HandAgrees(q, d, s, R)
    <3>1. CASE k = "mouse left-handed"
      BY <1>0, <1>R, <2>1, <2>2, <3>1, DeviceKinds DEF Inputs!HandAgrees
    <3>2. CASE k = "touchpad left-handed"
      BY <1>0, <1>R, <2>1, <2>2, <3>2, DeviceKinds DEF Inputs!HandAgrees
    <3> QED BY <1>14, <3>1, <3>2
  <2>5. Inputs!MethodAgrees(q, d, s, R)
    <3>1. {"two", "edge"} \subseteq Inputs!Props \ {"left"}
      BY DEF Inputs!Props
    <3> QED BY <1>2, <1>5, <1>14, <2>3, <3>1
  <2>6. Inputs!ProfileAgrees(q, d, s, R)
    BY <1>6, <1>14, <2>3
  <2>7. Simples(q)
    <3>1. k \notin Simple
      BY <1>14 DEF Simple, Inputs!MouseKeys, Inputs!TouchpadKeys, Inputs!TrackballKeys
    <3> QED BY <1>7, <2>3, <3>1
  <2> QED BY <1>1, <1>2, <2>3, <2>4, <2>5, <2>6, <2>7 DEF Goal, q
<1>15. CASE k \in {"touchpad edge", "touchpad two-finger"}
  <2> DEFINE a == Inputs!UpdateEdgeScroll(r, d, s)
             b == Inputs!UpdateTwoFingerScroll(r, d, s)
  <2>1. q = IF k = "touchpad edge" THEN a ELSE b
    BY <1>15 DEF Inputs!Update, Inputs!MouseKeys, Inputs!TouchpadKeys, Inputs!TrackballKeys
  <2>2. /\ Kept(r, a, {"edge"}) /\ Kept(r, b, {"two", "edge"})
        /\ d \in Inputs!Touchpads => /\ Inputs!Has(a, "edge", Inputs!Edge(s)) /\ Inputs!Has(b, "edge", Inputs!Edge(s))
                                     /\ Inputs!Has(b, "two", s["touchpad two-finger"])
    BY ScrollWrites
  <2> HIDE DEF a, b, q
  <2>3. Kept(r, q, {"two", "edge"})
    BY <2>1, <2>2 DEF Kept
  <2>4. \A v : Inputs!Has(r, "two", v) => Inputs!Has(a, "two", v)
    <3>1. "two" \in Inputs!Props \ {"edge"}
      BY DEF Inputs!Props
    <3> QED BY <1>2, <2>2, <3>1
  <2>5. Inputs!MethodAgrees(q, d, s, R)
    <3>1. CASE k = "touchpad edge"
      BY <1>0, <1>R, <2>1, <2>2, <2>4, <3>1 DEF Inputs!MethodAgrees
    <3>2. CASE k = "touchpad two-finger"
      BY <1>0, <1>R, <2>1, <2>2, <3>2 DEF Inputs!MethodAgrees
    <3> QED BY <1>15, <3>1, <3>2
  <2>6. Inputs!HandAgrees(q, d, s, R)
    <3>1. "left" \in Inputs!Props \ {"two", "edge"}
      BY DEF Inputs!Props
    <3> QED BY <1>2, <1>4, <1>15, <2>3, <3>1
  <2>7. Inputs!ProfileAgrees(q, d, s, R)
    BY <1>6, <1>15, <2>3
  <2>8. Simples(q)
    <3>1. k \notin Simple
      BY <1>15 DEF Simple, Inputs!MouseKeys, Inputs!TouchpadKeys, Inputs!TrackballKeys
    <3> QED BY <1>7, <2>3, <3>1
  <2> QED BY <1>1, <1>2, <2>3, <2>5, <2>6, <2>7, <2>8 DEF Goal, q
<1>16. CASE k \in Inputs!RepeatKeys \cup {"remember-numlock-state"}
  <2>1. q = r
    BY <1>16 DEF Inputs!Update, Inputs!MouseKeys, Inputs!TouchpadKeys, Inputs!TrackballKeys, Inputs!RepeatKeys
  <2>2. k \notin Simple /\ k \notin {"mouse left-handed", "touchpad left-handed", "touchpad two-finger", "touchpad edge",
                                     "mouse accel-profile", "trackball accel-profile"}
    BY <1>16 DEF Simple, Inputs!MouseKeys, Inputs!TouchpadKeys, Inputs!TrackballKeys, Inputs!RepeatKeys
  <2>3. Kept(r, r, {})
    BY <1>9
  <2>4. Goal(r)
    BY <1>6, <1>7, <1>8, <2>2, <2>3 DEF Goal
  <2> QED BY <1>1, <2>1, <2>4
<1> QED
  <2>1. Inputs!Keys = {"mouse speed", "mouse natural-scroll"} \cup Inputs!TouchpadKeys \cup {"trackball button"}
          \cup {"mouse accel-profile", "trackball accel-profile"} \cup {"mouse left-handed", "touchpad left-handed"}
          \cup {"touchpad edge", "touchpad two-finger"} \cup Inputs!RepeatKeys \cup {"remember-numlock-state"}
    BY DEF Inputs!Keys, Inputs!MouseKeys, Inputs!TrackballKeys
  <2> QED BY <1>10, <1>11, <1>12, <1>13, <1>14, <1>15, <1>16, <2>1

(* A key that changes is held up from then on.                                 *)
LEMMA ChangeAgrees ==
    ASSUME NEW r \in Inputs!Device, NEW d, NEW s \in Inputs!Settings, NEW P, NEW k \in Inputs!Keys, NEW v \in Inputs!Values(k),
           Inputs!DeviceAgrees(r, d, s, P)
    PROVE  LET t == [s EXCEPT ![k] = v]
           IN  t \in Inputs!Settings /\ Inputs!DeviceAgrees(r, d, t, P \cup {k})
<1> DEFINE t == [s EXCEPT ![k] = v]
           R == P \cup {k}
<1>1. t \in Inputs!Settings
  BY DEF Inputs!Settings
<1>2. \A y \in Inputs!Keys \ R : t[y] = s[y] /\ y \notin P
  BY DEF Inputs!Settings
<1>3. /\ Inputs!HandAgrees(r, d, s, P) /\ Inputs!MethodAgrees(r, d, s, P) /\ Inputs!ProfileAgrees(r, d, s, P)
      /\ d \in Inputs!Touchpads => \A x \in Inputs!TouchpadKeys \ P : Written(r, x, s[x])
      /\ d \in Inputs!Pointers => \A x \in {"mouse speed", "mouse natural-scroll"} \ P : Written(r, x, s[x])
      /\ d \in Trackballs /\ "trackball button" \notin P => Written(r, "trackball button", s["trackball button"])
  BY AgreesWritten
<1>R. \A y \in Inputs!Keys : y \notin R => t[y] = s[y] /\ y \notin P
  BY <1>2
<1> HIDE DEF t, R
<1>4. {"mouse left-handed", "touchpad left-handed", "touchpad two-finger", "touchpad edge", "mouse speed", "mouse natural-scroll",
       "trackball button", "mouse accel-profile", "trackball accel-profile"} \cup Inputs!TouchpadKeys \subseteq Inputs!Keys
  BY DEF Inputs!Keys, Inputs!MouseKeys, Inputs!TrackballKeys
<1>5. Inputs!HandAgrees(r, d, t, R)
  BY <1>2, <1>3, <1>4 DEF Inputs!HandAgrees, Inputs!TouchpadHand
<1>6. Inputs!MethodAgrees(r, d, t, R)
  BY <1>R, <1>3, <1>4, Zenon DEF Inputs!MethodAgrees, Inputs!Edge
<1>7. Inputs!ProfileAgrees(r, d, t, R)
  <2>1. \A y \in {"mouse accel-profile", "trackball accel-profile"} : y \notin R => t[y] = s[y] /\ y \notin P
    BY <1>R, <1>4
  <2> QED BY <1>3, <2>1 DEF Inputs!ProfileAgrees
<1>8. /\ d \in Inputs!Touchpads => \A x \in Inputs!TouchpadKeys \ R : Written(r, x, t[x])
      /\ d \in Inputs!Pointers => \A x \in {"mouse speed", "mouse natural-scroll"} \ R : Written(r, x, t[x])
      /\ d \in Trackballs /\ "trackball button" \notin R => Written(r, "trackball button", t["trackball button"])
  BY <1>2, <1>3, <1>4
<1>9. Inputs!DeviceAgrees(r, d, t, R)
  BY <1>1, <1>5, <1>6, <1>7, <1>8, AgreesWritten
<1> QED BY <1>1, <1>9 DEF t, R

(* Only keys hold a device up.                                                 *)
LEMMA AgreesMore ==
    ASSUME NEW r, NEW d, NEW s, NEW P, NEW R, P \cap Inputs!Keys \subseteq R, Inputs!DeviceAgrees(r, d, s, P)
    PROVE  Inputs!DeviceAgrees(r, d, s, R)
<1>1. {"mouse left-handed", "touchpad left-handed", "touchpad two-finger", "touchpad edge", "mouse speed", "mouse natural-scroll",
       "trackball button", "mouse accel-profile", "trackball accel-profile"} \cup Inputs!TouchpadKeys \subseteq Inputs!Keys
  BY DEF Inputs!Keys, Inputs!MouseKeys, Inputs!TrackballKeys
<1>2. \A k \in Inputs!Keys : k \notin R => k \notin P
  OBVIOUS
<1>3. {"touchpad send-events", "touchpad click-method"} \subseteq Inputs!TouchpadKeys
  BY DEF Inputs!TouchpadKeys
<1>4. Inputs!HandAgrees(r, d, s, R)
  BY <1>1, <1>2 DEF Inputs!DeviceAgrees, Inputs!HandAgrees
<1>5. Inputs!MethodAgrees(r, d, s, R)
  BY <1>1, <1>2 DEF Inputs!DeviceAgrees, Inputs!MethodAgrees
<1>6. Inputs!TouchpadAgrees(r, d, s, R)
  BY <1>1, <1>2, <1>3, Zenon DEF Inputs!DeviceAgrees, Inputs!TouchpadAgrees
<1>7. Inputs!PointerAgrees(r, d, s, R)
  BY <1>1, <1>2 DEF Inputs!DeviceAgrees, Inputs!PointerAgrees
<1>8. Inputs!ProfileAgrees(r, d, s, R)
  BY <1>1, <1>2 DEF Inputs!DeviceAgrees, Inputs!ProfileAgrees
<1> QED BY <1>4, <1>5, <1>6, <1>7, <1>8 DEF Inputs!DeviceAgrees

(* What is pending after the first notification was handled, and after another *)
(* one came                                                                    *)
LEMMA PendingChanges ==
    ASSUME NEW S, NEW q \in Seq(S)
    PROVE  /\ q # <<>> => \A i \in DOMAIN q : q[i] = Head(q) \/ \E j \in DOMAIN Tail(q) : Tail(q)[j] = q[i]
           /\ \A k \in S : /\ \A i \in DOMAIN q : \E j \in DOMAIN Append(q, k) : Append(q, k)[j] = q[i]
                           /\ \E j \in DOMAIN Append(q, k) : Append(q, k)[j] = k
                           /\ \A j \in DOMAIN Append(q, k) : Append(q, k)[j] = k \/ \E i \in DOMAIN q : q[i] = Append(q, k)[j]
<1>1. ASSUME q # <<>>, NEW i \in DOMAIN q PROVE q[i] = Head(q) \/ \E j \in DOMAIN Tail(q) : Tail(q)[j] = q[i]
  <2>1. i = 1 \/ (i - 1 \in DOMAIN Tail(q) /\ Tail(q)[i - 1] = q[i])
    BY <1>1
  <2>2. Head(q) = q[1]
    BY <1>1
  <2> QED BY <2>1, <2>2
<1>2. ASSUME NEW k \in S
      PROVE  /\ \A i \in DOMAIN q : i \in DOMAIN Append(q, k) /\ Append(q, k)[i] = q[i]
             /\ Len(q) + 1 \in DOMAIN Append(q, k) /\ Append(q, k)[Len(q) + 1] = k
             /\ \A i \in DOMAIN Append(q, k) : i = Len(q) + 1 \/ i \in DOMAIN q
  OBVIOUS
<1> QED BY <1>1, <1>2, Zenon

LEMMA LastStays ==
    ASSUME NEW S, NEW q \in Seq(S), q # <<>>
    PROVE  /\ Tail(q) # <<>> => Tail(q)[Len(Tail(q))] = q[Len(q)]
           /\ Tail(q) = <<>> => Head(q) = q[Len(q)]
<1>1. /\ Tail(q) \in Seq(S) /\ Len(Tail(q)) = Len(q) - 1 /\ Head(q) = q[1] /\ Len(q) \in Nat
      /\ \A i \in 1..Len(Tail(q)) : Tail(q)[i] = q[i + 1]
  BY HeadTailProperties
<1>2. Len(Tail(q)) \in Nat /\ (Tail(q) = <<>> <=> Len(Tail(q)) = 0)
  BY <1>1, EmptySeq
<1> QED BY <1>1, <1>2

LEMMA DefaultsAreSettings == Inputs!Defaults \in Inputs!Settings
<1>1. \A k \in Inputs!Keys : Inputs!Defaults[k] \in Inputs!Values(k)
  BY DEF Inputs!Defaults, Inputs!Values, Inputs!Keys, Inputs!MouseKeys, Inputs!TouchpadKeys, Inputs!TrackballKeys, Inputs!RepeatKeys
<1>2. Inputs!Defaults = [k \in Inputs!Keys |-> Inputs!Defaults[k]]
  BY DEF Inputs!Defaults
<1> QED BY <1>1, <1>2 DEF Inputs!Settings

LEMMA RepeatUpdates ==
    ASSUME NEW s \in Inputs!Settings,
           x9 \in [on : BOOLEAN, rate : Inputs!Values("keyboard delay") \X Inputs!Values("keyboard repeat-interval")]
    PROVE  LET q == Inputs!UpdateKeyboardRepeat(s)
           IN  /\ q \in [on : BOOLEAN, rate : Inputs!Values("keyboard delay") \X Inputs!Values("keyboard repeat-interval")]
               /\ q.on <=> s["keyboard repeat"] = "on"
               /\ q.on => q.rate = <<s["keyboard delay"], s["keyboard repeat-interval"]>>
<1>1. {"keyboard delay", "keyboard repeat-interval"} \subseteq Inputs!Keys
  BY DEF Inputs!Keys, Inputs!RepeatKeys
<1>2. s["keyboard delay"] \in Inputs!Values("keyboard delay")
      /\ s["keyboard repeat-interval"] \in Inputs!Values("keyboard repeat-interval")
  BY <1>1, ValuesOfKeys
<1> QED BY <1>2 DEF Inputs!UpdateKeyboardRepeat

LEMMA DisplayType ==
    ASSUME x2 \in [Devices -> Monitors \cup {None}], NEW w \in [Monitors -> Places \cup {None}], NEW d \in Devices
    PROVE  Inputs!Display(d, w) \in Places \cup {None}
  BY InputsAssumption DEF Inputs!Display

(* The devices, when some are placed                                           *)
LEMMA PlacedAgrees ==
    ASSUME Inputs!TypeOK, NEW S \in SUBSET Devices, NEW w \in [Monitors -> Places \cup {None}]
    PROVE  LET m == Inputs!Placed(S, w)
           IN  /\ m \in [Devices -> Places \cup {None}]
               /\ \A d \in Devices \ S : m[d] = x7[d]
               /\ \A d \in S : m[d] = IF Inputs!Displayed(d) THEN Inputs!Display(d, w) ELSE x7[d]
  BY DisplayType DEF Inputs!TypeOK, Inputs!Placed

LEMMA InputsBegin == ASSUME Inputs!Init PROVE Inputs!Inv
<1>1. Inputs!Defaults \in Inputs!Settings
  BY DefaultsAreSettings
<1>2. PICK r \in [Devices -> UNION {Drivers[d] : d \in Devices}] :
        /\ \A d \in Devices : r[d] \in Drivers[d]
        /\ x5 = [d \in Devices |-> Inputs!ApplyDeviceSettings(r[d], d, Inputs!Defaults, TRUE)]
  BY DEF Inputs!Init
<1>3. \A d \in Devices : r[d] \in Inputs!Device
  BY <1>2, InputsAssumption
<1>4. \A d \in Devices : x5[d] \in Inputs!Device /\ \A P : Inputs!DeviceAgrees(x5[d], d, Inputs!Defaults, P)
  BY <1>1, <1>2, <1>3, ApplyAgrees
<1>5. x1 = Inputs!Defaults /\ x2 = [d \in Devices |-> None] /\ x3 = <<>> /\ x4 = Devices
      /\ x6 = {d \in Devices : Inputs!Mappable(d)} /\ x7 = [d \in Devices |-> None]
      /\ x8 \in [Monitors -> Places \cup {None}] /\ x11 = 0
      /\ x9 = [on |-> x1["keyboard repeat"] = "on", rate |-> <<x1["keyboard delay"], x1["keyboard repeat-interval"]>>]
      /\ x10 = [on |-> FALSE, events |-> <<>>, saved |-> FALSE, kept |-> Inputs!Remembers]
  BY DEF Inputs!Init
<1>6. Inputs!RepeatAgrees
  BY <1>5 DEF Inputs!RepeatAgrees
<1>7. \A d \in Devices : Inputs!PlaceAgrees(d)
  BY <1>5 DEF Inputs!PlaceAgrees, Inputs!Display
<1>8. Inputs!Remembers \in BOOLEAN /\ x10 \in Inputs!Locks
  <2>1. <<>> \in Seq(BOOLEAN) /\ Inputs!Remembers \in BOOLEAN
    BY DEF Inputs!Remembers
  <2> QED BY <1>5, <2>1, Zenon DEF Inputs!Locks
<1>9. x9 \in [on : BOOLEAN, rate : Inputs!Values("keyboard delay") \X Inputs!Values("keyboard repeat-interval")]
  <2>1. {"keyboard delay", "keyboard repeat-interval"} \subseteq Inputs!Keys
    BY DEF Inputs!Keys, Inputs!RepeatKeys
  <2>2. x1["keyboard delay"] \in Inputs!Values("keyboard delay")
        /\ x1["keyboard repeat-interval"] \in Inputs!Values("keyboard repeat-interval")
    BY <1>1, <1>5, <2>1, ValuesOfKeys
  <2> QED BY <1>5, <2>2
<1>10. x5 \in [Devices -> Inputs!Device] /\ x3 \in Seq(Inputs!Keys \cup Inputs!Touchscreens) /\ x11 \in 0..MaxInputs
  <2>1. 0 \in 0..MaxInputs
    BY InputsAssumption
  <2>2. x5 \in [Devices -> Inputs!Device]
    BY <1>2, <1>4
  <2>3. x3 \in Seq(Inputs!Keys \cup Inputs!Touchscreens)
    <3>1. x3 = <<>>
      BY <1>5
    <3> QED BY <3>1
  <2> QED BY <1>5, <2>1, <2>2, <2>3
<1>11. Inputs!TypeOK
  BY <1>1, <1>5, <1>8, <1>9, <1>10 DEF Inputs!TypeOK
<1>12. Inputs!Agreeing
  BY <1>4, <1>5, <1>6, <1>7 DEF Inputs!Agreeing
<1> QED BY <1>11, <1>12 DEF Inputs!Inv

LEMMA InputsTypes == ASSUME Inputs!TypeOK, [Inputs!Next]_(Inputs!vars) PROVE Inputs!TypeOK'
<1> DEFINE Rates == [on : BOOLEAN, rate : Inputs!Values("keyboard delay") \X Inputs!Values("keyboard repeat-interval")]
           Notes == Inputs!Keys \cup Inputs!Touchscreens
<1>0. /\ x1 \in Inputs!Settings /\ x2 \in [Devices -> Monitors \cup {None}] /\ x3 \in Seq(Notes)
      /\ x4 \subseteq Devices /\ x5 \in [Devices -> Inputs!Device] /\ x6 = {d \in x4 : Inputs!Mappable(d)}
      /\ x7 \in [Devices -> Places \cup {None}] /\ x8 \in [Monitors -> Places \cup {None}] /\ x9 \in Rates
      /\ x10 \in Inputs!Locks /\ x11 \in 0..MaxInputs /\ MaxInputs \in Nat
  BY InputsAssumption DEF Inputs!TypeOK
<1>T. ASSUME x1' \in Inputs!Settings, x2' \in [Devices -> Monitors \cup {None}], x3' \in Seq(Notes), x4' \subseteq Devices,
             x5' \in [Devices -> Inputs!Device], x6' = {d \in x4' : Inputs!Mappable(d)},
             x7' \in [Devices -> Places \cup {None}], x8' \in [Monitors -> Places \cup {None}], x9' \in Rates,
             x10' \in Inputs!Locks, x11' \in 0..MaxInputs
      PROVE  Inputs!TypeOK'
  BY <1>T DEF Inputs!TypeOK, Inputs!Mappable
<1> HIDE DEF Rates, Notes
<1>1. x3 # <<>> => Tail(x3) \in Seq(Notes)
  BY <1>0
<1>2. x6 \subseteq Devices
  BY <1>0
<1>3. \A s \in Inputs!Settings : Inputs!UpdateKeyboardRepeat(s) \in Rates
  BY <1>0, RepeatUpdates DEF Rates
<1>4. x11 < MaxInputs => x11 + 1 \in 0..MaxInputs
  <2>1. x11 \in 0..MaxInputs /\ MaxInputs \in Nat
    BY <1>0
  <2> QED BY <2>1
<1>5. CASE Inputs!SettingsChanged
  <2>1. UNCHANGED <<x1, x2, x4, x6, x7, x8, x10, x11>> /\ x3' = Tail(x3) /\ x3 # <<>>
        /\ Inputs!SetSetting(Head(x3)) /\ x9' \in {x9, Inputs!UpdateKeyboardRepeat(x1)}
    BY <1>5 DEF Inputs!SettingsChanged
  <2>2. \A d \in Devices, k \in Inputs!Keys : Inputs!Update(k, x5[d], d, x1) \in Inputs!Device
    <3> TAKE d \in Devices, k \in Inputs!Keys
    <3>1. x5[d] \in Inputs!Device
      BY <1>0
    <3> QED BY <1>0, <3>1, UpdateTypes
  <2>3. x5' \in [Devices -> Inputs!Device]
    BY <1>0, <1>5, <2>1, <2>2 DEF Inputs!SetSetting, Inputs!SettingsChanged
  <2> QED BY <1>0, <1>1, <1>3, <1>T, <2>1, <2>3
<1>6. CASE Inputs!MappedDeviceChanged
  <2>1. UNCHANGED <<x1, x2, x4, x5, x6, x8, x9, x10, x11>> /\ x3' = Tail(x3) /\ x3 # <<>>
        /\ x7' = Inputs!Placed({Head(x3)} \cap x6, x8)
    BY <1>6 DEF Inputs!MappedDeviceChanged
  <2>2. x7' \in [Devices -> Places \cup {None}]
    <3>1. {Head(x3)} \cap x6 \in SUBSET Devices
      BY <1>2
    <3> QED BY <1>0, <2>1, <3>1, PlacedAgrees
  <2> QED BY <1>0, <1>1, <1>T, <2>1, <2>2
<1>7. CASE Inputs!UserChanges
  <2>1. UNCHANGED <<x4, x5, x6, x7, x8, x9, x10>> /\ x11' \in 0..MaxInputs
    BY <1>4, <1>7 DEF Inputs!UserChanges
  <2>2. CASE \E k \in Used \cap Inputs!Keys : \E v \in Inputs!Values(k) \ {x1[k]} :
               x1' = [x1 EXCEPT ![k] = v] /\ x3' = Append(x3, k) /\ UNCHANGED x2
    <3>1. PICK k \in Inputs!Keys : \E v \in Inputs!Values(k) : x1' = [x1 EXCEPT ![k] = v] /\ x3' = Append(x3, k) /\ UNCHANGED x2
      BY <2>2
    <3>2. x1' \in Inputs!Settings
      BY <1>0, <3>1 DEF Inputs!Settings
    <3>3. x3' \in Seq(Notes)
      BY <1>0, <3>1 DEF Notes
    <3> QED BY <1>0, <1>T, <2>1, <3>1, <3>2, <3>3
  <2>3. CASE \E d \in Used \cap Devices : \E m \in (Monitors \cup {None}) \ {x2[d]} :
               x2' = [x2 EXCEPT ![d] = m] /\ x3' = Append(x3, d) /\ UNCHANGED x1
    <3>1. PICK d \in Used \cap Devices, m \in Monitors \cup {None} : x2' = [x2 EXCEPT ![d] = m] /\ x3' = Append(x3, d) /\ UNCHANGED x1
      BY <2>3
    <3>2. d \in Notes
      BY <3>1, InputsAssumption DEF Notes
    <3>3. x3' \in Seq(Notes) /\ x2' \in [Devices -> Monitors \cup {None}]
      BY <1>0, <3>1, <3>2
    <3> QED BY <1>0, <1>T, <2>1, <3>1, <3>3
  <2> QED BY <1>7, <2>2, <2>3 DEF Inputs!UserChanges
<1>8. CASE Inputs!DeviceAdded
  <2>1. UNCHANGED <<x1, x2, x3, x8, x9, x10>> /\ x11' \in 0..MaxInputs
    BY <1>4, <1>8 DEF Inputs!DeviceAdded
  <2>0. PICK d \in Devices \ x4 : \E r \in Drivers[d] :
          /\ x4' = x4 \cup {d} /\ x5' = [x5 EXCEPT ![d] = Inputs!ApplyDeviceSettings(r, d, x1, FALSE)]
          /\ Inputs!CheckAddMappable(d)
    BY <1>8 DEF Inputs!DeviceAdded
  <2>2. PICK r \in Drivers[d] :
          /\ x4' = x4 \cup {d} /\ x5' = [x5 EXCEPT ![d] = Inputs!ApplyDeviceSettings(r, d, x1, FALSE)]
          /\ x6' = IF Inputs!Mappable(d) THEN x6 \cup {d} ELSE x6
          /\ x7' = [x7 EXCEPT ![d] = IF Inputs!Mappable(d) /\ Inputs!Displayed(d) THEN Inputs!Display(d, x8) ELSE None]
    BY <2>0 DEF Inputs!CheckAddMappable
  <2>3. r \in Inputs!Device
    BY <2>2, InputsAssumption
  <2>4. x5' \in [Devices -> Inputs!Device]
    BY <1>0, <2>2, <2>3, ApplyAgrees
  <2>5. x7' \in [Devices -> Places \cup {None}]
    BY <1>0, <2>2, DisplayType
  <2>6. x4' \subseteq Devices /\ x6' = {e \in x4' : Inputs!Mappable(e)}
    BY <1>0, <2>2
  <2> QED BY <1>0, <1>T, <2>1, <2>4, <2>5, <2>6
<1>9. CASE Inputs!DeviceRemoved
  <2>1. x4' \subseteq Devices /\ x6' = {e \in x4' : Inputs!Mappable(e)}
    BY <1>0, <1>9 DEF Inputs!DeviceRemoved
  <2> QED BY <1>0, <1>9, <1>T, <2>1 DEF Inputs!DeviceRemoved
<1>10. CASE Inputs!MonitorsChanged
  <2>1. UNCHANGED <<x1, x2, x3, x4, x5, x6, x9, x10>> /\ x11' \in 0..MaxInputs /\ x8' \in [Monitors -> Places \cup {None}]
        /\ x7' = Inputs!Placed(x6, x8')
    BY <1>4, <1>10 DEF Inputs!MonitorsChanged
  <2>2. x7' \in [Devices -> Places \cup {None}]
    BY <1>2, <2>1, PlacedAgrees
  <2> QED BY <1>0, <1>T, <2>1, <2>2
<1>11. CASE Inputs!LockKey \/ Inputs!XkbEvent
  <2>1. UNCHANGED <<x1, x2, x3, x4, x5, x6, x7, x8, x9>> /\ x11' \in 0..MaxInputs
    BY <1>0, <1>4, <1>11 DEF Inputs!LockKey, Inputs!XkbEvent
  <2>2. x10' \in Inputs!Locks
    <3>1. CASE Inputs!LockKey
      <4>1. PICK on \in BOOLEAN : x10' = [x10 EXCEPT !.on = on, !.events = Append(@, on)]
        BY <3>1 DEF Inputs!LockKey
      <4>2. Append(x10.events, on) \in Seq(BOOLEAN)
        BY <1>0 DEF Inputs!Locks
      <4> QED BY <1>0, <4>1, <4>2 DEF Inputs!Locks
    <3>2. CASE Inputs!XkbEvent
      <4>1. Head(x10.events) \in BOOLEAN /\ Tail(x10.events) \in Seq(BOOLEAN)
        BY <1>0, <3>2 DEF Inputs!XkbEvent, Inputs!Locks
      <4> QED BY <1>0, <3>2, <4>1 DEF Inputs!XkbEvent, Inputs!MaybeSave, Inputs!Remembers, Inputs!Locks
    <3> QED BY <1>11, <3>1, <3>2
  <2> QED BY <1>0, <1>T, <2>1, <2>2
<1>12. CASE Inputs!Restart
  <2>1. /\ UNCHANGED <<x1, x2, x4, x8>> /\ x11' \in 0..MaxInputs /\ x3' = <<>>
        /\ x5' = [d \in Devices |-> IF d \in x4 THEN Inputs!ApplyDeviceSettings(x5[d], d, x1, TRUE) ELSE x5[d]]
        /\ x9' = Inputs!UpdateKeyboardRepeat(x1) /\ x10' = Inputs!MaybeRestore(x10)
        /\ x6' = {d \in x4 : Inputs!Mappable(d)} /\ x7' = Inputs!Placed(x6', x8)
    BY <1>4, <1>12 DEF Inputs!Restart
  <2>2. \A d \in Devices : Inputs!ApplyDeviceSettings(x5[d], d, x1, TRUE) \in Inputs!Device
    <3> TAKE d \in Devices
    <3>1. x5[d] \in Inputs!Device
      BY <1>0
    <3> QED BY <1>0, <3>1, ApplyAgrees
  <2>3. x5' \in [Devices -> Inputs!Device]
    BY <1>0, <2>1, <2>2
  <2>4. x10' \in Inputs!Locks
    <3>1. <<>> \in Seq(BOOLEAN) /\ <<x10.saved>> \in Seq(BOOLEAN) /\ Inputs!Remembers \in BOOLEAN
      BY <1>0 DEF Inputs!Locks, Inputs!Remembers
    <3> QED BY <1>0, <2>1, <3>1, Zenon DEF Inputs!MaybeRestore, Inputs!Locks
  <2>5. x7' \in [Devices -> Places \cup {None}]
    BY <1>0, <2>1, PlacedAgrees
  <2>6. x3' \in Seq(Notes)
    BY <2>1
  <2> QED BY <1>0, <1>3, <1>T, <2>1, <2>3, <2>4, <2>5, <2>6
<1>13. CASE UNCHANGED Inputs!vars
  BY <1>0, <1>13, <1>T DEF Inputs!vars
<1> QED BY <1>5, <1>6, <1>7, <1>8, <1>9, <1>10, <1>11, <1>12, <1>13 DEF Inputs!Next

LEMMA PendingMoves ==
    ASSUME Inputs!TypeOK
    PROVE  /\ x3 # <<>> /\ x3' = Tail(x3) => Inputs!Pending \ {Head(x3)} \subseteq Inputs!Pending'
           /\ \A k \in Inputs!Keys \cup Inputs!Touchscreens : x3' = Append(x3, k) => Inputs!Pending' = Inputs!Pending \cup {k}
           /\ x3' = x3 => Inputs!Pending' = Inputs!Pending
<1> DEFINE S == Inputs!Keys \cup Inputs!Touchscreens
<1>1. x3 \in Seq(S)
  BY DEF Inputs!TypeOK
<1> HIDE DEF S
<1>2. \A k : k \in Inputs!Pending <=> \E i \in DOMAIN x3 : x3[i] = k
  BY DEF Inputs!Pending
<1>3. \A k : k \in Inputs!Pending' <=> \E i \in DOMAIN x3' : x3'[i] = k
  BY DEF Inputs!Pending
<1>4. x3 # <<>> /\ x3' = Tail(x3) => Inputs!Pending \ {Head(x3)} \subseteq Inputs!Pending'
  <2> SUFFICES ASSUME x3 # <<>>, x3' = Tail(x3) PROVE Inputs!Pending \ {Head(x3)} \subseteq Inputs!Pending'
    OBVIOUS
  <2>1. \A i \in DOMAIN x3 : x3[i] = Head(x3) \/ \E j \in DOMAIN x3' : x3'[j] = x3[i]
    BY <1>1, PendingChanges
  <2> QED BY <1>2, <1>3, <2>1
<1>5. \A k \in S : x3' = Append(x3, k) => Inputs!Pending' = Inputs!Pending \cup {k}
  <2> SUFFICES ASSUME NEW k \in S, x3' = Append(x3, k) PROVE Inputs!Pending' = Inputs!Pending \cup {k}
    OBVIOUS
  <2>1. /\ \A i \in DOMAIN x3 : \E j \in DOMAIN x3' : x3'[j] = x3[i]
        /\ \E j \in DOMAIN x3' : x3'[j] = k
        /\ \A j \in DOMAIN x3' : x3'[j] = k \/ \E i \in DOMAIN x3 : x3[i] = x3'[j]
    BY <1>1, PendingChanges
  <2> QED BY <1>2, <1>3, <2>1
<1>6. x3' = x3 => Inputs!Pending' = Inputs!Pending
  BY <1>2, <1>3
<1> QED BY <1>4, <1>5, <1>6 DEF S

LEMMA PlacesStep == ASSUME Inputs!Inv, [Inputs!Next]_(Inputs!vars), Inputs!TypeOK' PROVE (\A d \in x6 \ Inputs!Pending : Inputs!PlaceAgrees(d))'
<1>0. /\ x2 \in [Devices -> Monitors \cup {None}] /\ x3 \in Seq(Inputs!Keys \cup Inputs!Touchscreens)
      /\ x4 \subseteq Devices /\ x6 = {d \in x4 : Inputs!Mappable(d)}
      /\ x7 \in [Devices -> Places \cup {None}] /\ x8 \in [Monitors -> Places \cup {None}]
      /\ \A d \in x6 \ Inputs!Pending : Inputs!PlaceAgrees(d)
      /\ Inputs!TypeOK
  BY DEF Inputs!Inv, Inputs!TypeOK, Inputs!Agreeing
<1>1. /\ x3 # <<>> /\ x3' = Tail(x3) => Inputs!Pending \ {Head(x3)} \subseteq Inputs!Pending'
      /\ \A k \in Inputs!Keys \cup Inputs!Touchscreens : x3' = Append(x3, k) => Inputs!Pending' = Inputs!Pending \cup {k}
      /\ x3' = x3 => Inputs!Pending' = Inputs!Pending
  BY PendingMoves DEF Inputs!Inv
<1>2. \A d \in Inputs!Touchscreens : Inputs!Displayed(d)
  BY DEF Inputs!Touchscreens, Inputs!Displayed
<1>3. \A d \in x6 : Inputs!Displayed(d) \/ x7[d] = None
  <2>1. \A d \in x6 : d \in Inputs!Pending => d \in Inputs!Touchscreens
    <3>1. x6 \subseteq Devices /\ Inputs!Keys \cap Devices = {}
      BY <1>0, InputsAssumption
    <3> QED BY <1>0, <3>1 DEF Inputs!Pending
  <2> QED BY <1>0, <1>2, <2>1 DEF Inputs!PlaceAgrees
<1>4. ASSUME UNCHANGED <<x2, x8>>, NEW d \in x6 \ Inputs!Pending, x7'[d] = x7[d] PROVE Inputs!PlaceAgrees(d)'
  BY <1>0, <1>4 DEF Inputs!PlaceAgrees, Inputs!Display, Inputs!Displayed
<1>5. ASSUME UNCHANGED x2, NEW S \in SUBSET x6, x7' = Inputs!Placed(S, x8'), NEW d \in S PROVE Inputs!PlaceAgrees(d)'
  <2>1. x8' \in [Monitors -> Places \cup {None}] /\ S \subseteq Devices
    BY <1>0 DEF Inputs!TypeOK
  <2>2. x7'[d] = IF Inputs!Displayed(d) THEN Inputs!Display(d, x8') ELSE x7[d]
    BY <1>0, <1>5, <2>1, PlacedAgrees
  <2>3. Inputs!Display(d, x8') = Inputs!Display(d, x8)'
    BY <1>5 DEF Inputs!Display
  <2> QED BY <1>3, <1>5, <2>2, <2>3 DEF Inputs!PlaceAgrees, Inputs!Displayed
<1>6. CASE UNCHANGED <<x2, x6, x7, x8>> /\ Inputs!Pending \cap Devices \subseteq Inputs!Pending'
  <2>1. x6 \subseteq Devices
    BY <1>0
  <2> QED BY <1>4, <1>6, <2>1
<1>7. CASE Inputs!SettingsChanged
  <2>1. Inputs!Pending \cap Devices \subseteq Inputs!Pending'
    BY <1>1, <1>7, InputsAssumption DEF Inputs!SettingsChanged
  <2> QED BY <1>6, <1>7, <2>1 DEF Inputs!SettingsChanged
<1>8. CASE Inputs!MappedDeviceChanged
  <2>1. UNCHANGED <<x2, x6, x8>> /\ x7' = Inputs!Placed({Head(x3)} \cap x6, x8') /\ Inputs!Pending \ {Head(x3)} \subseteq Inputs!Pending'
    BY <1>1, <1>8 DEF Inputs!MappedDeviceChanged
  <2> SUFFICES ASSUME NEW d \in x6 \ Inputs!Pending' PROVE Inputs!PlaceAgrees(d)'
    BY <2>1
  <2>2. CASE d = Head(x3)
    BY <1>5, <2>1, <2>2
  <2>3. CASE d # Head(x3)
    <3>1. d \in x6 \ Inputs!Pending /\ d \in Devices \ ({Head(x3)} \cap x6)
      BY <1>0, <2>1, <2>3
    <3>2. x7'[d] = x7[d]
      <4> DEFINE S == {Head(x3)} \cap x6
      <4>1. S \in SUBSET Devices /\ x8' \in [Monitors -> Places \cup {None}] /\ d \in Devices \ S
            /\ x7' = Inputs!Placed(S, x8')
        BY <1>0, <2>1, <3>1
      <4> HIDE DEF S
      <4>2. \A e \in Devices \ S : Inputs!Placed(S, x8')[e] = x7[e]
        BY <1>0, <4>1, PlacedAgrees
      <4> QED BY <4>1, <4>2
    <3> QED BY <1>4, <2>1, <3>1, <3>2
  <2> QED BY <2>2, <2>3
<1>9. CASE Inputs!UserChanges
  <2>1. UNCHANGED <<x6, x7, x8>>
    BY <1>9 DEF Inputs!UserChanges
  <2>2. CASE \E k \in Used \cap Inputs!Keys : x3' = Append(x3, k) /\ UNCHANGED x2
    BY <1>1, <1>6, <2>1, <2>2
  <2>3. CASE \E e \in Used \cap Devices : \E m \in (Monitors \cup {None}) \ {x2[e]} :
               x2' = [x2 EXCEPT ![e] = m] /\ x3' = Append(x3, e)
    <3>1. PICK e \in Used \cap Devices : (\E m : x2' = [x2 EXCEPT ![e] = m]) /\ x3' = Append(x3, e)
      BY <2>3
    <3>2. Inputs!Pending' = Inputs!Pending \cup {e}
      BY <1>1, <3>1, InputsAssumption
    <3> SUFFICES ASSUME NEW d \in x6 \ Inputs!Pending' PROVE Inputs!PlaceAgrees(d)'
      BY <2>1
    <3>3. d # e /\ d \in x6 \ Inputs!Pending /\ d \in Devices
      BY <1>0, <3>2
    <3>4. x2'[d] = x2[d]
      BY <1>0, <3>1, <3>3
    <3> QED BY <1>0, <2>1, <3>3, <3>4 DEF Inputs!PlaceAgrees, Inputs!Display, Inputs!Displayed
  <2> QED BY <1>9, <2>2, <2>3 DEF Inputs!UserChanges
<1>10. CASE Inputs!DeviceAdded
  <2>1. UNCHANGED <<x2, x3, x8>>
    BY <1>10 DEF Inputs!DeviceAdded
  <2>2. PICK e \in Devices \ x4 :
          /\ x6' = IF Inputs!Mappable(e) THEN x6 \cup {e} ELSE x6
          /\ x7' = [x7 EXCEPT ![e] = IF Inputs!Mappable(e) /\ Inputs!Displayed(e) THEN Inputs!Display(e, x8) ELSE None]
    BY <1>10 DEF Inputs!DeviceAdded, Inputs!CheckAddMappable
  <2> SUFFICES ASSUME NEW d \in x6' \ Inputs!Pending' PROVE Inputs!PlaceAgrees(d)'
    OBVIOUS
  <2>3. CASE d = e
    <3>1. Inputs!Mappable(e)
      BY <1>0, <2>2, <2>3
    <3>2. Inputs!Display(e, x8) = Inputs!Display(e, x8)'
      BY <2>1 DEF Inputs!Display
    <3>3. x7'[e] = IF Inputs!Displayed(e) THEN Inputs!Display(e, x8) ELSE None
      BY <1>0, <2>2, <3>1
    <3> QED BY <2>3, <3>2, <3>3 DEF Inputs!PlaceAgrees, Inputs!Displayed
  <2>4. CASE d # e
    <3>1. d \in x6 \ Inputs!Pending /\ d \in Devices
      BY <1>0, <1>1, <2>1, <2>2, <2>4
    <3>2. x7'[d] = x7[d]
      BY <1>0, <2>2, <2>4, <3>1
    <3> QED BY <1>4, <2>1, <3>1, <3>2
  <2> QED BY <2>3, <2>4
<1>11. CASE Inputs!DeviceRemoved
  <2>1. UNCHANGED <<x2, x3, x7, x8>> /\ x6' \subseteq x6
    BY <1>11 DEF Inputs!DeviceRemoved
  <2> QED BY <1>1, <1>4, <2>1
<1>12. CASE Inputs!MonitorsChanged
  <2>1. UNCHANGED <<x2, x3, x6>> /\ x7' = Inputs!Placed(x6, x8')
    BY <1>12 DEF Inputs!MonitorsChanged
  <2> QED BY <1>5, <2>1
<1>13. CASE Inputs!Restart
  <2>1. UNCHANGED <<x2, x8>> /\ x6' = x6 /\ x7' = Inputs!Placed(x6, x8')
    BY <1>0, <1>13 DEF Inputs!Restart
  <2> QED BY <1>5, <2>1
<1>14. CASE Inputs!LockKey \/ Inputs!XkbEvent \/ UNCHANGED Inputs!vars
  <2>1. UNCHANGED <<x2, x3, x6, x7, x8>>
    BY <1>14 DEF Inputs!LockKey, Inputs!XkbEvent, Inputs!vars
  <2> QED BY <1>1, <1>6, <2>1
<1> QED BY <1>7, <1>8, <1>9, <1>10, <1>11, <1>12, <1>13, <1>14 DEF Inputs!Next

LEMMA DevicesStep ==
    ASSUME Inputs!Inv, [Inputs!Next]_(Inputs!vars)
    PROVE  (\A d \in x4 : Inputs!DeviceAgrees(x5[d], d, x1, Inputs!Pending))'
<1>0. /\ x1 \in Inputs!Settings /\ x3 \in Seq(Inputs!Keys \cup Inputs!Touchscreens)
      /\ x4 \subseteq Devices /\ x5 \in [Devices -> Inputs!Device]
      /\ \A d \in x4 : Inputs!DeviceAgrees(x5[d], d, x1, Inputs!Pending)
  BY DEF Inputs!Inv, Inputs!TypeOK, Inputs!Agreeing
<1>1. /\ x3 # <<>> /\ x3' = Tail(x3) => Inputs!Pending \ {Head(x3)} \subseteq Inputs!Pending'
      /\ \A k \in Inputs!Keys \cup Inputs!Touchscreens : x3' = Append(x3, k) => Inputs!Pending' = Inputs!Pending \cup {k}
      /\ x3' = x3 => Inputs!Pending' = Inputs!Pending
  BY PendingMoves DEF Inputs!Inv
<1>2. CASE UNCHANGED <<x1, x4, x5>> /\ Inputs!Pending \cap Inputs!Keys \subseteq Inputs!Pending'
  BY <1>0, <1>2, AgreesMore
<1>3. CASE Inputs!SettingsChanged
  <2> DEFINE k == Head(x3)
  <2>1. UNCHANGED <<x1, x4>> /\ k \in Inputs!Keys /\ Inputs!Pending \ {k} \subseteq Inputs!Pending'
        /\ x5' = [d \in Devices |-> IF d \in x4 THEN Inputs!Update(k, x5[d], d, x1) ELSE x5[d]]
    BY <1>1, <1>3 DEF Inputs!SettingsChanged, Inputs!SetSetting
  <2> HIDE DEF k
  <2> SUFFICES ASSUME NEW d \in x4 PROVE Inputs!DeviceAgrees(x5'[d], d, x1, Inputs!Pending')
    BY <2>1
  <2>2. x5[d] \in Inputs!Device /\ x5'[d] = Inputs!Update(k, x5[d], d, x1)
    BY <1>0, <2>1
  <2>3. Inputs!DeviceAgrees(x5'[d], d, x1, Inputs!Pending \ {k})
    BY <1>0, <2>1, <2>2, UpdateAgrees
  <2>4. (Inputs!Pending \ {k}) \cap Inputs!Keys \subseteq Inputs!Pending'
    BY <2>1
  <2> QED BY <2>3, <2>4, AgreesMore
<1>4. CASE Inputs!MappedDeviceChanged
  <2>1. Inputs!Pending \cap Inputs!Keys \subseteq Inputs!Pending'
    BY <1>1, <1>4, InputsAssumption DEF Inputs!MappedDeviceChanged
  <2> QED BY <1>2, <1>4, <2>1 DEF Inputs!MappedDeviceChanged
<1>5. CASE Inputs!UserChanges
  <2>1. UNCHANGED <<x4, x5>>
    BY <1>5 DEF Inputs!UserChanges
  <2>2. CASE \E k \in Used \cap Inputs!Keys : \E v \in Inputs!Values(k) \ {x1[k]} :
               x1' = [x1 EXCEPT ![k] = v] /\ x3' = Append(x3, k)
    <3>1. PICK k \in Inputs!Keys : \E v \in Inputs!Values(k) : x1' = [x1 EXCEPT ![k] = v] /\ x3' = Append(x3, k)
      BY <2>2
    <3>2. PICK v \in Inputs!Values(k) : x1' = [x1 EXCEPT ![k] = v] /\ x3' = Append(x3, k)
      BY <3>1
    <3>3. Inputs!Pending' = Inputs!Pending \cup {k}
      BY <1>1, <3>2
    <3> SUFFICES ASSUME NEW d \in x4 PROVE Inputs!DeviceAgrees(x5[d], d, x1', Inputs!Pending')
      BY <2>1
    <3>4. x5[d] \in Inputs!Device /\ Inputs!DeviceAgrees(x5[d], d, x1, Inputs!Pending)
      BY <1>0
    <3> QED BY <1>0, <3>2, <3>3, <3>4, ChangeAgrees
  <2>3. CASE UNCHANGED x1 /\ \E e \in Used \cap Devices : x3' = Append(x3, e)
    <3>1. PICK e \in Used \cap Devices : x3' = Append(x3, e)
      BY <2>3
    <3>2. Inputs!Pending' = Inputs!Pending \cup {e}
      BY <1>1, <3>1, InputsAssumption
    <3> QED BY <1>2, <2>1, <2>3, <3>2
  <2> QED BY <1>5, <2>2, <2>3 DEF Inputs!UserChanges
<1>6. CASE Inputs!DeviceAdded
  <2>1. UNCHANGED <<x1, x3>>
    BY <1>6 DEF Inputs!DeviceAdded
  <2>2. PICK e \in Devices \ x4 : \E r \in Drivers[e] :
          x4' = x4 \cup {e} /\ x5' = [x5 EXCEPT ![e] = Inputs!ApplyDeviceSettings(r, e, x1, FALSE)]
    BY <1>6 DEF Inputs!DeviceAdded
  <2>3. PICK r \in Drivers[e] : x4' = x4 \cup {e} /\ x5' = [x5 EXCEPT ![e] = Inputs!ApplyDeviceSettings(r, e, x1, FALSE)]
    BY <2>2
  <2>4. r \in Inputs!Device
    BY <2>3, InputsAssumption
  <2>5. Inputs!DeviceAgrees(x5'[e], e, x1, Inputs!Pending')
    BY <1>0, <2>3, <2>4, ApplyAgrees
  <2>6. \A d \in x4 : x5'[d] = x5[d]
    BY <1>0, <2>2, <2>3
  <2> QED BY <1>0, <1>1, <2>1, <2>3, <2>5, <2>6
<1>7. CASE Inputs!DeviceRemoved
  <2>1. UNCHANGED <<x1, x3, x5>> /\ x4' \subseteq x4
    BY <1>7 DEF Inputs!DeviceRemoved
  <2> QED BY <1>0, <1>1, <2>1
<1>8. CASE Inputs!Restart
  <2>1. /\ UNCHANGED <<x1, x4>>
        /\ x5' = [d \in Devices |-> IF d \in x4 THEN Inputs!ApplyDeviceSettings(x5[d], d, x1, TRUE) ELSE x5[d]]
    BY <1>8 DEF Inputs!Restart
  <2> SUFFICES ASSUME NEW d \in x4 PROVE Inputs!DeviceAgrees(x5'[d], d, x1, Inputs!Pending')
    BY <2>1
  <2>2. x5[d] \in Inputs!Device /\ x5'[d] = Inputs!ApplyDeviceSettings(x5[d], d, x1, TRUE)
    BY <1>0, <2>1
  <2> QED BY <1>0, <2>2, ApplyAgrees
<1>9. CASE Inputs!MonitorsChanged \/ Inputs!LockKey \/ Inputs!XkbEvent \/ UNCHANGED Inputs!vars
  <2>1. UNCHANGED <<x1, x3, x4, x5>>
    BY <1>9 DEF Inputs!MonitorsChanged, Inputs!LockKey, Inputs!XkbEvent, Inputs!vars
  <2> QED BY <1>1, <1>2, <2>1
<1> QED BY <1>3, <1>4, <1>5, <1>6, <1>7, <1>8, <1>9 DEF Inputs!Next

LEMMA RepeatStep ==
    ASSUME Inputs!Inv, [Inputs!Next]_(Inputs!vars)
    PROVE  (Inputs!Pending \cap Inputs!RepeatKeys = {} => Inputs!RepeatAgrees)'
<1>0. /\ x1 \in Inputs!Settings /\ x3 \in Seq(Inputs!Keys \cup Inputs!Touchscreens)
      /\ x9 \in [on : BOOLEAN, rate : Inputs!Values("keyboard delay") \X Inputs!Values("keyboard repeat-interval")]
      /\ Inputs!Pending \cap Inputs!RepeatKeys = {} => Inputs!RepeatAgrees
  BY DEF Inputs!Inv, Inputs!TypeOK, Inputs!Agreeing
<1>1. /\ x3 # <<>> /\ x3' = Tail(x3) => Inputs!Pending \ {Head(x3)} \subseteq Inputs!Pending'
      /\ \A k \in Inputs!Keys \cup Inputs!Touchscreens : x3' = Append(x3, k) => Inputs!Pending' = Inputs!Pending \cup {k}
      /\ x3' = x3 => Inputs!Pending' = Inputs!Pending
  BY PendingMoves DEF Inputs!Inv
<1>2. Inputs!RepeatKeys \subseteq Inputs!Keys /\ Inputs!Keys \cap Devices = {}
  BY InputsAssumption DEF Inputs!Keys
<1>3. CASE UNCHANGED <<x1, x9>> /\ Inputs!Pending \cap Inputs!RepeatKeys \subseteq Inputs!Pending'
  BY <1>0, <1>3 DEF Inputs!RepeatAgrees
<1>4. ASSUME UNCHANGED x1, x9' = Inputs!UpdateKeyboardRepeat(x1) PROVE Inputs!RepeatAgrees'
  <2>1. /\ x9'.on <=> x1["keyboard repeat"] = "on"
        /\ x9'.on => x9'.rate = <<x1["keyboard delay"], x1["keyboard repeat-interval"]>>
    BY <1>0, <1>4, RepeatUpdates
  <2> QED BY <1>4, <2>1 DEF Inputs!RepeatAgrees
<1>5. CASE Inputs!SettingsChanged
  <2>1. UNCHANGED x1 /\ Inputs!Pending \ {Head(x3)} \subseteq Inputs!Pending'
        /\ x9' = IF Head(x3) \in Inputs!RepeatKeys THEN Inputs!UpdateKeyboardRepeat(x1) ELSE x9
    BY <1>1, <1>5 DEF Inputs!SettingsChanged
  <2>2. CASE Head(x3) \in Inputs!RepeatKeys
    BY <1>4, <2>1, <2>2
  <2>3. CASE Head(x3) \notin Inputs!RepeatKeys
    BY <1>3, <2>1, <2>3
  <2> QED BY <2>2, <2>3
<1>6. CASE Inputs!MappedDeviceChanged
  <2>1. Inputs!Pending \cap Inputs!RepeatKeys \subseteq Inputs!Pending' /\ UNCHANGED <<x1, x9>>
    BY <1>1, <1>2, <1>6 DEF Inputs!MappedDeviceChanged
  <2> QED BY <1>3, <2>1
<1>7. CASE Inputs!UserChanges
  <2>1. UNCHANGED x9
    BY <1>7 DEF Inputs!UserChanges
  <2>2. CASE \E k \in Used \cap Inputs!Keys : \E v \in Inputs!Values(k) \ {x1[k]} :
               x1' = [x1 EXCEPT ![k] = v] /\ x3' = Append(x3, k)
    <3>1. PICK k \in Inputs!Keys : (\E v : x1' = [x1 EXCEPT ![k] = v]) /\ x3' = Append(x3, k)
      BY <2>2
    <3>2. Inputs!Pending' = Inputs!Pending \cup {k}
      BY <1>1, <3>1
    <3>3. CASE k \notin Inputs!RepeatKeys
      <4>1. \A y \in Inputs!RepeatKeys : x1'[y] = x1[y]
        BY <1>0, <1>2, <3>1, <3>3 DEF Inputs!Settings
      <4>2. x1'["keyboard repeat"] = x1["keyboard repeat"] /\ x1'["keyboard delay"] = x1["keyboard delay"]
            /\ x1'["keyboard repeat-interval"] = x1["keyboard repeat-interval"]
        BY <4>1 DEF Inputs!RepeatKeys
      <4> QED BY <1>0, <2>1, <3>2, <4>2 DEF Inputs!RepeatAgrees
    <3>4. CASE k \in Inputs!RepeatKeys
      BY <3>2, <3>4
    <3> QED BY <3>3, <3>4
  <2>3. CASE UNCHANGED x1 /\ \E e \in Used \cap Devices : x3' = Append(x3, e)
    <3>1. PICK e \in Used \cap Devices : x3' = Append(x3, e)
      BY <2>3
    <3>2. Inputs!Pending' = Inputs!Pending \cup {e}
      BY <1>1, <3>1, InputsAssumption
    <3> QED BY <1>3, <2>1, <2>3, <3>2
  <2> QED BY <1>7, <2>2, <2>3 DEF Inputs!UserChanges
<1>8. CASE Inputs!Restart
  BY <1>4, <1>8 DEF Inputs!Restart
<1>9. CASE Inputs!DeviceAdded \/ Inputs!DeviceRemoved \/ Inputs!MonitorsChanged \/ Inputs!LockKey \/ Inputs!XkbEvent
           \/ UNCHANGED Inputs!vars
  <2>1. UNCHANGED <<x1, x3, x9>>
    BY <1>9 DEF Inputs!DeviceAdded, Inputs!DeviceRemoved, Inputs!MonitorsChanged, Inputs!LockKey, Inputs!XkbEvent, Inputs!vars
  <2> QED BY <1>1, <1>3, <2>1
<1> QED BY <1>5, <1>6, <1>7, <1>8, <1>9 DEF Inputs!Next

(* The lock that the last event told of is the one there is.                   *)
LEMMA LockStep ==
    ASSUME Inputs!Inv, [Inputs!Next]_(Inputs!vars)
    PROVE  /\ (x10.events # <<>> => x10.events[Len(x10.events)] = x10.on)'
           /\ (x10.kept /\ x10.events = <<>> => x10.saved = x10.on)'
<1>0. /\ x10 \in [on : BOOLEAN, events : Seq(BOOLEAN), saved : BOOLEAN, kept : BOOLEAN]
      /\ x10.events # <<>> => x10.events[Len(x10.events)] = x10.on
      /\ x10.kept /\ x10.events = <<>> => x10.saved = x10.on
  BY DEF Inputs!Inv, Inputs!TypeOK, Inputs!Agreeing, Inputs!Locks
<1>1. CASE UNCHANGED x10
  BY <1>0, <1>1
<1>2. CASE Inputs!LockKey
  <2>1. PICK on \in BOOLEAN : x10' = [x10 EXCEPT !.on = on, !.events = Append(@, on)]
    BY <1>2 DEF Inputs!LockKey
  <2>2. x10'.on = on /\ x10'.events = Append(x10.events, on)
    BY <1>0, <2>1
  <2>3. x10.events \in Seq(BOOLEAN)
    BY <1>0
  <2>4. x10'.events # <<>> /\ x10'.events[Len(x10'.events)] = on
    BY <2>2, <2>3
  <2> QED BY <2>2, <2>4
<1>3. CASE Inputs!XkbEvent
  <2> DEFINE e == x10.events
  <2>1. e # <<>> /\ x10' = Inputs!MaybeSave([x10 EXCEPT !.events = Tail(@)], Head(e))
    BY <1>3 DEF Inputs!XkbEvent
  <2>2. /\ x10'.events = Tail(e) /\ x10'.on = x10.on /\ x10'.kept = Inputs!Remembers
        /\ x10'.kept => x10'.saved = Head(e)
    BY <1>0, <2>1 DEF Inputs!MaybeSave
  <2>3. e \in Seq(BOOLEAN) /\ e[Len(e)] = x10.on
    BY <1>0, <2>1
  <2> HIDE DEF e
  <2>4. /\ Tail(e) # <<>> => Tail(e)[Len(Tail(e))] = e[Len(e)]
        /\ Tail(e) = <<>> => Head(e) = e[Len(e)]
    BY <2>1, <2>3, LastStays
  <2> QED BY <2>2, <2>3, <2>4
<1>4. CASE Inputs!Restart
  <2>1. x10' = Inputs!MaybeRestore(x10)
    BY <1>4 DEF Inputs!Restart
  <2>2. /\ x10'.kept = Inputs!Remembers /\ x10'.saved = x10.saved
        /\ x10'.on = IF Inputs!Remembers THEN x10.saved ELSE x10.on
        /\ x10'.events = IF Inputs!Remembers /\ x10.saved # x10.on THEN <<x10.saved>> ELSE <<>>
    BY <1>0, <2>1 DEF Inputs!MaybeRestore
  <2> QED BY <2>2
<1>5. CASE Inputs!SettingsChanged \/ Inputs!MappedDeviceChanged \/ Inputs!UserChanges \/ Inputs!DeviceAdded
           \/ Inputs!DeviceRemoved \/ Inputs!MonitorsChanged \/ UNCHANGED Inputs!vars
  BY <1>1, <1>5 DEF Inputs!SettingsChanged, Inputs!MappedDeviceChanged, Inputs!UserChanges, Inputs!DeviceAdded,
       Inputs!DeviceRemoved, Inputs!MonitorsChanged, Inputs!vars
<1> QED BY <1>2, <1>3, <1>4, <1>5 DEF Inputs!Next

LEMMA InputsStep == ASSUME Inputs!Inv, [Inputs!Next]_(Inputs!vars) PROVE Inputs!Inv'
<1>1. Inputs!TypeOK'
  BY InputsTypes DEF Inputs!Inv
<1> QED BY <1>1, PlacesStep, DevicesStep, RepeatStep, LockStep DEF Inputs!Inv, Inputs!Agreeing
=============================================================================
