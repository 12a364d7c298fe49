---------------------------- MODULE DesktopProofs ----------------------------
(* What is proved of the parts of MCDesktop: the window manager check, the     *)
(* watcher of status notifiers, the keys that programs grab, the icon of a     *)
(* file, the accessible keyboard, the program itself, the automount manager    *)
(* and the selected icons. Each part has its inductive invariant; the theorems *)
(* state what the run of MCDesktop checks.                                     *)
EXTENDS MCDesktop, DesktopLemmas

(* ------------------------------------------------- the window manager ----- *)
LEMMA WindowsBegin == ASSUME Windows!Init PROVE Windows!WindowsInv
<1>1. 1 \in 1..MaxWindows /\ x2 = 1 /\ x7 = <<>> /\ x3 \in 0..1 /\ x1 \subseteq 1..1
  BY WindowsAssumption DEF Windows!Init
<1>2. x7 \in Seq(0..x2)
  BY <1>1
<1>3. x4 \in 0..1 /\ x5 \subseteq 1..1 /\ x6 \subseteq 1..1
  BY <1>1 DEF Windows!Init
<1>4. x4 = 0 => x3 \notin x1
  BY <1>1 DEF Windows!Init
<1> QED BY <1>1, <1>2, <1>3, <1>4 DEF Windows!WindowsInv, Windows!TypeOK, Windows!Valid

(* An event that is not looked at is none of the root, or one is known.       *)
LEMMA WindowsStep == ASSUME Windows!WindowsInv, [Windows!Next]_(Windows!vars) PROVE Windows!WindowsInv'
<1>0. /\ x2 \in 1..MaxWindows /\ x1 \subseteq 1..x2 /\ x3 \in 0..x2 /\ x4 \in 0..x2
      /\ x5 \subseteq 1..x2 /\ x6 \subseteq 1..x2 /\ x7 \in Seq(0..x2)
      /\ x4 = 0 /\ x3 \in x1 => \E i \in DOMAIN x7 : x7[i] = 0
  BY DEF Windows!WindowsInv, Windows!TypeOK, Windows!Valid
<1>1. CASE Windows!EventFilter
  <2>1. x7 # <<>> /\ x7' = Tail(x7)
    BY <1>1 DEF Windows!EventFilter
  <2>2. x7' \in Seq(0..x2) /\ Head(x7) = x7[1] /\ Len(x7') = Len(x7) - 1
        /\ \A i \in DOMAIN x7 : i # 1 => i - 1 \in DOMAIN x7' /\ x7'[i - 1] = x7[i]
    BY <1>0, <2>1
  <2>3. CASE Windows!UpdateWmCheck /\ UNCHANGED Windows!x
               /\ ((x4 # 0 /\ Head(x7) = x4) \/ (x4 = 0 /\ Head(x7) = 0))
    <3>1. UNCHANGED <<x1, x2, x3>>
      BY <2>3 DEF Windows!x
    <3>2. CASE Windows!Valid
      <4>1. x4' = x3 /\ x5' = x5 \cup {x3} /\ x6' = x6 \cup {x3} /\ x3 \in x1
        BY <2>3, <3>2 DEF Windows!UpdateWmCheck, Windows!UpdateGnomeWmKeybindings, Windows!Valid
      <4>2. x3 # 0
        BY <1>0, <4>1
      <4> QED BY <1>0, <2>2, <3>1, <4>1, <4>2 DEF Windows!WindowsInv, Windows!TypeOK, Windows!Valid
    <3>3. CASE ~Windows!Valid
      <4>1. UNCHANGED <<x4, x5, x6>> /\ x3 \notin x1
        BY <2>3, <3>3 DEF Windows!UpdateWmCheck, Windows!Valid
      <4> QED BY <1>0, <2>2, <3>1, <4>1 DEF Windows!WindowsInv, Windows!TypeOK, Windows!Valid
    <3> QED BY <3>2, <3>3
  <2>4. CASE Windows!GoesMeanwhile
    BY <1>0, <2>2, <2>4 DEF Windows!GoesMeanwhile, Windows!WindowsInv, Windows!TypeOK, Windows!Valid
  <2>5. CASE ~((x4 # 0 /\ Head(x7) = x4) \/ (x4 = 0 /\ Head(x7) = 0))
    <3>1. UNCHANGED <<x1, x2, x3, x4, x5, x6>>
      BY <1>1, <2>5 DEF Windows!EventFilter, Windows!x
    <3>2. x4 = 0 /\ x3 \in x1 => \E i \in DOMAIN x7' : x7'[i] = 0
      BY <1>0, <2>2, <2>5
    <3> QED BY <1>0, <2>2, <3>1, <3>2 DEF Windows!WindowsInv, Windows!TypeOK, Windows!Valid
  <2> QED BY <1>1, <2>3, <2>4, <2>5 DEF Windows!EventFilter
<1>2. CASE Windows!Starts
  <2>1. x2' = x2 + 1 /\ x2' \in 1..MaxWindows /\ x1' = x1 \cup {x2'} /\ x3' = x2' /\ x7' = Append(x7, 0)
        /\ UNCHANGED <<x4, x5, x6>>
    BY <1>0, <1>2, WindowsAssumption DEF Windows!Starts
  <2>2. x7 \in Seq(0..x2') /\ 0 \in 0..x2'
    BY <1>0, <2>1
  <2>3. x7' \in Seq(0..x2') /\ Len(x7) + 1 \in DOMAIN x7' /\ x7'[Len(x7) + 1] = 0
    BY <2>1, <2>2
  <2> QED BY <1>0, <2>1, <2>3, SMTT(30) DEF Windows!WindowsInv, Windows!TypeOK, Windows!Valid
<1>3. CASE Windows!Ends
  <2>1. PICK w \in x1 : x1' = x1 \ {w} /\ x7' = IF w \in x5 THEN Append(x7, w) ELSE x7
    BY <1>3 DEF Windows!Ends
  <2>2. UNCHANGED <<x2, x3, x4, x5, x6>>
    BY <1>3 DEF Windows!Ends
  <2>3. x7' \in Seq(0..x2) /\ \A i \in DOMAIN x7 : i \in DOMAIN x7' /\ x7'[i] = x7[i]
    <3>1. w \in 0..x2
      BY <1>0
    <3>2. CASE x7' = Append(x7, w)
      <4> DEFINE S == 0..x2
      <4>1. x7 \in Seq(S) /\ w \in S
        BY <1>0, <3>1
      <4> HIDE DEF S
      <4>2. /\ Append(x7, w) \in Seq(S) /\ Len(Append(x7, w)) = Len(x7) + 1
            /\ \A i \in 1..Len(x7) : Append(x7, w)[i] = x7[i]
        BY <4>1, AppendProperties
      <4>3. DOMAIN x7 = 1..Len(x7) /\ DOMAIN x7' = 1..(Len(x7) + 1) /\ Len(x7) \in Nat
        BY <3>2, <4>1, <4>2
      <4> QED BY <3>2, <4>2, <4>3 DEF S
    <3>3. CASE x7' = x7
      BY <1>0, <3>3
    <3> QED BY <2>1, <3>2, <3>3
  <2> QED BY <1>0, <2>1, <2>2, <2>3 DEF Windows!WindowsInv, Windows!TypeOK, Windows!Valid
<1>4. CASE UNCHANGED Windows!vars
  BY <1>0, <1>4 DEF Windows!vars, Windows!x, Windows!WindowsInv, Windows!TypeOK, Windows!Valid
<1> QED BY <1>1, <1>2, <1>3, <1>4 DEF Windows!Next

(* A window manager is never overlooked while none is known, for any number   *)
(* of window managers and however late their events come.                     *)
THEOREM FirstAlwaysTold == Spec => []FirstIsTold
<1> DEFINE Inv == part = "windows" => Windows!WindowsInv
<1>1. Init => Inv
  BY WindowsBegin DEF Init
<1>2. Inv /\ [Next]_all => Inv'
  <2> SUFFICES ASSUME part' = "windows", Inv, [Next]_all PROVE Windows!WindowsInv'
    OBVIOUS
  <2>1. part = "windows" /\ [Windows!Next]_(Windows!vars)
    BY DEF Next, all, InView, InSelection, InIcon, InPicture, InClipboard, InAutomount, InKeybindings, InWatcher,
           InProgram, InWindows, InKeyboard, InInputs, Windows!vars, Windows!x
  <2> QED BY <2>1, WindowsStep
<1>3. Inv => FirstIsTold
  <2> SUFFICES ASSUME Windows!WindowsInv PROVE Windows!TypeOK /\ Windows!FirstIsTold
    BY DEF FirstIsTold
  <2>1. x7 = <<>> => DOMAIN x7 = {}
    OBVIOUS
  <2> QED BY <2>1 DEF Windows!WindowsInv, Windows!FirstIsTold
<1> QED BY <1>1, <1>2, <1>3, PTL DEF Spec

(* What is sent comes after what waits.                                       *)
LEMMA Sent ==
    ASSUME NEW S, NEW s \in Seq(S), NEW e \in S
    PROVE  /\ Append(s, e) \in Seq(S)
           /\ \A i \in DOMAIN s : i \in DOMAIN Append(s, e) /\ Append(s, e)[i] = s[i]
           /\ Len(s) + 1 \in DOMAIN Append(s, e) /\ Append(s, e)[Len(s) + 1] = e
<1>1. /\ Append(s, e) \in Seq(S) /\ Len(Append(s, e)) = Len(s) + 1
      /\ \A i \in 1..Len(s) : Append(s, e)[i] = s[i]
      /\ Append(s, e)[Len(s) + 1] = e
  BY AppendProperties
<1>2. DOMAIN s = 1..Len(s) /\ DOMAIN Append(s, e) = 1..(Len(s) + 1) /\ Len(s) \in Nat
  BY <1>1
<1> QED BY <1>1, <1>2

(* What is received came first, the rest still waits.                         *)
LEMMA Received ==
    ASSUME NEW S, NEW s \in Seq(S), s # <<>>
    PROVE  /\ Tail(s) \in Seq(S) /\ Head(s) \in S /\ s[1] = Head(s)
           /\ \A i \in DOMAIN s : s[i] = Head(s) \/ \E j \in DOMAIN Tail(s) : Tail(s)[j] = s[i]
<1>1. /\ Head(s) \in S /\ s[1] = Head(s)
      /\ Tail(s) \in Seq(S) /\ Len(Tail(s)) = Len(s) - 1 /\ \A i \in 1..Len(Tail(s)) : Tail(s)[i] = s[i + 1]
  BY HeadTailProperties
<1>2. DOMAIN s = 1..Len(s) /\ DOMAIN Tail(s) = 1..(Len(s) - 1) /\ Len(s) \in Nat
  BY <1>1
<1>3. ASSUME NEW i \in DOMAIN s, i # 1 PROVE i - 1 \in DOMAIN Tail(s) /\ Tail(s)[i - 1] = s[i]
  BY <1>1, <1>2, <1>3
<1> QED BY <1>1, <1>2, <1>3

(* ------------------------------------------------------- the watcher ------ *)
LEMMA WatcherBegins == ASSUME Watcher!Init PROVE Watcher!WatcherInv
<1>1. x2 = <<>> /\ x3 = {} /\ x4 = {} /\ x5 = [isHostRegistered |-> FALSE, items |-> {}] /\ x6 = {} /\ x1 = Names
  BY DEF Watcher!Init
<1>2. <<>> \in Seq(Watcher!Events)
  BY EmptySeq
<1> QED BY <1>1, <1>2 DEF Watcher!WatcherInv

(* A watch that is new has its end on the way if nobody owns its name; the    *)
(* others have it still.                                                      *)
LEMMA Watched ==
    ASSUME Watcher!WatcherInv, NEW w \in Watcher!Watches, NEW ws, ws \subseteq x3 \cup x4, x2 # <<>>,
           x2[1].type # "vanished", Watcher!Told(w, ws)
    PROVE  /\ x2' \in Seq(Watcher!Events)
           /\ \A v \in x3 \cup x4 \cup {w} :
                 v.name \in x1 \/ \E i \in DOMAIN x2' : x2'[i] = Watcher!Unowned(v.name)
<1> DEFINE Due(n, q) == \E i \in DOMAIN q : q[i] = Watcher!Unowned(n)
           Keeps(q) == \A i \in DOMAIN Tail(x2) : i \in DOMAIN q /\ q[i] = Tail(x2)[i]
<1>1. x2 \in Seq(Watcher!Events) /\ \A v \in x3 \cup x4 : v.name \in x1 \/ Due(v.name, x2)
  BY DEF Watcher!WatcherInv
<1>2. /\ Tail(x2) \in Seq(Watcher!Events) /\ x2[1] = Head(x2)
      /\ \A i \in DOMAIN x2 : x2[i] = Head(x2) \/ \E j \in DOMAIN Tail(x2) : Tail(x2)[j] = x2[i]
  BY <1>1, Received
<1>3. \A n : Watcher!Unowned(n).type = "vanished"
  BY DEF Watcher!Unowned
<1>4. \A v \in x3 \cup x4 : v.name \in x1 \/ Due(v.name, Tail(x2))
  <2> SUFFICES ASSUME NEW v \in x3 \cup x4, v.name \notin x1 PROVE Due(v.name, Tail(x2))
    OBVIOUS
  <2>1. PICK i \in DOMAIN x2 : x2[i] = Watcher!Unowned(v.name)
    BY <1>1
  <2> QED BY <1>2, <1>3, <2>1
<1>5. CASE w \notin ws /\ w.name \notin x1
  <2>1. x2' = Tail(x2) \o <<Watcher!Unowned(w.name)>>
    BY <1>5 DEF Watcher!Told
  <2>2. Watcher!Unowned(w.name) \in Watcher!Events
    BY DEF Watcher!Unowned, Watcher!Events, Watcher!Watches
  <2>3. x2' = Append(Tail(x2), Watcher!Unowned(w.name))
    BY <1>2, <2>1, <2>2, AppendIsConcat
  <2>4. x2' \in Seq(Watcher!Events) /\ Keeps(x2') /\ Due(w.name, x2')
    BY <1>2, <2>2, <2>3, Sent
  <2> QED BY <1>4, <2>4
<1>6. CASE ~(w \notin ws /\ w.name \notin x1)
  <2>1. x2' = Tail(x2) \o <<>>
    BY <1>6 DEF Watcher!Told
  <2>2. x2' = Tail(x2)
    BY <1>2, <2>1, ConcatEmptySeq
  <2>3. w.name \in x1 \/ w \in x3 \cup x4
    BY <1>6
  <2> QED BY <1>2, <1>4, <2>2, <2>3
<1> QED BY <1>5, <1>6

LEMMA WatcherStep == ASSUME Watcher!WatcherInv, [Watcher!Next]_(Watcher!vars) PROVE Watcher!WatcherInv'
<1> DEFINE Due(n, q) == \E i \in DOMAIN q : q[i] = Watcher!Unowned(n)
<1>0. /\ x1 \subseteq Names /\ x3 \subseteq Watcher!Watches /\ x4 \subseteq Watcher!Watches
      /\ x2 \in Seq(Watcher!Events) /\ x6 = x4 /\ x5 = [isHostRegistered |-> x3 # {}, items |-> x4]
      /\ \A w \in x3 \cup x4 : w.name \in x1 \/ Due(w.name, x2)
  BY DEF Watcher!WatcherInv
<1>1. ASSUME x2 # <<>>, x2[1].type \in {"host", "item"}
      PROVE  Watcher!Watch(x2[1].name, x2[1].path) \in Watcher!Watches
  <2>1. x2[1] \in Watcher!Events
    BY <1>0, <1>1, Received
  <2>2. x2[1] \in [type : {"host", "item"}, name : Names, path : Paths]
    BY <1>1, <2>1 DEF Watcher!Events
  <2> QED BY <2>2 DEF Watcher!Watch, Watcher!Watches
<1>2. CASE Watcher!RegisterHost
  <2> DEFINE w == Watcher!Watch(x2[1].name, x2[1].path)
  <2>1. /\ x2 # <<>> /\ x2[1].type = "host" /\ Watcher!Told(w, x3) /\ x3' = x3 \cup {w}
        /\ x5' = [x5 EXCEPT !.isHostRegistered = TRUE] /\ UNCHANGED <<x1, x4, x6>>
    BY <1>2 DEF Watcher!RegisterHost, Watcher!Is
  <2>2. w \in Watcher!Watches
    BY <1>1, <2>1
  <2> HIDE DEF w
  <2>3. x2' \in Seq(Watcher!Events) /\ \A v \in x3 \cup x4 \cup {w} : v.name \in x1 \/ Due(v.name, x2')
    BY <2>1, <2>2, Watched
  <2>4. x5' = [isHostRegistered |-> x3' # {}, items |-> x4']
    BY <1>0, <2>1
  <2> QED BY <1>0, <2>1, <2>2, <2>3, <2>4 DEF Watcher!WatcherInv
<1>3. CASE Watcher!RegisterItem
  <2> DEFINE w == Watcher!Watch(x2[1].name, x2[1].path)
  <2>1. /\ x2 # <<>> /\ x2[1].type = "item" /\ Watcher!Told(w, x4) /\ x4' = x4 \cup {w}
        /\ x5' = [x5 EXCEPT !.items = x4'] /\ x6' = x6 \cup {w} /\ UNCHANGED <<x1, x3>>
    BY <1>3 DEF Watcher!RegisterItem, Watcher!Is
  <2>2. w \in Watcher!Watches
    BY <1>1, <2>1
  <2> HIDE DEF w
  <2>3. x2' \in Seq(Watcher!Events) /\ \A v \in x3 \cup x4 \cup {w} : v.name \in x1 \/ Due(v.name, x2')
    BY <2>1, <2>2, Watched
  <2>4. x5' = [isHostRegistered |-> x3' # {}, items |-> x4']
    BY <1>0, <2>1
  <2> QED BY <1>0, <2>1, <2>2, <2>3, <2>4 DEF Watcher!WatcherInv
<1>4. CASE Watcher!NameVanished
  <2> DEFINE gone == {w \in x3 \cup x4 : w.name = x2[1].name}
  <2>1. /\ x2 # <<>> /\ x2[1].type = "vanished" /\ x2' = Tail(x2) /\ x3' = x3 \ gone /\ x4' = x4 \ gone
        /\ x6' = x6 \ gone /\ x5' = [x5 EXCEPT !.items = x4', !.isHostRegistered = x3' # {}] /\ x1' = x1
    BY <1>4 DEF Watcher!NameVanished, Watcher!Is, Watcher!Forget
  <2>2. /\ Tail(x2) \in Seq(Watcher!Events) /\ x2[1] = Head(x2)
        /\ \A i \in DOMAIN x2 : x2[i] = Head(x2) \/ \E j \in DOMAIN Tail(x2) : Tail(x2)[j] = x2[i]
    BY <1>0, <2>1, Received
  <2>3. x5' = [isHostRegistered |-> x3' # {}, items |-> x4']
    BY <1>0, <2>1
  <2>4. ASSUME NEW w \in x3' \cup x4', w.name \notin x1 PROVE Due(w.name, Tail(x2))
    <3>1. PICK i \in DOMAIN x2 : x2[i] = Watcher!Unowned(w.name)
      BY <1>0, <2>1, <2>4
    <3>2. w.name # x2[1].name
      BY <2>1, <2>4
    <3>3. Watcher!Unowned(w.name).name = w.name
      BY DEF Watcher!Unowned
    <3>4. x2[i] # Head(x2)
      BY <2>2, <3>1, <3>2, <3>3
    <3> QED BY <2>2, <3>1, <3>4
  <2> HIDE DEF gone
  <2> QED BY <1>0, <2>1, <2>2, <2>3, <2>4 DEF Watcher!WatcherInv
<1>5. CASE Watcher!Registers
  <2>1. PICK type \in {"host", "item"}, n \in Names, p \in Paths : x2' = Append(x2, [type |-> type, name |-> n, path |-> p])
    BY <1>5 DEF Watcher!Registers
  <2>2. [type |-> type, name |-> n, path |-> p] \in Watcher!Events
    BY DEF Watcher!Events
  <2>3. x2' \in Seq(Watcher!Events) /\ \A i \in DOMAIN x2 : i \in DOMAIN x2' /\ x2'[i] = x2[i]
    BY <1>0, <2>1, <2>2, Sent
  <2>4. UNCHANGED <<x1, x3, x4, x5, x6>>
    BY <1>5 DEF Watcher!Registers
  <2> QED BY <1>0, <2>3, <2>4 DEF Watcher!WatcherInv
<1>6. CASE Watcher!Leaves
  <2>1. PICK n \in x1 : x1' = x1 \ {n} /\ x2' = Append(x2, Watcher!Unowned(n))
    BY <1>6 DEF Watcher!Leaves
  <2>2. Watcher!Unowned(n) \in Watcher!Events
    BY <1>0 DEF Watcher!Events, Watcher!Unowned
  <2>3. /\ x2' \in Seq(Watcher!Events) /\ Due(n, x2')
        /\ \A i \in DOMAIN x2 : i \in DOMAIN x2' /\ x2'[i] = x2[i]
    BY <1>0, <2>1, <2>2, Sent
  <2>4. UNCHANGED <<x3, x4, x5, x6>>
    BY <1>6 DEF Watcher!Leaves
  <2>5. ASSUME NEW w \in x3 \cup x4 PROVE w.name \in x1' \/ Due(w.name, x2')
    BY <1>0, <2>1, <2>3
  <2> QED BY <1>0, <2>1, <2>3, <2>4, <2>5 DEF Watcher!WatcherInv
<1>7. CASE Watcher!Appears
  BY <1>0, <1>7 DEF Watcher!Appears, Watcher!WatcherInv
<1>8. CASE UNCHANGED Watcher!vars
  BY <1>0, <1>8 DEF Watcher!vars, Watcher!WatcherInv
<1> HIDE DEF Watcher!WatcherInv
<1> QED BY <1>2, <1>3, <1>4, <1>5, <1>6, <1>7, <1>8 DEF Watcher!Next

(* Clients of the watcher know its items, and the watches of a name end with  *)
(* it, for any names and paths, however calls and departures overlap.         *)
THEOREM ClientsAlwaysAgree == Spec => []ClientsAgree
<1> DEFINE Inv == part = "watcher" => Watcher!WatcherInv
<1>1. Init => Inv
  BY WatcherBegins DEF Init
<1>2. Inv /\ [Next]_all => Inv'
  <2> SUFFICES ASSUME part' = "watcher", Inv, [Next]_all PROVE Watcher!WatcherInv'
    OBVIOUS
  <2>1. part = "watcher" /\ [Watcher!Next]_(Watcher!vars)
    BY DEF Next, all, InView, InSelection, InIcon, InPicture, InClipboard, InAutomount, InKeybindings, InWatcher,
           InProgram, InWindows, InKeyboard, InInputs, Watcher!vars
  <2> QED BY <2>1, WatcherStep
<1>3. Inv => ClientsAgree
  <2> SUFFICES ASSUME Watcher!WatcherInv PROVE Watcher!TypeOK /\ Watcher!ClientsAgree
    BY DEF ClientsAgree
  <2>1. Watcher!TypeOK
    BY DEF Watcher!WatcherInv, Watcher!TypeOK, Watcher!Watches
  <2>2. x2 = <<>> => DOMAIN x2 = {}
    OBVIOUS
  <2>3. Watcher!ClientsAgree
    BY <2>2 DEF Watcher!WatcherInv, Watcher!ClientsAgree
  <2> QED BY <2>1, <2>3
<1> QED BY <1>1, <1>2, <1>3, PTL DEF Spec

(* ------------------------------------------- the keys that programs grab -- *)
(* The variables of Keybindings: alive x1, keymap x2, known x3, bindings x4,  *)
(* isoGroup x5, iso x6, grabs x7, owner x8, watched x9, action x10, stale     *)
(* x11, forgotten x12, changes x13.                                           *)
KeysInv ==
    /\ Keybindings!TypeOK /\ Keybindings!GrabsAreWanted
    /\ x10 \in Nat

(* A grab that is left has a binding that is left, or was forgotten.          *)
LEMMA UngrabKeeps ==
    ASSUME NEW as, Keybindings!Ungrab(as), UNCHANGED <<x3, x6, x12>>,
           x7 \subseteq Keybindings!AllKeys(x6 \cup Keybindings!BindingsOf(x4), x3.ignored) \cup x12
    PROVE  x7' \subseteq Keybindings!AllKeys(x6' \cup Keybindings!BindingsOf(x4'), x3'.ignored) \cup x12'
<1> USE DEF Keybindings!Ungrab, Keybindings!AllKeys, Keybindings!BindingsOf
<1> SUFFICES ASSUME NEW k \in x7', k \notin x12'
             PROVE  k \in Keybindings!AllKeys(x6' \cup Keybindings!BindingsOf(x4'), x3'.ignored)
  OBVIOUS
<1>1. PICK b \in x6 \cup Keybindings!BindingsOf(x4) : k \in Keybindings!Keys(b, x3.ignored)
  OBVIOUS
<1>2. CASE b \in x6
  BY <1>1, <1>2
<1>3. CASE b \in Keybindings!BindingsOf(x4)
  <2>1. PICK a \in DOMAIN x4 : b = x4[a]
    BY <1>3
  <2>2. a \notin as
    BY <1>1, <2>1
  <2>3. a \in DOMAIN x4' /\ x4'[a] = b
    <3>1. x4' = [y \in DOMAIN x4 \ as |-> x4[y]]
      OBVIOUS
    <3> QED BY ONLY <2>1, <2>2, <3>1
  <2>4. k \in Keybindings!Keys(b, x3'.ignored)
    BY <1>1
  <2>5. b \in {x4'[y] : y \in DOMAIN x4'}
    BY ONLY <2>3
  <2> QED BY <2>4, <2>5
<1> QED BY <1>1, <1>2, <1>3

LEMMA KeysStep == ASSUME KeysInv, [Keybindings!Next]_(Keybindings!vars) PROVE KeysInv'
<1> DEFINE Wanted == Keybindings!AllKeys(x6 \cup Keybindings!BindingsOf(x4), x3.ignored) \cup x12
<1>0. /\ x1 \subseteq Clients /\ x9 \subseteq Clients /\ x10 \in Nat
      /\ DOMAIN x4 \subseteq 1..x10 /\ DOMAIN x8 \subseteq 0..x10 /\ \A a \in DOMAIN x8 : x8[a] \in Clients
      /\ x7 \subseteq Wanted /\ \A a \in DOMAIN x4 : a \in DOMAIN x8 /\ x8[a] \in x9
  BY DEF KeysInv, Keybindings!TypeOK, Keybindings!GrabsAreWanted
<1>1. CASE Keybindings!MapChanged
  <2>1. /\ UNCHANGED <<x1, x5, x8, x9, x10, x12, x13>> /\ DOMAIN x4' = DOMAIN x4
        /\ x7' = (x7 \ Keybindings!AllKeys(x6 \cup Keybindings!BindingsOf(x4), x3.ignored))
                 \cup (Keybindings!AllKeys(x6' \cup Keybindings!BindingsOf(x4'), x3'.ignored) \ Foreign)
    BY <1>1 DEF Keybindings!MapChanged
  <2>2. x7' \subseteq Wanted'
    BY <1>0, <2>1
  <2> QED BY <1>0, <2>1, <2>2 DEF KeysInv, Keybindings!TypeOK, Keybindings!GrabsAreWanted
<1>2. CASE Keybindings!GrabIsoGroup
  <2>1. /\ UNCHANGED <<x1, x2, x3, x4, x7, x8, x9, x10, x11>>
        /\ x12' = x12 \cup (Keybindings!AllKeys(x6, x3.ignored) \cap x7)
    BY <1>2 DEF Keybindings!GrabIsoGroup
  <2>2. x7' \subseteq Wanted'
    BY <1>0, <2>1 DEF Keybindings!AllKeys
  <2> QED BY <1>0, <2>1, <2>2 DEF KeysInv, Keybindings!TypeOK, Keybindings!GrabsAreWanted
<1>3. CASE Keybindings!GrabAccelerator
  <2>1. PICK c \in Clients, accel \in Accels :
          LET code == x2.code[accel.sym]
              b == [accel |-> accel, code |-> code, mask |-> Keybindings!Mask(accel, x3)]
          IN  /\ x9' = x9 \cup {c}
              /\ \/ /\ x8' = [a \in DOMAIN x8 \cup {0} |-> IF a = 0 THEN c ELSE x8[a]]
                    /\ UNCHANGED <<x10, x4, x7>>
                 \/ /\ x10' = x10 + 1
                    /\ x4' = [a \in DOMAIN x4 \cup {x10'} |-> IF a = x10' THEN b ELSE x4[a]]
                    /\ x7' = x7 \cup (Keybindings!Keys(b, x3.ignored) \ Foreign)
                    /\ x8' = [a \in DOMAIN x8 \cup {x10'} |-> IF a = x10' THEN c ELSE x8[a]]
    BY <1>3 DEF Keybindings!GrabAccelerator, Keybindings!Watch
  <2>2. UNCHANGED <<x1, x2, x3, x5, x6, x11, x12, x13>>
    BY <1>3 DEF Keybindings!GrabAccelerator
  <2> DEFINE b == [accel |-> accel, code |-> x2.code[accel.sym], mask |-> Keybindings!Mask(accel, x3)]
  <2>3. CASE x8' = [a \in DOMAIN x8 \cup {0} |-> IF a = 0 THEN c ELSE x8[a]] /\ UNCHANGED <<x10, x4, x7>>
    <3>1. DOMAIN x8' \subseteq 0..x10' /\ \A a \in DOMAIN x8' : x8'[a] \in Clients
      BY <1>0, <2>3
    <3>2. \A a \in DOMAIN x4' : a \in DOMAIN x8' /\ x8'[a] \in x9'
      BY <1>0, <2>1, <2>3
    <3>3. x7' \subseteq Wanted'
      BY <1>0, <2>2, <2>3
    <3> QED BY <1>0, <2>1, <2>2, <2>3, <3>1, <3>2, <3>3 DEF KeysInv, Keybindings!TypeOK, Keybindings!GrabsAreWanted
  <2>4. CASE /\ x10' = x10 + 1
             /\ x4' = [a \in DOMAIN x4 \cup {x10'} |-> IF a = x10' THEN b ELSE x4[a]]
             /\ x7' = x7 \cup (Keybindings!Keys(b, x3.ignored) \ Foreign)
             /\ x8' = [a \in DOMAIN x8 \cup {x10'} |-> IF a = x10' THEN c ELSE x8[a]]
    <3> HIDE DEF b
    <3>1. x10' \in Nat /\ DOMAIN x4' \subseteq 1..x10' /\ DOMAIN x8' \subseteq 0..x10' /\ x10' \notin DOMAIN x4
      BY <1>0, <2>4
    <3>2. /\ \A a \in DOMAIN x8' : x8'[a] \in Clients
          /\ \A a \in DOMAIN x4' : a \in DOMAIN x8' /\ x8'[a] \in x9'
      BY <1>0, <2>1, <2>4
    <3>3. Keybindings!BindingsOf(x4') = Keybindings!BindingsOf(x4) \cup {b}
      BY <2>4, <3>1 DEF Keybindings!BindingsOf
    <3>4. x7' \subseteq Wanted'
      <4>1. x6' \cup Keybindings!BindingsOf(x4') = (x6 \cup Keybindings!BindingsOf(x4)) \cup {b}
        BY <2>2, <3>3
      <4>2. Wanted' = Keybindings!AllKeys((x6 \cup Keybindings!BindingsOf(x4)) \cup {b}, x3.ignored) \cup x12
        BY <2>2, <4>1
      <4>3. \A S : Keybindings!AllKeys(S \cup {b}, x3.ignored)
                    = Keybindings!AllKeys(S, x3.ignored) \cup Keybindings!Keys(b, x3.ignored)
        BY DEF Keybindings!AllKeys
      <4>4. x7' \subseteq x7 \cup Keybindings!Keys(b, x3.ignored)
        BY <2>4
      <4> QED BY <1>0, <4>2, <4>3, <4>4
    <3>5. x1' \subseteq Clients /\ x9' \subseteq Clients
      BY <1>0, <2>1, <2>2
    <3> QED BY <3>1, <3>2, <3>4, <3>5 DEF KeysInv, Keybindings!TypeOK, Keybindings!GrabsAreWanted
  <2> QED BY <2>1, <2>3, <2>4
<1>4. CASE Keybindings!UngrabAccelerator
  <2>1. PICK g \in DOMAIN x8 \cap DOMAIN x4 :
          Keybindings!Ungrab({g}) /\ x8' = [a \in DOMAIN x8 \ {g} |-> x8[a]]
    BY <1>4 DEF Keybindings!UngrabAccelerator
  <2>2. UNCHANGED <<x1, x2, x3, x5, x6, x9, x10, x12>>
    BY <1>4 DEF Keybindings!UngrabAccelerator
  <2>3. x7' \subseteq Wanted'
    BY <1>0, <2>1, <2>2, UngrabKeeps
  <2>4. DOMAIN x4' = DOMAIN x4 \ {g}
    BY <2>1 DEF Keybindings!Ungrab
  <2> QED BY <1>0, <2>1, <2>2, <2>3, <2>4 DEF KeysInv, Keybindings!TypeOK, Keybindings!GrabsAreWanted
<1>5. CASE Keybindings!Vanished
  <2>1. PICK c \in x9 \ x1 :
          /\ x9' = x9 \ {c}
          /\ Keybindings!Ungrab({a \in DOMAIN x8 : x8[a] = c})
          /\ x8' = [a \in {y \in DOMAIN x8 : x8[y] # c \/ y = 0} |-> x8[a]]
    BY <1>5 DEF Keybindings!Vanished
  <2>2. UNCHANGED <<x1, x2, x3, x5, x6, x10, x12>>
    BY <1>5 DEF Keybindings!Vanished
  <2>3. x7' \subseteq Wanted'
    BY <1>0, <2>1, <2>2, UngrabKeeps
  <2>4. DOMAIN x4' = DOMAIN x4 \ {a \in DOMAIN x8 : x8[a] = c}
    BY <2>1 DEF Keybindings!Ungrab
  <2>5. \A a \in DOMAIN x4' : a \in DOMAIN x8' /\ x8'[a] \in x9'
    BY <1>0, <2>1, <2>4
  <2> QED BY <1>0, <2>1, <2>2, <2>3, <2>4, <2>5 DEF KeysInv, Keybindings!TypeOK, Keybindings!GrabsAreWanted
<1>6. CASE Keybindings!KeymapChanges \/ Keybindings!Leaves \/ UNCHANGED Keybindings!vars
  <2>1. UNCHANGED <<x3, x4, x6, x7, x8, x9, x10, x12>> /\ x1' \subseteq Clients
    BY <1>0, <1>6 DEF Keybindings!KeymapChanges, Keybindings!Leaves, Keybindings!vars
  <2> QED BY <1>0, <2>1 DEF KeysInv, Keybindings!TypeOK, Keybindings!GrabsAreWanted
<1> HIDE DEF KeysInv
<1> QED BY <1>1, <1>2, <1>3, <1>4, <1>5, <1>6 DEF Keybindings!Next

LEMMA KeysBegin == ASSUME Keybindings!Init PROVE KeysInv
BY DEF Keybindings!Init, Keybindings!None0, KeysInv, Keybindings!TypeOK, Keybindings!GrabsAreWanted

(* A key is taken from other programs only for a binding of a program that is *)
(* watched: for any programs, accelerators and keymaps.                       *)
THEOREM GrabsAlwaysWanted == Spec => []GrabsAreWanted
<1> DEFINE Inv == part = "keybindings" => KeysInv
<1>1. Init => Inv
  BY KeysBegin DEF Init
<1>2. Inv /\ [Next]_all => Inv'
  <2> SUFFICES ASSUME part' = "keybindings", Inv, [Next]_all PROVE KeysInv'
    OBVIOUS
  <2>1. part = "keybindings" /\ [Keybindings!Next]_(Keybindings!vars)
    BY DEF Next, all, InView, InSelection, InIcon, InPicture, InClipboard, InAutomount, InKeybindings, InWatcher,
           InProgram, InWindows, InKeyboard, InInputs, Keybindings!vars
  <2> QED BY <2>1, KeysStep
<1>3. Inv => GrabsAreWanted
  BY DEF GrabsAreWanted, KeysInv
<1> QED BY <1>1, <1>2, <1>3, PTL DEF Spec

(* ------------------------------------------------- the icon of a file ----- *)
(* The variables of FileIcon: file x1, info x2, app x3, thumbnail x4, loads   *)
(* x5, query x6, event x7, trash x8.                                          *)
Infos == [kind : Kinds, version : 1..MaxVersions]
ThumbnailInv ==
    /\ x5 = {} \/ \E version \in 1..MaxVersions : x5 = {version} /\ x4 = 0
    /\ x2.kind = "document" => x5 \subseteq {x2.version} /\ x4 \in {0, x2.version}
IconTypes == x1 \in Infos /\ x2 \in Infos /\ x7 \subseteq {"content", "attributes"} /\ x4 \in 0..MaxVersions
Trashes == [files : Int, told : SUBSET {"changed"}, checks : SUBSET {"enumerate", "next", "none", "some", "error"},
            failed : BOOLEAN, empty : BOOLEAN, changes : Nat]
TrashInv ==
    /\ x8 \in Trashes
    /\ x8.told = {} =>
          \/ x8.checks = {} /\ (x8.failed \/ (x8.empty <=> x8.files = 0))
          \/ \E c \in {"enumerate", "next", "error", Icon!Answer(x8.files)} : x8.checks = {c}

(* A refresh drops the thumbnail, and makes one of what is known now, or none.*)
LEMMA RefreshKeeps ==
    ASSUME IconTypes, ThumbnailInv, x2' \in Infos, x2' = x2 \/ x2' = x1, Icon!Refresh
    PROVE  ThumbnailInv' /\ x4' \in 0..MaxVersions
<1>1. x4' = 0 /\ (x2'.kind = "document" => ~x3') /\ x5' = IF x3' THEN x5 ELSE {x2'.version}
  BY DEF Icon!Refresh, Icon!UpdateIcon, Icon!Loads
<1>2. 0 \in 0..MaxVersions /\ x2'.version \in 1..MaxVersions
  BY IconAssumption DEF Infos
<1>3. x5' = {} \/ \E version \in 1..MaxVersions : x5' = {version}
  BY <1>1, <1>2 DEF ThumbnailInv
<1> QED BY <1>1, <1>2, <1>3 DEF ThumbnailInv

LEMMA IconStep ==
    ASSUME IconTypes, ThumbnailInv, [Icon!Next]_(Icon!vars)
    PROVE  IconTypes' /\ ThumbnailInv'
<1>1. CASE Icon!FileChanged
  <2>1. x1' = x1 /\ x2' = x2 /\ x7' \subseteq x7 /\ Icon!Refresh
    BY <1>1 DEF Icon!FileChanged
  <2>2. x2' \in Infos
    BY <2>1 DEF IconTypes
  <2>3. ThumbnailInv' /\ x4' \in 0..MaxVersions
    BY <2>1, <2>2, RefreshKeeps
  <2> QED BY <2>1, <2>3 DEF IconTypes
<1>2. CASE Icon!QueryInfo
  <2>1. CASE x2' = x1 /\ Icon!Refresh
    <3>1. x1' = x1 /\ x7' = x7
      BY <1>2 DEF Icon!QueryInfo
    <3>2. x2' \in Infos
      BY <2>1 DEF IconTypes
    <3>3. ThumbnailInv' /\ x4' \in 0..MaxVersions
      BY <2>1, <3>2, RefreshKeeps
    <3> QED BY <3>1, <3>2, <3>3 DEF IconTypes
  <2>2. CASE UNCHANGED <<x1, x2, x4, x5, x7>>
    BY <2>2 DEF IconTypes, ThumbnailInv
  <2> QED BY <1>2, <2>1, <2>2 DEF Icon!QueryInfo
<1>3. CASE Icon!ThumbnailReady
  <2>1. PICK version \in x5, made \in BOOLEAN :
          x5' = x5 \ {version} /\ x4' = (IF made THEN version ELSE x4) /\ UNCHANGED <<x1, x2, x7>>
    BY <1>3 DEF Icon!ThumbnailReady
  <2>2. x5 = {version} /\ version \in 1..MaxVersions /\ x4 = 0
    BY <2>1 DEF ThumbnailInv
  <2>3. x5' = {} /\ version \in 0..MaxVersions /\ 0 \in 0..MaxVersions
    <3>1. x5' = x5 \ {version} /\ x5 = {version}
      BY <2>1, <2>2
    <3>2. x5' = {}
      BY <3>1, Zenon
    <3>3. \A n \in 1..MaxVersions : n \in 0..MaxVersions
      BY IconAssumption
    <3>4. 0 \in 0..MaxVersions
      BY IconAssumption
    <3> QED BY <2>2, <3>2, <3>3, <3>4, Zenon
  <2>5. x4' = version \/ x4' = 0
    BY <2>1, <2>2
  <2>4. x2'.kind = "document" => version = x2'.version
    BY <2>1, <2>2 DEF ThumbnailInv
  <2> QED BY <2>1, <2>3, <2>4, <2>5 DEF IconTypes, ThumbnailInv
<1>4. CASE Icon!Resize
  <2>1. UNCHANGED <<x1, x2, x3, x4, x7>> /\ x5' = IF x4 # 0 \/ x3 THEN x5 ELSE {x2.version}
    BY <1>4 DEF Icon!Resize, Icon!UpdateIcon, Icon!Loads
  <2>2. x2.version \in 1..MaxVersions
    BY DEF IconTypes, Infos
  <2> QED BY <2>1, <2>2 DEF IconTypes, ThumbnailInv
<1>5. CASE Icon!Written
  <2>1. x1.version \in 1..MaxVersions /\ x1.version < MaxVersions /\ x1.version + 1 \in 1..MaxVersions
    BY <1>5, IconAssumption DEF Icon!Written, IconTypes, Infos
  <2>2. x1' \in Infos
    <3>1. PICK kind \in Kinds : x1' = [kind |-> kind, version |-> x1.version + 1]
      BY <1>5 DEF Icon!Written
    <3> QED BY <2>1, <3>1 DEF Infos
  <2>3. x7' \subseteq {"content", "attributes"} /\ UNCHANGED <<x2, x4, x5>>
    BY <1>5 DEF Icon!Written, IconTypes
  <2> QED BY <2>2, <2>3 DEF IconTypes, ThumbnailInv
<1>6. CASE UNCHANGED <<x1, x2, x4, x5>> /\ x7' \subseteq x7
  BY <1>6 DEF IconTypes, ThumbnailInv
<1> HIDE DEF IconTypes, ThumbnailInv
<1> QED BY <1>1, <1>2, <1>3, <1>4, <1>5, <1>6 DEF Icon!Next, Icon!vars, Icon!IconUpdate, Icon!TrashChanged,
        Icon!EnumerateChildren, Icon!NextFilesRead, Icon!NextFiles, Icon!Trashed

(* One check is on its way, or its answer is known; what was trashed after    *)
(* the question is told.                                                      *)
LEMMA TrashStep == ASSUME TrashInv, [Icon!Next]_(Icon!vars) PROVE TrashInv'
<1> USE DEF Trashes
<1>0. x8 \in Trashes
  BY DEF TrashInv
<1>1. CASE Icon!TrashChanged
  <2>1. x8' = [x8 EXCEPT !.told = {}, !.checks = {"enumerate"}, !.failed = FALSE]
    BY <1>1 DEF Icon!TrashChanged, Icon!Checks
  <2>2. x8' \in Trashes /\ x8'.checks = {"enumerate"}
    BY <1>0, <2>1
  <2> QED BY <2>2 DEF TrashInv
<1>2. CASE Icon!EnumerateChildren
  <2>1. x8.told = {} => x8.checks = {"enumerate"}
    BY <1>2 DEF TrashInv, Icon!EnumerateChildren, Icon!Answer
  <2>2. CASE x8' = [x8 EXCEPT !.checks = (x8.checks \ {"enumerate"}) \cup {"next"}, !.empty = TRUE]
    <3>1. /\ x8' \in Trashes /\ x8'.told = x8.told
          /\ x8'.checks = (x8.checks \ {"enumerate"}) \cup {"next"}
      BY <1>0, <2>2
    <3> QED BY <2>1, <3>1 DEF TrashInv
  <2>3. CASE x8' = [x8 EXCEPT !.checks = x8.checks \ {"enumerate"}, !.failed = TRUE]
    <3>1. /\ x8' \in Trashes /\ x8'.told = x8.told
          /\ x8'.checks = x8.checks \ {"enumerate"} /\ x8'.failed
      BY <1>0, <2>3
    <3> QED BY <2>1, <3>1 DEF TrashInv
  <2> QED BY <1>2, <2>2, <2>3 DEF Icon!EnumerateChildren
<1>3. CASE Icon!NextFilesRead
  <2>1. PICK a \in {Icon!Answer(x8.files), "error"} : x8' = [x8 EXCEPT !.checks = (x8.checks \ {"next"}) \cup {a}]
    BY <1>3 DEF Icon!NextFilesRead
  <2>2. a \in {"none", "some", "error"} /\ "next" \in x8.checks
    BY <1>3 DEF Icon!Answer, Icon!NextFilesRead
  <2>3. /\ x8' \in Trashes /\ x8'.told = x8.told /\ x8'.files = x8.files
        /\ x8'.checks = (x8.checks \ {"next"}) \cup {a}
    BY <1>0, <2>1, <2>2
  <2>4. x8.told = {} => x8.checks = {"next"}
    BY <2>2 DEF TrashInv, Icon!Answer
  <2> QED BY <2>3, <2>4 DEF TrashInv
<1>4. CASE Icon!NextFiles
  <2>1. PICK a \in {"none", "some", "error"} \cap x8.checks :
          x8' = [x8 EXCEPT !.checks = x8.checks \ {a}, !.failed = (a = "error"),
                           !.empty = IF a = "error" THEN x8.empty ELSE a = "none"]
    BY <1>4 DEF Icon!NextFiles
  <2>2. /\ x8' \in Trashes /\ x8'.told = x8.told /\ x8'.files = x8.files /\ x8'.failed = (a = "error")
        /\ x8'.checks = x8.checks \ {a} /\ x8'.empty = IF a = "error" THEN x8.empty ELSE a = "none"
    BY <1>0, <2>1
  <2>3. x8.told = {} => x8.checks = {a} /\ a \in {"error", Icon!Answer(x8.files)}
    BY <2>1 DEF TrashInv
  <2>4. a = Icon!Answer(x8.files) => (a = "none" <=> x8.files = 0)
    BY DEF Icon!Answer
  <2> QED BY <2>2, <2>3, <2>4 DEF TrashInv
<1>5. CASE Icon!Trashed
  <2>1. PICK n \in 0..2 : x8' = [x8 EXCEPT !.files = n, !.told = {"changed"}, !.changes = x8.changes + 1]
    BY <1>5 DEF Icon!Trashed
  <2>2. x8.changes + 1 \in Nat /\ n \in Int
    BY <1>0
  <2>3. x8' \in Trashes /\ x8'.told # {}
    BY <1>0, <2>1, <2>2
  <2> QED BY <2>3 DEF TrashInv
<1>6. CASE UNCHANGED x8
  BY <1>6 DEF TrashInv
<1> HIDE DEF TrashInv
<1> QED BY <1>1, <1>2, <1>3, <1>4, <1>5, <1>6 DEF Icon!Next, Icon!vars, Icon!FileChanged, Icon!IconUpdate,
        Icon!QueryInfo, Icon!ThumbnailReady, Icon!Resize, Icon!Written

LEMMA IconInvIs == Icon!IconInv <=> IconTypes /\ ThumbnailInv /\ TrashInv
BY DEF Icon!IconInv, IconTypes, ThumbnailInv, TrashInv, Infos, Trashes

LEMMA IconBegins == ASSUME Icon!Init PROVE IconTypes /\ ThumbnailInv /\ TrashInv
<1>1. 1 \in 1..MaxVersions /\ 0 \in 0..MaxVersions
  BY IconAssumption
<1>2. PICK kind \in Kinds : x1 = [kind |-> kind, version |-> 1]
  BY DEF Icon!Init
<1>3. x1 \in Infos /\ x2 = x1 /\ x1.version = 1 /\ x4 = 0 /\ x7 = {} /\ (x5 = {} \/ x5 = {1})
  BY <1>1, <1>2 DEF Icon!Init, Infos
<1>4. IconTypes /\ ThumbnailInv
  BY <1>1, <1>3 DEF IconTypes, ThumbnailInv
<1>5. x8 = [files |-> 0, told |-> {}, checks |-> {"enumerate"}, failed |-> FALSE, empty |-> TRUE,
             changes |-> 0]
  BY DEF Icon!Init
<1>6. x8 \in Trashes /\ x8.checks = {"enumerate"}
  BY <1>5 DEF Trashes
<1> QED BY <1>4, <1>6 DEF TrashInv

(* A thumbnail is of the file that the icon shows, and the icon of the trash  *)
(* knows whether it is empty unless the last check failed: for any kinds of   *)
(* files and number of changes, in whatever order queries, threads and checks *)
(* come back, or fail.                                                        *)
THEOREM IconsAlwaysUpToDate == Spec => []IconsAreUpToDate
<1> DEFINE Inv == part = "file icon" => IconTypes /\ ThumbnailInv /\ TrashInv
<1>1. Init => Inv
  BY IconBegins DEF Init
<1>2. Inv /\ [Next]_all => Inv'
  <2> SUFFICES ASSUME part' = "file icon", Inv, [Next]_all PROVE IconTypes' /\ ThumbnailInv' /\ TrashInv'
    OBVIOUS
  <2>1. part = "file icon" /\ [Icon!Next]_(Icon!vars)
    BY DEF Next, all, InView, InSelection, InIcon, InPicture, InClipboard, InAutomount, InKeybindings, InWatcher,
           InProgram, InWindows, InKeyboard, InInputs, Icon!vars
  <2> QED BY <2>1, IconStep, TrashStep
<1>3. Inv => IconsAreUpToDate
  <2> SUFFICES ASSUME IconTypes, ThumbnailInv, TrashInv PROVE Icon!TypeOK /\ Icon!ThumbnailFits /\ Icon!TrashIsKnown
    BY DEF IconsAreUpToDate
  <2>1. Icon!TypeOK
    BY DEF Icon!TypeOK, IconTypes, ThumbnailInv, Infos
  <2>2. Icon!ThumbnailFits
    BY DEF Icon!ThumbnailFits, ThumbnailInv
  <2>3. Icon!TrashIsKnown
    BY DEF Icon!TrashIsKnown, TrashInv
  <2> QED BY <2>1, <2>2, <2>3
<1> QED BY <1>1, <1>2, <1>3, PTL DEF Spec

(* ------------------------------------------------ the accessible keyboard - *)
(* The variables of A11yKeyboard: settings x1, server x2, start x3, phase x4, *)
(* controls x5, changed x6, bubbles x7, shortcut x8, id x9, changes x10,      *)
(* presses x11.                                                               *)

(* What the settings, the server and the signals are, without the bubbles.    *)
Heard ==
    /\ x1 \in Keyboard!Levels /\ x2 \in Keyboard!Levels /\ x3 \in Keyboard!Levels
    /\ x1.delay \in Delays \cup 1..Cap /\ x2.delay \in 1..Cap /\ x3.delay \in 1..Cap
    /\ x5 \in Nat /\ x6 \in Nat /\ x8 \in [Keyboard!Features -> BOOLEAN]
    /\ Keyboard!SettingsMatchKeyboard

(* The bubbles, of which there are never more than presses.                   *)
Shown ==
    /\ x5 \in Nat /\ x11 \in 0..MaxPresses
    /\ x7 \in Seq(Keyboard!Bubbles) /\ Len(x7) + x5 <= x11
    /\ x9 \in [Keyboard!Features -> Nat] /\ \A f \in Keyboard!Features : x9[f] <= Len(x7)

(* A delay is cut to what the server bears.                                   *)
LEMMA DelayFits == ASSUME NEW n \in Int PROVE Keyboard!Lesser(Keyboard!AtLeastOne(n), Cap) \in 1..Cap
BY KeyboardAssumption DEF Keyboard!Lesser, Keyboard!AtLeastOne

(* set_server_from_gsettings: the server then has the flags of the settings.  *)
ServerOf(r, s) ==
    [r EXCEPT !.on = s.on, !.master = s.master,
              !.delay = IF "slow" \in s.on THEN Keyboard!Lesser(Keyboard!AtLeastOne(s.delay), Cap) ELSE r.delay]
LEMMA ServerSet ==
    ASSUME NEW s \in Keyboard!Levels, NEW r \in Keyboard!Levels, r.delay \in 1..Cap
    PROVE  /\ ServerOf(r, s) \in Keyboard!Levels /\ ServerOf(r, s).delay \in 1..Cap
           /\ ServerOf(r, s).on = s.on /\ ServerOf(r, s).master = s.master
<1> DEFINE d == IF "slow" \in s.on THEN Keyboard!Lesser(Keyboard!AtLeastOne(s.delay), Cap) ELSE r.delay
<1>1. s.delay \in Int /\ s.on \in SUBSET Keyboard!Features /\ s.master \in BOOLEAN
  BY DEF Keyboard!Levels
<1>2. d \in 1..Cap
  BY <1>1, DelayFits
<1>3. d \in Int
  BY <1>2, KeyboardAssumption
<1> HIDE DEF d
<1>4. ServerOf(r, s) = [r EXCEPT !.on = s.on, !.master = s.master, !.delay = d]
  BY DEF d, ServerOf
<1> QED BY <1>1, <1>2, <1>3, <1>4, Zenon DEF Keyboard!Levels

LEMMA HeardStep == ASSUME Heard, Shown, [Keyboard!Next]_(Keyboard!vars) PROVE Heard'
<1>0. /\ x1 \in Keyboard!Levels /\ x2 \in Keyboard!Levels /\ x3 \in Keyboard!Levels
      /\ x1.delay \in Delays \cup 1..Cap /\ x2.delay \in 1..Cap /\ x3.delay \in 1..Cap
      /\ x5 \in Nat /\ x6 \in Nat /\ x8 \in [Keyboard!Features -> BOOLEAN]
      /\ x4 = "runs" /\ x5 = 0 /\ x6 = 0 => x1.on = x2.on /\ x1.master = x2.master
  BY DEF Heard, Keyboard!SettingsMatchKeyboard
<1>s. ASSUME x2' = Keyboard!SetServer(x2)
      PROVE  x2' \in Keyboard!Levels /\ x2'.delay \in 1..Cap /\ x2'.on = x1.on /\ x2'.master = x1.master
  <2>1. x2' = ServerOf(x2, x1)
    BY <1>s DEF Keyboard!SetServer, ServerOf
  <2> QED BY <1>0, <2>1, ServerSet
<1>1. CASE Keyboard!Start
  <2>1. UNCHANGED <<x1, x6, x8>> /\ x5' = 0
    BY <1>1 DEF Keyboard!Start
  <2>2. CASE x4' = "runs" /\ x3' = x2 /\ x2' = Keyboard!SetServer(x2)
    BY <1>0, <1>s, <2>1, <2>2 DEF Heard, Keyboard!SettingsMatchKeyboard
  <2>3. CASE x4' = "gone" /\ UNCHANGED <<x3, x2>>
    BY <1>0, <2>1, <2>3 DEF Heard, Keyboard!SettingsMatchKeyboard
  <2> QED BY <1>1, <2>2, <2>3 DEF Keyboard!Start
<1>2. CASE Keyboard!SettingsChanged
  <2>1. UNCHANGED <<x1, x3, x4, x5, x8>> /\ x6' \in Nat /\ x2' = Keyboard!SetServer(x2)
    BY <1>0, <1>2 DEF Keyboard!SettingsChanged
  <2> QED BY <1>0, <1>s, <2>1 DEF Heard, Keyboard!SettingsMatchKeyboard
<1>3. CASE Keyboard!DeviceAdded
  <2>1. UNCHANGED <<x1, x3, x4, x5, x6, x8>> /\ x2' = Keyboard!SetServer(x2)
    BY <1>3 DEF Keyboard!DeviceAdded
  <2> QED BY <1>0, <1>s, <2>1 DEF Heard, Keyboard!SettingsMatchKeyboard
<1>4. CASE Keyboard!ControlsNotify
  <2>1. UNCHANGED <<x2, x3, x4>> /\ x1' = x2 /\ x5' \in Nat /\ x6' \in Nat
    BY <1>0, <1>4 DEF Keyboard!ControlsNotify, Keyboard!SetGsettings
  <2>2. x8' = x8 \/ \E f \in Keyboard!Features : x8' = [x8 EXCEPT ![f] = f \in x2.on]
    BY <1>4 DEF Keyboard!ControlsNotify, Keyboard!SetGsettings, Keyboard!Post, Keyboard!Differ
  <2>3. x8' \in [Keyboard!Features -> BOOLEAN]
    <3>1. ASSUME NEW f \in Keyboard!Features, NEW on \in BOOLEAN
          PROVE  [x8 EXCEPT ![f] = on] \in [Keyboard!Features -> BOOLEAN]
      BY <1>0
    <3>2. \A f : (f \in x2.on) \in BOOLEAN
      OBVIOUS
    <3> QED BY <1>0, <2>2, <3>1, <3>2, Zenon
  <2> QED BY <1>0, <2>1, <2>3 DEF Heard, Keyboard!SettingsMatchKeyboard
<1>5. CASE Keyboard!ActionInvoked
  <2>1. UNCHANGED <<x3, x4, x5, x8>>
    BY <1>5 DEF Keyboard!ActionInvoked
  <2>2. CASE UNCHANGED <<x1, x6, x2>>
    BY <1>0, <2>1, <2>2 DEF Heard, Keyboard!SettingsMatchKeyboard
  <2>3. CASE ~UNCHANGED <<x1, x6, x2>>
    <3>1. PICK b \in DOMAIN x7 :
            /\ x1' = [x1 EXCEPT !.on = IF x8[x7[b].of] THEN x1.on \ {x7[b].of} ELSE x1.on \cup {x7[b].of}]
            /\ x6' \in {x6, x6 + 1} /\ x2' = ServerOf(x2, x1')
      <4>1. PICK b \in DOMAIN x7, reject \in BOOLEAN :
              LET f == x7[b].of
                  s == [x1 EXCEPT !.on = IF x8[f] THEN x1.on \ {f} ELSE x1.on \cup {f}]
              IN  IF reject /\ x9[f] = b
                  THEN /\ x1' = s /\ x6' = IF s # x1 THEN x6 + 1 ELSE x6
                       /\ x2' = [x2 EXCEPT !.on = s.on, !.master = s.master,
                                   !.delay = IF "slow" \in s.on
                                             THEN Keyboard!Lesser(Keyboard!AtLeastOne(s.delay), Cap) ELSE x2.delay]
                  ELSE UNCHANGED <<x1, x6, x2>>
        BY <1>5, Zenon DEF Keyboard!ActionInvoked
      <4> DEFINE s == [x1 EXCEPT !.on = IF x8[x7[b].of] THEN x1.on \ {x7[b].of} ELSE x1.on \cup {x7[b].of}]
      <4>2. reject /\ x9[x7[b].of] = b
        BY <2>3, <4>1
      <4>3. /\ x1' = s /\ x6' = IF s # x1 THEN x6 + 1 ELSE x6
            /\ x2' = [x2 EXCEPT !.on = s.on, !.master = s.master,
                                 !.delay = IF "slow" \in s.on
                                           THEN Keyboard!Lesser(Keyboard!AtLeastOne(s.delay), Cap) ELSE x2.delay]
        BY <4>1, <4>2
      <4> HIDE DEF s
      <4>4. x2' = ServerOf(x2, s)
        BY <4>3, Zenon DEF ServerOf
      <4>5. x1' = s /\ x2' = ServerOf(x2, x1')
        BY <4>3, <4>4
      <4>6. x6' \in {x6, x6 + 1}
        BY <4>3
      <4> QED BY <4>5, <4>6 DEF s
    <3>5. x7[b].of \in Keyboard!Features
      <4>1. x7 \in Seq(Keyboard!Bubbles)
        BY DEF Shown
      <4>2. x7[b] \in Keyboard!Bubbles
        BY <3>1, <4>1
      <4> QED BY <4>2 DEF Keyboard!Bubbles
    <3>2. x1' \in Keyboard!Levels /\ x1'.delay = x1.delay
      BY <1>0, <3>1, <3>5 DEF Keyboard!Levels
    <3>3. x2' \in Keyboard!Levels /\ x2'.delay \in 1..Cap /\ x2'.on = x1'.on /\ x2'.master = x1'.master
      BY <1>0, <3>1, <3>2, ServerSet
    <3>4. x6' \in Nat
      BY <1>0, <3>1
    <3> QED BY <1>0, <2>1, <3>2, <3>3, <3>4 DEF Heard, Keyboard!SettingsMatchKeyboard
  <2> QED BY <2>2, <2>3
<1>6. CASE Keyboard!Finalize
  <2>1. UNCHANGED <<x1, x3, x5, x6, x8>> /\ x4' = "gone" /\ x2' \in {x2, x3}
    BY <1>6 DEF Keyboard!Finalize
  <2> QED BY <1>0, <2>1 DEF Heard, Keyboard!SettingsMatchKeyboard
<1>7. CASE Keyboard!UserSets
  <2>1. UNCHANGED <<x2, x3, x4, x5, x8>> /\ x6' = IF x4 = "runs" THEN x6 + 1 ELSE x6
    BY <1>7 DEF Keyboard!UserSets
  <2>2. \/ \E f \in Keyboard!Features : x1' = [x1 EXCEPT !.on = IF f \in x1.on THEN x1.on \ {f} ELSE x1.on \cup {f}]
        \/ x1' = [x1 EXCEPT !.master = ~x1.master]
        \/ \E n \in Delays : x1' = [x1 EXCEPT !.delay = n]
    BY <1>7 DEF Keyboard!UserSets
  <2>3. x1' \in Keyboard!Levels /\ x1'.delay \in Delays \cup 1..Cap
    <3>1. CASE \E f \in Keyboard!Features : x1' = [x1 EXCEPT !.on = IF f \in x1.on THEN x1.on \ {f} ELSE x1.on \cup {f}]
      BY <1>0, <3>1 DEF Keyboard!Levels
    <3>2. CASE x1' = [x1 EXCEPT !.master = ~x1.master]
      BY <1>0, <3>2 DEF Keyboard!Levels
    <3>3. CASE \E n \in Delays : x1' = [x1 EXCEPT !.delay = n]
      BY <1>0, <3>3, KeyboardAssumption DEF Keyboard!Levels
    <3> QED BY <2>2, <3>1, <3>2, <3>3
  <2>4. x6' \in Nat /\ (x4 = "runs" => x6' # 0)
    BY <1>0, <2>1
  <2> QED BY <1>0, <2>1, <2>3, <2>4 DEF Heard, Keyboard!SettingsMatchKeyboard
<1>8. CASE Keyboard!Press
  <2>1. UNCHANGED <<x1, x3, x4, x6, x8>> /\ x5' = x5 + 1
    BY <1>8 DEF Keyboard!Press
  <2>2. PICK f \in Keyboard!Features : x2' = [x2 EXCEPT !.on = IF f \in x2.on THEN x2.on \ {f} ELSE x2.on \cup {f}]
    BY <1>8 DEF Keyboard!Press
  <2>3. x2' \in Keyboard!Levels /\ x2'.delay = x2.delay
    BY <1>0, <2>2 DEF Keyboard!Levels
  <2>4. x5' \in Nat /\ x5' # 0
    BY <1>0, <2>1
  <2> QED BY <1>0, <2>1, <2>3, <2>4 DEF Heard, Keyboard!SettingsMatchKeyboard
<1>9. CASE UNCHANGED <<x1, x2, x3, x4, x5, x6, x8>>
  BY <1>0, <1>9 DEF Heard, Keyboard!SettingsMatchKeyboard
<1> HIDE DEF Heard
<1> QED BY <1>1, <1>2, <1>3, <1>4, <1>5, <1>6, <1>7, <1>8, <1>9 DEF Keyboard!Next, Keyboard!vars, Keyboard!Notified,
        Keyboard!NotificationClosed

(* Changing the state of one bubble leaves a sequence of bubbles as long.     *)
LEMMA OneBubble ==
    ASSUME NEW s \in Seq(Keyboard!Bubbles), NEW b \in DOMAIN s, NEW state \in {"asked", "shown", "closing", "closed"}
    PROVE  /\ [s EXCEPT ![b].state = state] \in Seq(Keyboard!Bubbles)
           /\ Len([s EXCEPT ![b].state = state]) = Len(s) /\ b \in 1..Len(s)
<1>1. b \in 1..Len(s) /\ s[b] \in Keyboard!Bubbles
  OBVIOUS
<1>2. [s[b] EXCEPT !.state = state] \in Keyboard!Bubbles
  BY <1>1 DEF Keyboard!Bubbles
<1>3. [s EXCEPT ![b].state = state] = [s EXCEPT ![b] = [s[b] EXCEPT !.state = state]]
  OBVIOUS
<1> QED BY <1>1, <1>2, <1>3, ExceptSeq

LEMMA ShownStep == ASSUME Heard, Shown, [Keyboard!Next]_(Keyboard!vars) PROVE Shown'
<1>0. /\ x5 \in Nat /\ x11 \in 0..MaxPresses /\ x7 \in Seq(Keyboard!Bubbles) /\ Len(x7) \in Nat
      /\ Len(x7) + x5 <= x11 /\ x9 \in [Keyboard!Features -> Nat]
      /\ \A f \in Keyboard!Features : x9[f] <= Len(x7)
  BY DEF Shown
<1>1. CASE Keyboard!Start
  <2>1. UNCHANGED <<x7, x9, x11>> /\ x5' = 0
    BY <1>1 DEF Keyboard!Start, Keyboard!user
  <2> QED BY <1>0, <2>1 DEF Shown
<1>2. CASE Keyboard!ControlsNotify
  <2>1. UNCHANGED <<x9, x11>> /\ x5' = x5 - 1 /\ x5 > 0
    BY <1>2 DEF Keyboard!ControlsNotify, Keyboard!user
  <2>2. x7' = x7 \/ \E f \in Keyboard!Features : x7' = Append(x7, [of |-> f, on |-> f \in x2.on, state |-> "asked"])
    BY <1>2 DEF Keyboard!ControlsNotify, Keyboard!SetGsettings, Keyboard!Post, Keyboard!PostBubble, Keyboard!Differ
  <2>3. x7' \in Seq(Keyboard!Bubbles) /\ Len(x7') \in {Len(x7), Len(x7) + 1}
    <3>1. CASE x7' = x7
      BY <1>0, <3>1
    <3>2. ASSUME NEW f \in Keyboard!Features, x7' = Append(x7, [of |-> f, on |-> f \in x2.on, state |-> "asked"])
          PROVE  x7' \in Seq(Keyboard!Bubbles) /\ Len(x7') = Len(x7) + 1
      <4> DEFINE b == [of |-> f, on |-> f \in x2.on, state |-> "asked"]
      <4>1. (f \in x2.on) \in BOOLEAN
        OBVIOUS
      <4>2. b \in Keyboard!Bubbles
        BY <4>1 DEF Keyboard!Bubbles
      <4> HIDE DEF b
      <4>3. x7' = Append(x7, b)
        BY <3>2 DEF b
      <4> QED BY <1>0, <4>2, <4>3, AppendProperties
    <3> QED BY <2>2, <3>1, <3>2
  <2>4. x5' \in Nat /\ Len(x7') + x5' <= x11 /\ \A f \in Keyboard!Features : x9[f] <= Len(x7')
    BY <1>0, <2>1, <2>3
  <2> QED BY <1>0, <2>1, <2>3, <2>4 DEF Shown
<1>3. CASE Keyboard!Notified
  <2>1. UNCHANGED <<x5, x11>>
    BY <1>3 DEF Keyboard!Notified, Keyboard!user
  <2>2. PICK b \in DOMAIN x7 :
          \/ x7' = [x7 EXCEPT ![b].state = "shown"] /\ x9' = [x9 EXCEPT ![x7[b].of] = b]
          \/ x7' = [x7 EXCEPT ![b].state = "closed"] /\ UNCHANGED x9
    BY <1>3 DEF Keyboard!Notified, Keyboard!Answered
  <2>3. x7' \in Seq(Keyboard!Bubbles) /\ Len(x7') = Len(x7) /\ b \in 1..Len(x7)
    <3>1. CASE x7' = [x7 EXCEPT ![b].state = "shown"]
      BY <1>0, <3>1, OneBubble
    <3>2. CASE x7' = [x7 EXCEPT ![b].state = "closed"]
      BY <1>0, <3>2, OneBubble
    <3> QED BY <2>2, <3>1, <3>2
  <2>4. b \in Nat /\ b <= Len(x7)
    BY <1>0, <2>3
  <2>5. x9' \in [Keyboard!Features -> Nat] /\ \A f \in Keyboard!Features : x9'[f] <= Len(x7')
    BY <1>0, <2>2, <2>3, <2>4
  <2> QED BY <1>0, <2>1, <2>3, <2>5 DEF Shown
<1>4. CASE Keyboard!ActionInvoked
  <2>1. UNCHANGED <<x5, x9, x11>>
    BY <1>4 DEF Keyboard!ActionInvoked, Keyboard!user
  <2>2. PICK b \in DOMAIN x7 : x7' = [x7 EXCEPT ![b].state = "closing"]
    BY <1>4 DEF Keyboard!ActionInvoked
  <2>3. x7' \in Seq(Keyboard!Bubbles) /\ Len(x7') = Len(x7)
    BY <1>0, <2>2, OneBubble
  <2> QED BY <1>0, <2>1, <2>3 DEF Shown
<1>5. CASE Keyboard!NotificationClosed
  <2>1. UNCHANGED <<x5, x11>>
    BY <1>5 DEF Keyboard!NotificationClosed, Keyboard!user
  <2>2. PICK b \in DOMAIN x7 :
          /\ x7' = [x7 EXCEPT ![b].state = "closed"]
          /\ x9' = [f \in Keyboard!Features |-> IF x9[f] = b THEN 0 ELSE x9[f]]
    BY <1>5 DEF Keyboard!NotificationClosed
  <2>3. x7' \in Seq(Keyboard!Bubbles) /\ Len(x7') = Len(x7)
    BY <1>0, <2>2, OneBubble
  <2>4. x9' \in [Keyboard!Features -> Nat] /\ \A f \in Keyboard!Features : x9'[f] <= Len(x7')
    BY <1>0, <2>2, <2>3
  <2> QED BY <1>0, <2>1, <2>3, <2>4 DEF Shown
<1>6. CASE Keyboard!Finalize
  <2>1. UNCHANGED <<x5, x11>> /\ x9' = [f \in Keyboard!Features |-> 0]
    BY <1>6 DEF Keyboard!Finalize, Keyboard!user
  <2>2. x7' = [b \in DOMAIN x7 |->
                 IF \E f \in Keyboard!Features : x9[f] = b THEN [x7[b] EXCEPT !.state = "closed"] ELSE x7[b]]
    BY <1>6 DEF Keyboard!Finalize
  <2>3. ASSUME NEW b \in DOMAIN x7 PROVE [x7[b] EXCEPT !.state = "closed"] \in Keyboard!Bubbles
    <3>1. x7[b] \in Keyboard!Bubbles
      BY <1>0
    <3> QED BY <3>1 DEF Keyboard!Bubbles
  <2>4. DOMAIN x7 = 1..Len(x7) /\ \A b \in DOMAIN x7 : x7[b] \in Keyboard!Bubbles
    BY <1>0
  <2>5. x7' \in [1..Len(x7) -> Keyboard!Bubbles]
    BY <2>2, <2>3, <2>4, Zenon
  <2>6. x7' \in Seq(Keyboard!Bubbles) /\ Len(x7') = Len(x7)
    BY <1>0, <2>5, SeqDef, LenProperties
  <2>7. x9' \in [Keyboard!Features -> Nat] /\ \A f \in Keyboard!Features : x9'[f] = 0
    BY <2>1
  <2> QED BY <1>0, <2>1, <2>6, <2>7 DEF Shown
<1>7. CASE Keyboard!Press
  <2>1. UNCHANGED <<x7, x9>> /\ x5' = x5 + 1 /\ x11' = x11 + 1 /\ x11 < MaxPresses
    BY <1>7 DEF Keyboard!Press
  <2>2. x5' \in Nat /\ x11' \in 0..MaxPresses /\ Len(x7) + x5' <= x11'
    BY <1>0, <2>1, KeyboardAssumption
  <2> QED BY <1>0, <2>1, <2>2 DEF Shown
<1>8. CASE UNCHANGED <<x5, x7, x9, x11>>
  BY <1>0, <1>8 DEF Shown
<1> HIDE DEF Shown
<1> QED BY <1>1, <1>2, <1>3, <1>4, <1>5, <1>6, <1>7, <1>8 DEF Keyboard!Next, Keyboard!vars, Keyboard!user,
        Keyboard!SettingsChanged, Keyboard!DeviceAdded, Keyboard!UserSets

LEMMA KeyboardBegins == ASSUME Keyboard!Init PROVE Heard /\ Shown
<1>1. 1 \in 1..Cap /\ 0 \in 0..MaxPresses
  BY KeyboardAssumption
<1>2. x1 \in Keyboard!Levels /\ x1.delay \in Delays
  BY KeyboardAssumption DEF Keyboard!Init, Keyboard!Levels, Keyboard!Features
<1>3. x2 = [on |-> {}, master |-> FALSE, delay |-> 1] /\ x3 = x2 /\ x4 # "runs"
  BY DEF Keyboard!Init
<1>4. x2 \in Keyboard!Levels /\ x2.delay = 1
  BY <1>3 DEF Keyboard!Levels
<1>5. x8 \in [Keyboard!Features -> BOOLEAN] /\ x9 \in [Keyboard!Features -> Nat]
      /\ \A f \in Keyboard!Features : x9[f] = 0
  BY DEF Keyboard!Init
<1>6. x7 \in Seq(Keyboard!Bubbles) /\ Len(x7) = 0
  BY DEF Keyboard!Init
<1>7. x5 = 0 /\ x6 = 0 /\ x11 = 0
  BY DEF Keyboard!Init
<1>8. Heard
  BY <1>1, <1>2, <1>3, <1>4, <1>5, <1>7 DEF Heard, Keyboard!SettingsMatchKeyboard
<1>9. Shown
  BY <1>1, <1>5, <1>6, <1>7 DEF Shown
<1> QED BY <1>8, <1>9

(* Settings and keyboard agree once every event was handled, and no bubble    *)
(* speaks without a press: for any delays and any number of changes and       *)
(* presses, whoever changed what in which order.                              *)
THEOREM SettingsAlwaysMatchKeyboard == Spec => []SettingsMatchKeyboard
<1> DEFINE Inv == part = "keyboard" => Heard /\ Shown
<1>1. Init => Inv
  BY KeyboardBegins DEF Init
<1>2. Inv /\ [Next]_all => Inv'
  <2> SUFFICES ASSUME part' = "keyboard", Inv, [Next]_all PROVE Heard' /\ Shown'
    OBVIOUS
  <2>1. part = "keyboard" /\ [Keyboard!Next]_(Keyboard!vars)
    BY DEF Next, all, InView, InSelection, InIcon, InPicture, InClipboard, InAutomount, InKeybindings, InWatcher,
           InProgram, InWindows, InKeyboard, InInputs, Keyboard!vars, Keyboard!user
  <2> QED BY <2>1, HeardStep, ShownStep
<1>3. Inv => SettingsMatchKeyboard
  <2> SUFFICES ASSUME Heard, Shown PROVE Keyboard!TypeOK /\ Keyboard!SettingsMatchKeyboard
    BY DEF SettingsMatchKeyboard
  <2>1. x1.on \subseteq Keyboard!Features /\ x2.on \subseteq Keyboard!Features
    BY DEF Heard, Keyboard!Levels
  <2>2. Len(x7) \in Nat /\ x5 \in 0..MaxPresses /\ Len(x7) <= MaxPresses
        /\ \A f \in Keyboard!Features : x9[f] \in 0..Len(x7)
    BY KeyboardAssumption DEF Shown
  <2> QED BY <2>1, <2>2 DEF Keyboard!TypeOK, Heard
<1> QED BY <1>1, <1>2, <1>3, PTL DEF Spec

(* --------------------------------------------------- the program itself --- *)
(* The variables of Session: name x1, was x2, manager x3, client x4, loop x5, *)
(* failed x6, sent x7, answered x8, missed x9, environment x10, settings x11, *)
(* parts x12, wired x13, made x14.                                            *)
LEMMA ProgramTypes ==
    ASSUME Program!TypeOK, [Program!Next]_(Program!vars)
    PROVE  /\ x1' \in {"asked", "acquired", "lost"} /\ x2' \in BOOLEAN
           /\ x3' \in {"none", "asked", "queried", "failed", "known"}
           /\ x4' \in {"none", "asked", "registered", "refused", "listens", "deaf"}
           /\ x5' \in {"runs", "quits", "ended"} /\ x6' \in BOOLEAN
           /\ x10' \in BOOLEAN /\ x11' \subseteq Parts
<1> USE DEF Program!TypeOK
<1>1. CASE Program!NameAcquired \/ Program!NameLost
  BY <1>1 DEF Program!NameAcquired, Program!NameLost, Program!Quit
<1>2. CASE Program!ManagerReady \/ Program!Registered \/ Program!ClientReady
  BY <1>2 DEF Program!ManagerReady, Program!Registered, Program!ClientReady
<1>3. CASE Program!SessionReady
  BY <1>3 DEF Program!SessionReady, Program!SessionReadyCb
<1>4. CASE Program!QueryEndSession \/ Program!Stop \/ Program!Signal \/ Program!LoopEnds
  BY <1>4 DEF Program!QueryEndSession, Program!Stop, Program!Signal, Program!LoopEnds, Program!Quit
<1>5. CASE Program!ChangeSetting
  BY <1>5 DEF Program!ChangeSetting
<1>6. CASE UNCHANGED Program!vars
  BY <1>6 DEF Program!vars
<1> QED BY <1>1, <1>2, <1>3, <1>4, <1>5, <1>6 DEF Program!Next

(* What the session manager sent is answered or was missed.                   *)
LEMMA BusKeeps ==
    ASSUME x7 = x8 + x9, x7 \in Nat, x8 \in Nat, x9 \in Nat, [Program!Next]_(Program!vars)
    PROVE  x7' = x8' + x9' /\ x7' \in Nat /\ x8' \in Nat /\ x9' \in Nat
<1>1. CASE Program!QueryEndSession
  BY <1>1 DEF Program!QueryEndSession
<1>2. CASE UNCHANGED Program!bus
  BY <1>2 DEF Program!bus
<1> QED BY <1>1, <1>2 DEF Program!Next, Program!vars, Program!NameAcquired, Program!NameLost, Program!ManagerReady,
        Program!Registered, Program!ClientReady, Program!SessionReady, Program!Stop, Program!Signal,
        Program!LoopEnds, Program!ChangeSetting

(* Every instance that settings_changed makes or leaves is one of the keys it *)
(* looked at, and the screensaver is told of the input sources.               *)
LEMMA ChangedIsWired ==
    ASSUME x12 \in [Parts -> 0..x14], x14 \in Nat,
           NEW wanted \in SUBSET Parts, NEW keys \in SUBSET Parts,
           Program!SettingsChanged(x12, wanted, keys)
    PROVE  /\ x14' \in {x14, x14 + 1} /\ x12' \in [Parts -> 0..x14'] /\ x13' \in 0..x14'
           /\ x12'[Lock] # 0 => x13' = x12'[Sources]
           /\ \A p \in keys : x12'[p] # 0 <=> p \in wanted
           /\ \A p \in Parts \ keys : x12'[p] = x12[p]
<1>1. /\ x12' = Program!Toggled(x12, wanted, keys)
      /\ x14' = IF x12' = x12 THEN x14 ELSE x14 + 1
      /\ x13' = IF x12'[Lock] = 0 THEN 0 ELSE x12'[Sources]
  BY DEF Program!SettingsChanged
<1>2. x12' \in [Parts -> 0..(x14 + 1)]
  BY <1>1 DEF Program!Toggled
<1>3. x14' \in {x14, x14 + 1} /\ x12' \in [Parts -> 0..x14']
  BY <1>1, <1>2
<1>4. x13' \in 0..x14' /\ (x12'[Lock] # 0 => x13' = x12'[Sources])
  BY <1>1, <1>3, ProgramAssumption
<1>5. \A p \in keys : x12'[p] # 0 <=> p \in wanted
  BY <1>1 DEF Program!Toggled
<1>6. \A p \in Parts \ keys : x12'[p] = x12[p]
  BY <1>1 DEF Program!Toggled
<1> QED BY <1>3, <1>4, <1>5, <1>6

(* The parts and how they are wired, in a step of the program.                *)
AppInv ==
    /\ Program!PartsAreWired /\ (x1 = "asked" => x3 = "none")
    /\ x14 \in 0..(MaxMade + 1) /\ (x3 # "known" => x14 = 0)
    /\ x12 \in [Parts -> 0..x14] /\ x13 \in 0..x14

LEMMA AppKeeps == ASSUME AppInv, x11 \subseteq Parts, [Program!Next]_(Program!vars) PROVE AppInv'
<1> USE ProgramAssumption
<1>0. /\ x14 \in Nat /\ x14 <= MaxMade + 1 /\ (x3 # "known" => x14 = 0)
      /\ x12 \in [Parts -> 0..x14] /\ x13 \in 0..x14
  BY DEF AppInv
<1>1. ASSUME UNCHANGED <<x11, Program!app>>, x5' = x5 \/ x5' # "runs", x3' = x3 \/ (x3 # "known" /\ x3' # "known"),
             x1' = "asked" => x1 = "asked" /\ x3' = x3
      PROVE  AppInv'
  BY <1>0, <1>1 DEF AppInv, Program!PartsAreWired, Program!app
<1>2. ASSUME Program!Quit, UNCHANGED <<x3, x11>>, x1' = x1 \/ x1' # "asked" PROVE AppInv'
  <2>1. x12' = [p \in Parts |-> 0] /\ x13' = 0 /\ x5' # "runs" /\ x14' = x14
    BY <1>2 DEF Program!Quit
  <2>2. x12' \in [Parts -> 0..x14'] /\ x13' \in 0..x14' /\ x12'[Lock] = 0
    BY <1>0, <2>1
  <2> QED BY <1>0, <1>2, <2>1, <2>2 DEF AppInv, Program!PartsAreWired
<1>3. CASE Program!SessionReady
  <2>1. Program!SettingsChanged(x12, x11, Parts) /\ x11' = x11 /\ x3 = "queried" /\ x3' = "known" /\ x1' = x1
    BY <1>3 DEF Program!SessionReady, Program!SessionReadyCb, Program!ApplicationInit
  <2>2. /\ x14' \in {x14, x14 + 1} /\ x12' \in [Parts -> 0..x14'] /\ x13' \in 0..x14'
        /\ x12'[Lock] # 0 => x13' = x12'[Sources]
        /\ \A p \in Parts : x12'[p] # 0 <=> p \in x11
    BY <1>0, <2>1, ChangedIsWired
  <2>3. x14' \in 0..(MaxMade + 1)
    BY <1>0, <2>1, <2>2
  <2>4. x1' # "asked"
    BY <2>1 DEF AppInv
  <2> QED BY <2>1, <2>2, <2>3, <2>4 DEF AppInv, Program!PartsAreWired
<1>4. CASE Program!ChangeSetting
  <2>1. PICK p \in Parts :
          /\ x11' = IF p \in x11 THEN x11 \ {p} ELSE x11 \cup {p}
          /\ IF x3 = "known" /\ x5 = "runs"
             THEN Program!SettingsChanged(x12, x11', {p}) ELSE UNCHANGED Program!app
    BY <1>4 DEF Program!ChangeSetting
  <2>2. x1' = x1 /\ x3' = x3 /\ x5' = x5 /\ x11' \in SUBSET Parts /\ x14 < MaxMade
    BY <1>4, <2>1 DEF Program!ChangeSetting
  <2>3. CASE x3 = "known" /\ x5 = "runs"
    <3>1. Program!SettingsChanged(x12, x11', {p})
      BY <2>1, <2>3
    <3>2. /\ x14' \in {x14, x14 + 1} /\ x12' \in [Parts -> 0..x14'] /\ x13' \in 0..x14'
          /\ x12'[Lock] # 0 => x13' = x12'[Sources]
          /\ x12'[p] # 0 <=> p \in x11'
          /\ \A q \in Parts \ {p} : x12'[q] = x12[q]
      <4>1. x14 \in Nat /\ {p} \in SUBSET Parts /\ p \in {p} /\ \A q \in Parts \ {p} : q \in Parts \ {p}
        BY <1>0
      <4> QED BY <1>0, <2>2, <3>1, <4>1, ChangedIsWired
    <3>3. \A q \in Parts \ {p} : x12[q] # 0 <=> q \in x11'
      BY <2>1, <2>3 DEF AppInv, Program!PartsAreWired
    <3>4. x14' \in 0..(MaxMade + 1)
      BY <1>0, <2>2, <3>2
    <3>5. \A q \in Parts : x12'[q] # 0 <=> q \in x11'
      BY <3>2, <3>3
    <3> QED BY <2>2, <2>3, <3>2, <3>4, <3>5 DEF AppInv, Program!PartsAreWired
  <2>4. CASE ~(x3 = "known" /\ x5 = "runs")
    BY <1>0, <2>1, <2>2, <2>4 DEF AppInv, Program!PartsAreWired, Program!app
  <2> QED BY <2>3, <2>4
<1>5. CASE Program!NameAcquired \/ Program!ManagerReady \/ Program!Registered \/ Program!ClientReady
  <2>1. /\ UNCHANGED <<x11, Program!app, x5>> /\ (x3' = x3 \/ (x3 # "known" /\ x3' # "known"))
        /\ x1' = "asked" => x1 = "asked" /\ x3' = x3
    BY <1>5 DEF AppInv, Program!ManagerReady, Program!Registered, Program!ClientReady, Program!NameAcquired
  <2> QED BY <1>1, <2>1
<1>6. CASE Program!QueryEndSession \/ Program!LoopEnds
  BY <1>1, <1>6 DEF Program!QueryEndSession, Program!LoopEnds
<1>7. CASE Program!NameLost \/ Program!Stop
  BY <1>2, <1>7 DEF Program!NameLost, Program!Stop
<1>8. CASE Program!Signal
  <2>1. UNCHANGED <<x1, x3, x11>> /\ (Program!Quit \/ (x5' = "ended" /\ UNCHANGED Program!app))
    BY <1>8 DEF Program!Signal
  <2> QED BY <1>1, <1>2, <2>1
<1>9. CASE UNCHANGED Program!vars
  BY <1>1, <1>9 DEF Program!vars
<1> HIDE DEF AppInv
<1> QED BY <1>3, <1>4, <1>5, <1>6, <1>7, <1>8, <1>9 DEF Program!Next

LEMMA WiredStep == ASSUME Program!WiredInv, [Program!Next]_(Program!vars) PROVE Program!WiredInv'
<1>1. Program!TypeOK /\ AppInv /\ x11 \subseteq Parts
  BY DEF Program!WiredInv, Program!TypeOK, AppInv
<1>2. x7' = x8' + x9' /\ x7' \in Nat /\ x8' \in Nat /\ x9' \in Nat
  BY BusKeeps DEF Program!WiredInv, Program!TypeOK
<1>3. AppInv'
  BY <1>1, AppKeeps
<1>4. x12' \in [Parts -> 0..(MaxMade + 2)] /\ x13' \in 0..(MaxMade + 2)
  BY <1>3, ProgramAssumption DEF AppInv
<1>5. Program!TypeOK'
  BY <1>1, <1>2, <1>4, ProgramTypes DEF Program!TypeOK
<1> QED BY <1>2, <1>3, <1>5 DEF Program!WiredInv, AppInv

LEMMA WiredBegins == ASSUME Program!Init PROVE Program!WiredInv
<1>1. 0 \in 0..(MaxMade + 1) /\ 0 \in 0..(MaxMade + 2) /\ 0 = 0 + 0
  BY ProgramAssumption
<1>2. Program!TypeOK
  BY <1>1, Zenon DEF Program!Init, Program!OwnsName, Program!TypeOK
<1>3. Program!PartsAreWired
  BY ProgramAssumption DEF Program!Init, Program!PartsAreWired
<1>4. x12 \in [Parts -> 0..x14] /\ x13 \in 0..x14
  BY DEF Program!Init
<1> QED BY <1>1, <1>2, <1>3, <1>4 DEF Program!Init, Program!WiredInv

(* The screensaver never keeps input sources of an earlier instance, for any  *)
(* parts and any number of changes of the settings, before, during and after  *)
(* the start of the session.                                                  *)
THEOREM PartsAlwaysWired == Spec => []PartsAreWired
<1> DEFINE Inv == part = "program" => Program!WiredInv
<1>1. Init => Inv
  BY WiredBegins DEF Init
<1>2. Inv /\ [Next]_all => Inv'
  <2> SUFFICES ASSUME part' = "program", Inv, [Next]_all PROVE Program!WiredInv'
    OBVIOUS
  <2>1. part = "program" /\ [Program!Next]_(Program!vars)
    BY DEF Next, all, InView, InSelection, InIcon, InPicture, InClipboard, InAutomount, InKeybindings, InWatcher,
           InProgram, InWindows, InKeyboard, InInputs, Program!vars, Program!bus, Program!app
  <2> QED BY <2>1, WiredStep
<1>3. Inv => PartsAreWired
  BY DEF PartsAreWired, Program!WiredInv
<1> QED BY <1>1, <1>2, <1>3, PTL DEF Spec

(* ------------------------------------------------ the automount manager --- *)
(* gsd-automount-manager.c: what waits in the queue is there, waits once, and *)
(* for the end of a lock the manager knows of; when nothing is on its way the *)
(* manager knows whether the screen is locked; a volume may start a program   *)
(* only during a mount the manager made, or 10 seconds after.                 *)
THEOREM QueueAlwaysWaits == Spec => []QueueWaitsForLock
<1> DEFINE Inv == part = "automount" => Mount!AutomountInv
<1>1. Init => Inv
  BY AutomountBegins DEF Init, Mount!AutomountInv
<1>2. Inv /\ [Next]_all => Inv'
  <2> SUFFICES ASSUME Inv, [Next]_all, part' = "automount" PROVE Mount!AutomountInv'
    OBVIOUS
  <2>1. [Mount!Next]_(Mount!vars) /\ part = "automount"
    BY DEF Next, all, InView, InSelection, InIcon, InPicture, InClipboard, InAutomount, InKeybindings, InWatcher,
           InProgram, InWindows, InKeyboard, InInputs, Mount!vars, Mount!bus, Mount!autorun
  <2> QED BY <2>1, AutomountStep
<1>3. Inv => QueueWaitsForLock
  BY AutomountMeans DEF QueueWaitsForLock, Mount!AutomountInv
<1> QED BY <1>1, <1>2, <1>3, PTL DEF Spec

(* --------------------------------------------------- the selected icons --- *)
(* gf-icon-view.c, gf-monitor-view.c, gf-icon.c: until something else changes *)
(* the selection, the icons under the rubberband are the other way than when  *)
(* it began; a click selects, turns over or adds its icon; the list of the    *)
(* selected icons agrees with their flags and names none that was freed.      *)
THEOREM SelectionAlwaysFollows == Spec => SelectionFollows
<1> DEFINE Inv == part = "selection" => Selection!SelectionInv
<1>1. Init => Inv
  BY SelectionBegins DEF Init
<1>2. Inv /\ [Next]_all => Inv' /\ (part = "selection" => Selection!ClickSettles)
  <2> SUFFICES ASSUME Inv, [Next]_all, part = "selection" PROVE Inv' /\ Selection!ClickSettles
    BY DEF Next, all, InView, InSelection, InIcon, InPicture, InClipboard, InAutomount, InKeybindings, InWatcher,
           InProgram, InWindows, InKeyboard, InInputs
  <2>1. [Selection!Next]_(Selection!vars) /\ part' = part
    BY DEF Next, all, InView, InSelection, InIcon, InPicture, InClipboard, InAutomount, InKeybindings, InWatcher,
           InProgram, InWindows, InKeyboard, InInputs, Selection!vars
  <2> QED BY <2>1, SelectionAssumption, SelectionStep
<1>3. Inv => (part = "selection" => Selection!TypeOK /\ Selection!BandFollows /\ Selection!NothingDangles)
  BY SelectionMeans
<1> QED BY <1>1, <1>2, <1>3, PTL DEF Spec, SelectionFollows

(* ---------------------------------------------------- the input settings --- *)
(* gf-input-settings.c: once every notification is handled, the devices that   *)
(* are there and the keyboard are as the settings say, touchscreens are on     *)
(* their monitor, and Num Lock is remembered as it is.                         *)
THEOREM DevicesAlwaysAgree == Spec => []DevicesAgree
<1> DEFINE Inv == part = "inputs" => Inputs!Inv
<1>1. Init => Inv
  BY InputsBegin DEF Init
<1>2. Inv /\ [Next]_all => Inv'
  <2> SUFFICES ASSUME part' = "inputs", Inv, [Next]_all PROVE Inputs!Inv'
    OBVIOUS
  <2>1. part = "inputs" /\ [Inputs!Next]_(Inputs!vars)
    BY DEF Next, all, InView, InSelection, InIcon, InPicture, InClipboard, InAutomount, InKeybindings, InWatcher,
           InProgram, InWindows, InKeyboard, InInputs, Inputs!vars
  <2> QED BY <2>1, InputsStep
<1>3. Inv => DevicesAgree
  <2> SUFFICES ASSUME Inputs!Inv PROVE Inputs!TypeOK /\ Inputs!DevicesAgree
    BY DEF DevicesAgree
  <2>1. x3 = <<>> => Inputs!Pending = {}
    BY DEF Inputs!Pending
  <2>2. x6 \subseteq x4
    BY DEF Inputs!Inv, Inputs!TypeOK
  <2> QED BY <2>1, <2>2 DEF Inputs!Inv, Inputs!Agreeing, Inputs!DevicesAgree
<1> QED BY <1>1, <1>2, <1>3, PTL DEF Spec
=============================================================================
