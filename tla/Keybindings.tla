---------------------------- MODULE Keybindings -----------------------------
(* Accelerators of the shell service: other programs ask over D-Bus that a    *)
(* key is grabbed for them.  GfKeybindings translates an accelerator with the *)
(* keymap into a key and modifiers, and grabs it with every combination of    *)
(* the modifiers that do not matter (the locks); when the keymap changes all  *)
(* is released, translated anew and grabbed again.                            *)
EXTENDS Integers, FiniteSets, FiniteSetsExt

CONSTANTS
    Clients,
    Accels,     \* records: sym, super (whether the modifier Super is asked for)
    Keymaps,    \* records: code (of a sym, 0 for none), super, ignored (sets of modifiers), iso (codes)
    IsoGroups,  \* sets of sets of modifiers: with what the next-group key is grabbed
    Foreign,    \* key and modifiers that another program has grabbed
    MaxActions, MaxChanges  \* bounds

VARIABLES
    alive,      \* the programs on the bus
    keymap,     \* the server's
    known,      \* super and ignored modifiers by the last reload_modmap
    bindings,   \* keybindings, by action: accelerator, code, mask
    isoGroup, iso, \* iso_group, and its keybindings
    grabs,      \* the server's passive grabs of this program
    owner,      \* grabbed_accelerators: action to program
    watched,    \* grabbers
    action,     \* the last action
    stale,      \* whether the map event was not handled
    forgotten,  \* history: grabs of next-group keys dropped without an ungrab
    changes     \* how often the keymap or the group changed

vars == <<alive, keymap, known, bindings, isoGroup, iso, grabs, owner, watched, action, stale, forgotten, changes>>

(* ------------------------------------------------------- GfKeybindings ---- *)
Modmap == [super |-> keymap.super, ignored |-> keymap.ignored]

(* change_keygrab: key and modifiers for each combination of ignored ones     *)
Keys(b, ignored) == IF b.code = 0 THEN {} ELSE {<<b.code, b.mask \cup s>> : s \in SUBSET ignored}
AllKeys(bs, ignored) == UNION {Keys(b, ignored) : b \in bs}

(* devirtualize_modifiers: Super may be no modifier of this keymap            *)
Devirtualizes(accel, modmap) == ~accel.super \/ modmap.super # {}
Mask(accel, modmap) == IF accel.super THEN modmap.super ELSE {}

(* reload_iso_group_keybindings                                               *)
IsoKeys(group, km) == {[code |-> c, mask |-> m] : c \in km.iso, m \in group}

BindingsOf(f) == {f[a] : a \in DOMAIN f}

(* The translation is renewed before the old keys are released.               *)
MapChangedLate ==
    /\ stale /\ stale' = FALSE
    /\ known' = Modmap
    /\ iso' = IsoKeys(isoGroup, keymap)
    /\ bindings' = [a \in DOMAIN bindings |->
          [bindings[a] EXCEPT !.code = keymap.code[bindings[a].accel.sym], !.mask = Mask(bindings[a].accel, known')]]
    /\ grabs' = (grabs \ AllKeys(iso \cup BindingsOf(bindings), known'.ignored))
                \cup (AllKeys(iso' \cup BindingsOf(bindings'), known'.ignored) \ Foreign)
    /\ UNCHANGED <<alive, keymap, isoGroup, owner, watched, action, forgotten, changes>>

(* filter_func: XkbMapNotify                                                  *)
MapChanged ==
    /\ stale /\ stale' = FALSE
    /\ known' = Modmap
    /\ iso' = IsoKeys(isoGroup, keymap)
    /\ bindings' = [a \in DOMAIN bindings |->
          [bindings[a] EXCEPT !.code = keymap.code[bindings[a].accel.sym], !.mask = Mask(bindings[a].accel, known')]]
    /\ grabs' = (grabs \ AllKeys(iso \cup BindingsOf(bindings), known.ignored))
                \cup (AllKeys(iso' \cup BindingsOf(bindings'), known'.ignored) \ Foreign)
    /\ UNCHANGED <<alive, keymap, isoGroup, owner, watched, action, forgotten, changes>>

(* gf_keybindings_grab_iso_group neither releases nor grabs: the next change  *)
(* of the keymap does.                                                        *)
GrabIsoGroup ==
    /\ changes < MaxChanges /\ changes' = changes + 1
    /\ \E g \in IsoGroups \ {isoGroup} :
          /\ isoGroup' = g
          /\ iso' = IsoKeys(g, keymap)
          /\ forgotten' = forgotten \cup (AllKeys(iso, known.ignored) \cap grabs)
    /\ UNCHANGED <<alive, keymap, known, bindings, grabs, owner, watched, action, stale>>

(* gf_keybindings_ungrab for each of a set of actions                         *)
Ungrab(as) ==
    /\ bindings' = [a \in DOMAIN bindings \ as |-> bindings[a]]
    /\ grabs' = grabs \ AllKeys({bindings[a] : a \in DOMAIN bindings \cap as}, known.ignored)

(* ------------------------------------------------------ FlashbackShell ---- *)
Watch(c) == watched' = watched \cup {c}

(* grab_accelerator and gf_keybindings_grab.  A call of a program that has    *)
(* left since is handled all the same.                                        *)
GrabAccelerator ==
    /\ \E c \in Clients, accel \in Accels :
          LET code == keymap.code[accel.sym]
              b == [accel |-> accel, code |-> code, mask |-> Mask(accel, known)]
          IN  /\ c \in alive \/ c \in watched
              /\ Watch(c)
              /\ IF code = 0 \/ ~Devirtualizes(accel, known)
                 THEN /\ owner' = [a \in DOMAIN owner \cup {0} |-> IF a = 0 THEN c ELSE owner[a]]
                      /\ UNCHANGED <<action, bindings, grabs>>
                 ELSE /\ action < MaxActions
                      /\ action' = action + 1
                      /\ bindings' = [a \in DOMAIN bindings \cup {action'} |-> IF a = action' THEN b ELSE bindings[a]]
                      /\ grabs' = grabs \cup (Keys(b, known.ignored) \ Foreign)
                      /\ owner' = [a \in DOMAIN owner \cup {action'} |-> IF a = action' THEN c ELSE owner[a]]
    /\ UNCHANGED <<alive, keymap, known, isoGroup, iso, stale, forgotten, changes>>

(* ungrab_accelerator                                                         *)
UngrabAccelerator ==
    /\ \E a \in DOMAIN owner \cap DOMAIN bindings :
          /\ owner[a] \in alive
          /\ Ungrab({a})
          /\ owner' = [x \in DOMAIN owner \ {a} |-> owner[x]]
    /\ UNCHANGED <<alive, keymap, known, isoGroup, iso, watched, action, stale, forgotten, changes>>

(* The program is forgotten, its accelerators are not.                        *)
VanishedKeeping ==
    /\ \E c \in watched \ alive : watched' = watched \ {c}
    /\ UNCHANGED <<alive, keymap, known, bindings, isoGroup, iso, grabs, owner, action, stale, forgotten, changes>>
(* name_vanished_handler and remove_accelerator; action 0, a grab that was    *)
(* refused, cannot be ungrabbed and stays.                                    *)
Vanished ==
    /\ \E c \in watched \ alive :
          /\ watched' = watched \ {c}
          /\ Ungrab({a \in DOMAIN owner : owner[a] = c})
          /\ owner' = [a \in {x \in DOMAIN owner : owner[x] # c \/ x = 0} |-> owner[a]]
    /\ UNCHANGED <<alive, keymap, known, isoGroup, iso, action, stale, forgotten, changes>>

(* ------------------------------------------------------- the others ------ *)
KeymapChanges ==
    /\ changes < MaxChanges /\ changes' = changes + 1
    /\ keymap' \in Keymaps \ {keymap}
    /\ stale' = TRUE
    /\ UNCHANGED <<alive, known, bindings, isoGroup, iso, grabs, owner, watched, action, forgotten>>

Leaves ==
    /\ \E c \in alive : alive' = alive \ {c}
    /\ UNCHANGED <<keymap, known, bindings, isoGroup, iso, grabs, owner, watched, action, stale, forgotten, changes>>

None0 == [a \in {} |-> a]
Init ==
    /\ alive = Clients /\ keymap \in Keymaps /\ known = Modmap
    /\ bindings = None0 /\ isoGroup = {} /\ iso = {} /\ grabs = {} /\ owner = None0 /\ watched = {}
    /\ action = 0 /\ stale = FALSE /\ forgotten = {} /\ changes = 0

Next ==
    \/ MapChanged \/ GrabIsoGroup \/ GrabAccelerator \/ UngrabAccelerator \/ Vanished
    \/ KeymapChanges \/ Leaves
Spec == Init /\ [][Next]_vars

(* ----------------------------------------------------------- properties --- *)
TypeOK ==
    /\ alive \subseteq Clients /\ watched \subseteq Clients
    /\ DOMAIN bindings \subseteq 1 .. action /\ DOMAIN owner \subseteq 0 .. action
    /\ \A a \in DOMAIN owner : owner[a] \in Clients

(* The server takes a key from the other programs only for a binding of a     *)
(* program that is watched, so that it ends with the program, and none for    *)
(* what an older keymap made of a binding; but for next-group keys.           *)
GrabsAreWanted ==
    /\ grabs \subseteq AllKeys(iso \cup BindingsOf(bindings), known.ignored) \cup forgotten
    /\ \A a \in DOMAIN bindings : a \in DOMAIN owner /\ owner[a] \in watched

=============================================================================
