--------------------------- MODULE IconSelection ----------------------------
(* Which icons of the desktop are selected: GfIconView keeps a list of the    *)
(* selected icons beside the flag of each icon, the icons under the           *)
(* rubberband, the icon that last had the focus and the icon a selection is   *)
(* extended from; the pointer (GfIcon, GfIconView), the rubberband and the    *)
(* keyboard change them, and icons are freed meanwhile.  Icons fill unit      *)
(* squares of the plane; the pointer is at the corners of the squares.        *)
EXTENDS Integers, FiniteSets, FiniteSetsExt

CONSTANTS
    Icons, None,
    Unplaced,       \* the icons without a view: hidden ones, or no cell was free
    ViewOf,         \* of each other icon its view, a number from left to right
    X, Y,           \* and its square
    Width, Height   \* of the plane

VARIABLES
    live,      \* the icons that exist
    flags,     \* priv->selected of GfIcon
    selected,  \* selected_icons
    band,      \* rubberband_icons
    last, from,  \* last_selected_icon, extend_from_icon
    press,     \* the icon that is pressed, did_select, and the modifiers
    drag,      \* the drag gesture of the view: its start, the pointer, rubberband_rect
    hist       \* history: selections when a press and a drag began, whether anything came
               \* between, the icons that were freed without a view

vars == <<live, flags, selected, band, last, from, press, drag, hist>>
world == [flags |-> flags, selected |-> selected, band |-> band, last |-> last, from |-> from]
Become(w) ==
    flags' = w.flags /\ selected' = w.selected /\ band' = w.band /\ last' = w.last /\ from' = w.from

Placed == live \ Unplaced
Mods == [ctrl : BOOLEAN, shift : BOOLEAN]
Plain(m) == ~m.ctrl /\ ~m.shift

(* gf_icon_set_selected and icon_selected_cb                                  *)
Set(w, S, on) ==
    IF on THEN [w EXCEPT !.flags = @ \cup S, !.selected = @ \cup (S \ w.flags)]
          ELSE [w EXCEPT !.flags = @ \ S, !.selected = @ \ (S \cap w.flags)]
Toggle(w, i) == Set(w, {i}, i \notin w.flags)
Unselect(w) == [Set(w, w.selected, FALSE) EXCEPT !.selected = {}]

(* ---------------------------------------------------------------- pointer -- *)
Pressed(i, m, secondary) ==
    [icon |-> i, did |-> i \notin flags /\ ~secondary, mods |-> m, secondary |-> secondary]

(* The selection is kept when the icon is selected: a drag may follow.        *)
PressIcon ==
    \E i \in Placed, m \in Mods, secondary \in BOOLEAN :
        /\ press = None /\ ~drag.on
        /\ press' = Pressed(i, m, secondary)
        /\ Become(Set(IF i \notin flags /\ Plain(m) THEN Unselect(world) ELSE world, {i}, TRUE))
        /\ hist' = [hist EXCEPT !.before = selected, !.click = TRUE]
        /\ UNCHANGED <<live, drag>>

Released(i, m) ==
    IF Plain(m) THEN Set(Unselect(world), {i}, i \in flags)
    ELSE IF m.ctrl /\ ~press.did THEN Set(world, {i}, FALSE) ELSE world

(* A primary click also is a click of the button: icon_clicked_cb.            *)
ReleaseIcon ==
    \E m \in Mods, middle \in BOOLEAN :
        /\ press # None
        /\ LET w == IF press.secondary THEN world ELSE Released(press.icon, m)
           IN  Become(IF press.secondary \/ middle THEN w
                      ELSE [w EXCEPT !.last = press.icon, !.from = None])
        /\ press' = None
        /\ hist' = [hist EXCEPT !.before = {}, !.drag = FALSE, !.click = @ /\ m = press.mods]
        /\ UNCHANGED <<live, drag>>

PressDesktop ==
    \E m \in Mods, x \in 0 .. Width, y \in 0 .. Height :
        /\ press = None /\ ~drag.on
        /\ Become(IF Plain(m) THEN [Unselect(world) EXCEPT !.band = {}] ELSE world)
        /\ drag' = [on |-> TRUE, x |-> x, y |-> y, dx |-> 0, dy |-> 0,
                    rect |-> [x |-> 0, y |-> 0, w |-> 0, h |-> 0]]
        /\ hist' = [hist EXCEPT !.base = selected', !.drag = TRUE, !.click = FALSE]
        /\ UNCHANGED <<live, press>>

PopupDesktop == press = None /\ ~drag.on /\ Become(Unselect(world)) /\ UNCHANGED <<live, press, drag>>

Abs1(n) == IF n < 0 THEN -n ELSE n
RectOf(x, y, dx, dy) ==
    [x |-> IF dx < 0 THEN x + dx ELSE x, y |-> IF dy < 0 THEN y + dy ELSE y,
     w |-> Abs1(dx), h |-> Abs1(dy)]
Under(r) == {i \in Placed : X[i] \in r.x .. r.x + r.w - 1 /\ Y[i] \in r.y .. r.y + r.h - 1}

(* Only the corner of the rectangle is looked at.                             *)
LeavesByCorner(r, old) == r.x > old.x \/ r.y > old.y
Leaves(r, old) == r.x > old.x \/ r.y > old.y \/ r.w < old.w \/ r.h < old.h
Enters(r, old) == r.x < old.x \/ r.y < old.y \/ r.w > old.w \/ r.h > old.h

ToggleAll(w, S) ==
    [Set(Set(w, S \cap w.flags, FALSE), S \ w.flags, TRUE) EXCEPT !.band = w.band]

DragUpdate ==
    \E dx \in -drag.x .. Width - drag.x, dy \in -drag.y .. Height - drag.y :
        /\ drag.on
        /\ LET r == RectOf(drag.x, drag.y, dx, dy)
               gone == IF Leaves(r, drag.rect) THEN band \ Under(r) ELSE {}
               w == [ToggleAll(world, gone) EXCEPT !.band = band \ gone]
               come == IF Enters(r, drag.rect) THEN Under(r) \ w.band ELSE {}
           IN  /\ Become([ToggleAll(w, come) EXCEPT !.band = w.band \cup come])
               /\ drag' = [drag EXCEPT !.rect = r, !.dx = dx, !.dy = dy]
        /\ hist' = [hist EXCEPT !.drag = @ /\ drag.dx * dx >= 0 /\ drag.dy * dy >= 0]
        /\ UNCHANGED <<live, press>>

DragEnd ==
    /\ drag.on
    /\ drag' = [drag EXCEPT !.on = FALSE, !.x = 0, !.y = 0, !.dx = 0, !.dy = 0,
                            !.rect = [x |-> 0, y |-> 0, w |-> 0, h |-> 0]]
    /\ Become([world EXCEPT !.band = {}])
    /\ hist' = [hist EXCEPT !.drag = FALSE, !.base = {}]
    /\ UNCHANGED <<live, press>>

(* --------------------------------------------------------------- keyboard -- *)
Ahead(i, j, d) ==
    /\ ViewOf[i] = ViewOf[j]
    /\ CASE d = "left" -> Y[i] = Y[j] /\ X[j] < X[i]  [] d = "right" -> Y[i] = Y[j] /\ X[j] > X[i]
         [] d = "up" -> X[i] = X[j] /\ Y[j] < Y[i]    [] d = "down" -> X[i] = X[j] /\ Y[j] > Y[i]
Distance(i, j) == Abs1(X[i] - X[j]) + Abs1(Y[i] - Y[j])

(* The first icon of a view, column after column.                             *)
FirstIcon(v) ==
    {i \in Placed : ViewOf[i] = v
         /\ \A j \in Placed : ViewOf[j] = v => X[i] < X[j] \/ (X[i] = X[j] /\ Y[i] <= Y[j])}

(* find_next_icon: the nearest icon of its column or row; then move_cb asks   *)
(* the views beyond, which know the icon only when no icon had the focus yet. *)
NextIcon(d) ==
    IF last # None
    THEN {j \in Placed : Ahead(last, j, d)
              /\ \A k \in Placed : Ahead(last, k, d) => Distance(last, j) <= Distance(last, k)}
    ELSE IF FirstIcon(1) # {} \/ d # "right" THEN FirstIcon(1) ELSE FirstIcon(2)

Between(i, j) ==
    {k \in Placed : /\ X[k] \in Min({X[i], X[j]}) .. Max({X[i], X[j]})
                    /\ Y[k] \in Min({Y[i], Y[j]}) .. Max({Y[i], Y[j]})}

(* With no icon to extend from the area is not initialised.                   *)
MoveFocus ==
    \E d \in {"left", "right", "up", "down"}, extend, modify \in BOOLEAN :
        /\ last # None => last \in Placed
        /\ \E j \in NextIcon(d) :
              LET w == IF modify THEN world ELSE Unselect(world)
                  v == [w EXCEPT !.from = IF extend THEN (IF @ = None THEN last ELSE @)
                                          ELSE IF modify THEN @ ELSE None]
              IN  \E area \in IF v.from # None THEN {Between(v.from, j)}
                              ELSE {S \in SUBSET Placed : j \in S} :
                      Become([(IF extend THEN Set(v, area, TRUE)
                               ELSE IF modify THEN v ELSE Set(v, {j}, TRUE)) EXCEPT !.last = j])
        /\ UNCHANGED <<live, press, drag>>

ToggleFocused == last \in live /\ Become(Toggle(world, last)) /\ UNCHANGED <<live, press, drag>>
SelectAll == Become(Set(world, live, TRUE)) /\ UNCHANGED <<live, press, drag>>
UnselectAll == Become(Unselect(world)) /\ UNCHANGED <<live, press, drag>>

(* ---------------------------------------------------------------- removal -- *)
Forget(w, i) ==
    [w EXCEPT !.selected = @ \ {i}, !.band = @ \ {i}, !.last = IF @ = i THEN None ELSE @,
              !.from = IF @ = i THEN None ELSE @]

(* remove_icon: only an icon that has a view is forgotten.                    *)
RemoveIcon ==
    \E i \in live :
        /\ live' = live \ {i}
        /\ Become([(IF i \in Unplaced THEN world ELSE Forget(world, i)) EXCEPT !.flags = @ \ {i}])
        /\ press' = IF press # None /\ press.icon = i THEN None ELSE press
        /\ hist' = [hist EXCEPT !.before = IF press' = None THEN {} ELSE @, !.click = FALSE, !.drag = FALSE,
                            !.freed = @ \cup ({i} \cap Unplaced)]
        /\ UNCHANGED drag

Init ==
    /\ live = Icons /\ flags = {} /\ selected = {} /\ band = {} /\ last = None /\ from = None
    /\ press = None
    /\ drag = [on |-> FALSE, x |-> 0, y |-> 0, dx |-> 0, dy |-> 0,
               rect |-> [x |-> 0, y |-> 0, w |-> 0, h |-> 0]]
    /\ hist = [before |-> {}, base |-> {}, click |-> FALSE, drag |-> FALSE, freed |-> {}]

Keys ==
    /\ MoveFocus \/ ToggleFocused \/ SelectAll \/ UnselectAll \/ PopupDesktop
    /\ hist' = [hist EXCEPT !.click = FALSE, !.drag = FALSE]

Next ==
    \/ PressIcon \/ ReleaseIcon \/ PressDesktop \/ DragUpdate \/ DragEnd \/ Keys \/ RemoveIcon

Spec == Init /\ [][Next]_vars

(* -------------------------------------------------------------- properties - *)
TypeOK ==
    /\ live \subseteq Icons /\ flags \subseteq live /\ selected \subseteq Icons /\ band \subseteq Icons
    /\ last \in Icons \cup {None} /\ from \in Icons \cup {None}

(* Until the pointer jumps across the start of the rubberband, or something   *)
(* else changes the selection, the icons under the rubberband are those the   *)
(* list of it names, and exactly they are the other way than at its start.    *)
BandFollows ==
    drag.on /\ hist.drag => band = Under(drag.rect) /\ selected = SymDiff(hist.base, band)

(* A click with nothing in between selects its icon alone; with Control it    *)
(* turns its icon over, with Shift it adds it.                                *)
ClickSettles ==
    press # None /\ press' = None /\ hist'.click /\ ~press.secondary =>
        selected' = IF Plain(press.mods) THEN {press.icon}
                    ELSE IF press.mods.ctrl THEN SymDiff(hist.before, {press.icon})
                    ELSE hist.before \cup {press.icon}

(* Nothing points at an icon that was freed, except one that had no view; and *)
(* the list of the selected icons agrees with the flags of the icons.         *)
NothingDangles ==
    /\ selected \cup band \cup ({last, from} \ {None}) \subseteq live \cup hist.freed
    /\ selected \cap live = flags

(* What an operator of this module takes and returns.                         *)
Worlds ==
    [flags : SUBSET live, selected : SUBSET Icons, band : SUBSET Placed,
     last : Icons \cup {None}, from : Icons \cup {None}]
Agrees(w) ==
    /\ w \in Worlds /\ w.selected \cap live = w.flags
    /\ w.selected \cup ({w.last, w.from} \ {None}) \subseteq live \cup hist.freed

(* Between a press and its release there is no rubberband, and what the press *)
(* left is selected until something else comes.                               *)
PressKept ==
    press # None =>
        /\ press \in [icon : Placed, did : BOOLEAN, mods : Mods, secondary : BOOLEAN] /\ ~drag.on
        /\ hist.click /\ ~press.secondary =>
              /\ press.icon \in selected /\ (press.did <=> press.icon \notin hist.before)
              /\ ~Plain(press.mods) => selected = hist.before \cup {press.icon}

(* The rubberband is the rectangle from the start of the drag to the pointer, *)
(* or empty until the pointer moves.                                          *)
Rects == [x : Int, y : Int, w : Int, h : Int]
Drags == [on : BOOLEAN, x : Int, y : Int, dx : Int, dy : Int, rect : Rects]
BandIsDrawn ==
    /\ drag \in Drags
    /\ drag.rect = RectOf(drag.x, drag.y, drag.dx, drag.dy) \/ (drag.rect.w = 0 /\ drag.rect.h = 0)
    /\ ~drag.on => band = {}
Hists ==
    [before : SUBSET Icons, base : SUBSET Icons, click : BOOLEAN, drag : BOOLEAN, freed : SUBSET Icons]
SelectionInv ==
    live \subseteq Icons /\ Agrees(world) /\ PressKept /\ BandIsDrawn /\ hist \in Hists /\ BandFollows

=============================================================================
