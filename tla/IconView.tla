------------------------------ MODULE IconView ------------------------------
(* The icons of the desktop: GfIconView follows the files of the desktop      *)
(* folder (a directory monitor, an enumeration at the start, a query for each *)
(* file that appears) and keeps one GfIconInfo for each icon, in an order;    *)
(* GfMonitorView places icons in the cells of a grid, one grid for each       *)
(* monitor.  Only automatic placement is implemented, so the others are not   *)
(* modelled.  A file is a number, its rank by name; what its info says        *)
(* (hidden, type, size) follows from the name, so the info that an icon has   *)
(* is the file it was read for.                                               *)
EXTENDS Integers, Sequences, SequencesExt, FiniteSetsExt

CONSTANTS
    Files, Hidden, Dirs,  \* numbers; hidden or backup files; directories
    Home,                 \* the file of the home icon (the trash icon is like it)
    Monitors, NoView,
    Areas,                \* how many cells a workarea has room for
    MaxChanges            \* bound: changes of the folder, the settings, the monitors

VARIABLES
    fs,       \* the files of the folder
    changes,  \* how often the folder, a setting or a monitor changed
    events,   \* of the directory monitor, not yet delivered
    queries,  \* of file_created: file, and "asked", "found" or "gone"
    listing,  \* enumerate_desktop: "asked", "read" with its files, or "done"
    icons,    \* self->icons in order: id, file, info, asking (gf_icon_update), view
    views,    \* of each monitor: its name, area, grid, and whether the idle waits
    primary, sort_by, show_home,
    last,     \* last_selected_icon
    raced,    \* history: a file was renamed while an answer about it was due
    lost      \* history: the icons that lost their view, or became visible, with no add_icons

vars == <<fs, changes, events, queries, listing, icons, views, primary, sort_by, show_home, last,
          raced, lost>>
world == [icons |-> icons, views |-> views, last |-> last, lost |-> lost]
Become(w) == icons' = w.icons /\ views' = w.views /\ last' = w.last /\ lost' = w.lost

NoIcon == 0
Change == changes < MaxChanges /\ changes' = changes + 1
FreshId(w) == 1 + Max({0, w.last} \cup {w.icons[i].id : i \in DOMAIN w.icons})
Indexes(s) == [i \in DOMAIN s |-> i]

(* ------------------------------------------------------------- the grids --- *)
FreeCells(grid) == {c \in DOMAIN grid : grid[c] = NoIcon}
ViewOf(w, m) == SelectInSeq(w.views, LAMBDA v : v.name = m)

(* get_monitor_views: the primary view first, the others as they came.        *)
MonitorViews(w) ==
    LET all == Indexes(w.views)
    IN  SelectSeq(all, LAMBDA v : w.views[v].name = primary)
            \o SelectSeq(all, LAMBDA v : w.views[v].name # primary)

(* An icon that is not hidden and has no view takes the first free cell of    *)
(* the first view that has one.                                               *)
AddIcon(w, i) ==
    LET open == SelectSeq(MonitorViews(w), LAMBDA v : FreeCells(w.views[v].grid) # {})
        v == Head(open)
        cell == Min(FreeCells(w.views[v].grid))
    IN  IF w.icons[i].info \in Hidden \/ w.icons[i].view # NoView \/ open = <<>> THEN w
        ELSE [w EXCEPT !.icons[i].view = w.views[v].name,
                       !.views[v].grid[cell] = w.icons[i].id,
                       !.lost = @ \ {w.icons[i].id}]

AddIcons(w) == FoldLeft(AddIcon, [w EXCEPT !.lost = {}], Indexes(w.icons))

EmptyGrid(cells) == SubSeq([c \in 1 .. Max(Areas) |-> NoIcon], 1, cells)

(* gf_monitor_view_remove_icon                                                *)
TakeOut(w, i) ==
    LET v == ViewOf(w, w.icons[i].view)
    IN  IF w.icons[i].view = NoView THEN w
        ELSE [w EXCEPT !.icons[i].view = NoView,
                       !.views[v].grid = ReplaceAll(@, w.icons[i].id, NoIcon)]

LoseView(w, name) ==
    FoldLeft(LAMBDA u, i : IF u.icons[i].view = name THEN [u EXCEPT !.icons[i].view = NoView] ELSE u,
             w, Indexes(w.icons))

RemoveAndReadd(w) == AddIcons(FoldLeft(TakeOut, w, Indexes(w.icons)))

(* ------------------------------------------------------------- the order --- *)
Key(by, f) ==
    (IF f \in Dirs \cup {Home} THEN 0 ELSE 100) + (IF by = "name" THEN f ELSE 50 - f)

Sorted(w, by) ==
    LET key(i) == Key(by, w.icons[i].info)
        order == SetToSortSeq(DOMAIN w.icons,
                              LAMBDA i, j : key(i) < key(j) \/ (key(i) = key(j) /\ i < j))
    IN  [w EXCEPT !.icons = FoldLeft(LAMBDA s, i : Append(s, w.icons[i]), <<>>, order)]

Resort(w, by, force) ==
    LET v == Sorted(w, by) IN IF v.icons = w.icons /\ ~force THEN w ELSE RemoveAndReadd(v)

(* --------------------------------------------------------- files to icons -- *)
NewIcon(w, f) ==
    [w EXCEPT !.icons = <<[id |-> FreshId(w), file |-> f, info |-> f, asking |-> FALSE,
                           view |-> NoView]>> \o @]

Has(w, f) == \E i \in DOMAIN w.icons : w.icons[i].file = f
IconOf(w, f) == SelectInSeq(w.icons, LAMBDA k : k.file = f)

(* The icon stays in the grid of its view.                                    *)
ForgetOnly(w, i) ==
    [w EXCEPT !.last = IF w.icons[i].view # NoView /\ @ = w.icons[i].id THEN NoIcon ELSE @]

(* remove_icon_from_view returns early for an icon that has no view, and then *)
(* leaves the pointers to it.                                                 *)
Forget(w, i) ==
    [TakeOut(w, i) EXCEPT !.last = IF w.icons[i].view # NoView /\ @ = w.icons[i].id THEN NoIcon
                                                                                   ELSE @]
Drop(w, i) == [Forget(w, i) EXCEPT !.icons = RemoveAt(@, i), !.lost = @ \ {w.icons[i].id}]
RemoveIcon(w, i) == RemoveAndReadd(Drop(w, i))

FileDeleted(w, f) == IF Has(w, f) THEN RemoveIcon(w, IconOf(w, f)) ELSE w

SetFile(w, i, f) == [w EXCEPT !.icons[i].file = f, !.icons[i].asking = TRUE]

FileRenamed(w, f, g) ==
    LET v == SetFile(w, IconOf(w, g), g)
    IN  IF Has(w, f) /\ Has(w, g) THEN RemoveIcon(v, IconOf(w, f))
        ELSE IF Has(w, f) THEN SetFile(w, IconOf(w, f), g)
        ELSE IF Has(w, g) THEN v ELSE w

(* desktop_changed_cb takes the next event of the monitor; file_created asks  *)
(* for the info of the file.                                                  *)
DesktopChanged ==
    /\ events # <<>>
    /\ events' = Tail(events)
    /\ LET e == Head(events)
       IN  IF e.type = "created"
           THEN /\ queries' = Append(queries, [file |-> e.file, state |-> "asked"])
                /\ UNCHANGED <<icons, views, last, lost>>
           ELSE /\ Become(IF e.type = "deleted" THEN FileDeleted(world, e.file)
                                                ELSE FileRenamed(world, e.file, e.other))
                /\ UNCHANGED queries
    /\ UNCHANGED <<fs, changes, listing, primary, sort_by, show_home, raced>>

(* A thread looks at the file; query_info_cb gets the answer later.           *)
QueryRuns ==
    \E q \in DOMAIN queries :
        /\ queries[q].state = "asked"
        /\ queries' = [queries EXCEPT ![q].state =
                           IF queries[q].file \in fs THEN "found" ELSE "gone"]
        /\ UNCHANGED <<fs, changes, events, listing, icons, views, primary, sort_by, show_home,
                       last, raced, lost>>

QueryInfo ==
    \E q \in DOMAIN queries :
        /\ queries[q].state # "asked"
        /\ queries' = RemoveAt(queries, q)
        /\ Become(IF queries[q].state = "gone" THEN world
                  ELSE LET w == NewIcon(world, queries[q].file)
                       IN  Resort([w EXCEPT !.icons[1].asking = TRUE], sort_by, TRUE))
        /\ UNCHANGED <<fs, changes, events, listing, primary, sort_by, show_home, raced>>

ListingRuns ==
    /\ listing.state = "asked"
    /\ listing' = [state |-> "read", files |-> fs]
    /\ UNCHANGED <<fs, changes, events, queries, icons, views, primary, sort_by, show_home, last,
                   raced, lost>>

AppendHome(w) == IF Has(w, Home) THEN w ELSE NewIcon(w, Home)

(* next_files_cb has every file of the listing, whatever came meanwhile.      *)
NextFiles ==
    /\ listing.state = "read"
    /\ listing' = [state |-> "done", files |-> {}]
    /\ LET w == FoldLeft(NewIcon, world, SetToSortSeq(listing.files, <))
           v == IF show_home THEN AppendHome(w) ELSE w
       IN  Become(AddIcons(Sorted(v, sort_by)))
    /\ UNCHANGED <<fs, changes, events, queries, primary, sort_by, show_home, raced>>

(* query_info_cb of GfIcon: the answer for the file that the icon has now; an *)
(* icon that stops or starts being hidden is placed only if the order changed. *)
IconAnswered ==
    \E i \in DOMAIN icons :
        /\ icons[i].asking
        /\ LET f == icons[i].file
               v == [world EXCEPT !.icons[i].asking = FALSE]
               w == [v EXCEPT !.icons[i].info = f, !.lost = IF icons[i].info \in Hidden
                                                            THEN @ \cup {icons[i].id} ELSE @]
           IN  Become(IF f \notin fs THEN v ELSE Resort(w, sort_by, FALSE))
        /\ UNCHANGED <<fs, changes, events, queries, listing, primary, sort_by, show_home, raced>>

(* --------------------------------------------------------------- monitors -- *)
(* recalculate_grid_size_cb: a grid of another size is emptied, its icons     *)
(* lose their view and are added again.                                       *)
Recalculate ==
    \E v \in DOMAIN views :
        /\ views[v].idle
        /\ LET w == [world EXCEPT !.views[v].idle = FALSE,
                                  !.views[v].grid = EmptyGrid(views[v].area)]
           IN  Become(IF Len(views[v].grid) = views[v].area
                      THEN [world EXCEPT !.views[v].idle = FALSE]
                      ELSE AddIcons(LoseView(w, views[v].name)))
        /\ UNCHANGED <<fs, changes, events, queries, listing, primary, sort_by, show_home, raced>>

(* workarea_watcher_changed_cb, gf_monitor_view_set_size                      *)
WorkareaChanged ==
    \E v \in DOMAIN views, a \in Areas :
        /\ a # views[v].area /\ Change
        /\ views' = [views EXCEPT ![v].area = a, ![v].idle = TRUE]
        /\ UNCHANGED <<fs, events, queries, listing, icons, primary, sort_by, show_home, last,
                       raced, lost>>

MonitorView(m, a) == [name |-> m, area |-> a, idle |-> TRUE, grid |-> <<>>]

MonitorAdded ==
    \E m \in Monitors \ {views[v].name : v \in DOMAIN views}, a \in Areas :
        /\ Change
        /\ views' = Append(views, MonitorView(m, a))
        /\ primary' \in {primary, m}
        /\ UNCHANGED <<fs, events, queries, listing, icons, sort_by, show_home, last, raced, lost>>

(* The icons of a monitor that is removed stay without a view.                *)
MonitorRemoved ==
    \E v \in DOMAIN views, p \in Monitors :
        /\ p \in {views[u].name : u \in DOMAIN views \ {v}} /\ Change
        /\ (primary # views[v].name => p = primary)
        /\ primary' = p
        /\ LET out == {icons[i].id : i \in {j \in DOMAIN icons : icons[j].view = views[v].name}}
               w == LoseView(world, views[v].name)
           IN  Become([w EXCEPT !.views = RemoveAt(@, v), !.lost = @ \cup out])
        /\ UNCHANGED <<fs, events, queries, listing, sort_by, show_home, raced>>

(* --------------------------------------------------------------- settings -- *)
SortByChanged ==
    /\ Change
    /\ sort_by' = IF sort_by = "name" THEN "size" ELSE "name"
    /\ Become(Resort(world, sort_by', FALSE))
    /\ UNCHANGED <<fs, events, queries, listing, primary, show_home, raced>>

ShowHomeChanged ==
    /\ Change
    /\ show_home' = ~show_home
    /\ Become(IF show_home' THEN Resort(AppendHome(world), sort_by, TRUE)
              ELSE IF Has(world, Home) THEN RemoveIcon(world, IconOf(world, Home)) ELSE world)
    /\ UNCHANGED <<fs, events, queries, listing, primary, sort_by, raced>>

(* The pointer or the keyboard gives an icon the focus.                       *)
Focused ==
    \E i \in DOMAIN icons :
        /\ icons[i].view # NoView
        /\ last' = icons[i].id
        /\ UNCHANGED <<fs, changes, events, queries, listing, icons, views, primary, sort_by,
                       show_home, raced, lost>>

(* ----------------------------------------------------------- the folder ---- *)
Event(type, f, g) == [type |-> type, file |-> f, other |-> g]
Due(f) == \/ \E q \in DOMAIN queries : queries[q].file = f
          \/ \E e \in DOMAIN events : events[e].type = "created" /\ events[e].file = f
          \/ listing.state # "done"

Touched ==
    /\ Change
    /\ \/ \E f \in Files \ fs :
              fs' = fs \cup {f} /\ events' = Append(events, Event("created", f, f)) /\ UNCHANGED raced
       \/ \E f \in fs :
              fs' = fs \ {f} /\ events' = Append(events, Event("deleted", f, f)) /\ UNCHANGED raced
       \/ \E f \in fs : \E g \in Files \ {f} :
              /\ fs' = (fs \ {f}) \cup {g}
              /\ events' = Append(events, Event("renamed", f, g))
              /\ raced' = (raced \/ Due(f))
    /\ UNCHANGED <<queries, listing, icons, views, primary, sort_by, show_home, last, lost>>

Init ==
    /\ fs \in SUBSET Files /\ changes = 0 /\ events = <<>> /\ queries = <<>>
    /\ listing = [state |-> "asked", files |-> {}] /\ icons = <<>>
    /\ primary \in Monitors
    /\ \E a \in Areas : views = <<MonitorView(primary, a)>>
    /\ sort_by = "name" /\ show_home \in BOOLEAN /\ last = NoIcon /\ raced = FALSE /\ lost = {}

Next ==
    \/ DesktopChanged \/ QueryRuns \/ QueryInfo \/ ListingRuns \/ NextFiles \/ IconAnswered
    \/ Recalculate \/ WorkareaChanged \/ MonitorAdded \/ MonitorRemoved
    \/ SortByChanged \/ ShowHomeChanged \/ Focused \/ Touched

Spec == Init /\ [][Next]_vars

(* -------------------------------------------------------------- properties - *)
TypeOK ==
    /\ fs \subseteq Files /\ changes \in 0 .. MaxChanges
    /\ \A e \in DOMAIN events : events[e].type \in {"created", "deleted", "renamed"}
    /\ \A i \in DOMAIN icons : icons[i].file \in Files \cup {Home}
    /\ sort_by \in {"name", "size"} /\ primary \in Monitors

(* An icon that says it is in a view is in exactly one cell of that view's    *)
(* grid and in no other grid, and a cell holds no other icon: the list of     *)
(* icons, the grids and the monitors come and go separately.                  *)
GridAgrees ==
    /\ \A v \in DOMAIN views : \A c \in DOMAIN views[v].grid :
           views[v].grid[c] # NoIcon =>
               \E i \in DOMAIN icons : icons[i].id = views[v].grid[c] /\ icons[i].view = views[v].name
    /\ \A i \in DOMAIN icons :
           icons[i].view # NoView =>
               \E v \in DOMAIN views :
                   /\ views[v].name = icons[i].view
                   /\ Quantify(DOMAIN views[v].grid, LAMBDA c : views[v].grid[c] = icons[i].id) = 1

(* A visible icon has no place only when no cell is free, except an icon that *)
(* lost its monitor or has just stopped being hidden.                         *)
RoomIsUsed ==
    \A i \in DOMAIN icons :
        icons[i].view = NoView /\ icons[i].info \notin Hidden /\ icons[i].id \notin lost =>
            \A v \in DOMAIN views : FreeCells(views[v].grid) = {}

(* When every event and answer has come, every file of the folder has an      *)
(* icon with the info of that file, unless a file was renamed while an answer *)
(* about it was due.                                                          *)
EveryFileHasIcon ==
    events = <<>> /\ queries = <<>> /\ listing.state = "done"
        /\ (\A i \in DOMAIN icons : ~icons[i].asking) /\ ~raced =>
            \A f \in fs : \E i \in DOMAIN icons : icons[i].file = f /\ icons[i].info = f

=============================================================================
