----------------------------- MODULE Background -----------------------------
(* The background of the desktop: GfBG follows the settings and the picture   *)
(* file, GfBackground draws it, with a fade or at once, in idle sources and   *)
(* timeouts, and makes it the root pixmap; scaled pictures are kept in memory *)
(* for a moment and, one for each monitor, on the disk, where they are valid  *)
(* as long as the file is older than they are.                                *)
EXTENDS Integers, Sequences, SequencesExt

CONSTANTS
    Light, Dark,  \* the pictures for the light and for the dark scheme
    Placements,
    Sizes,        \* of a monitor, <<width, height>>
    Original,     \* the size of every picture
    Monitors,     \* how many monitors there are
    MaxTime, MaxChanges   \* bounds: of the clock, of the changes of files and monitors

VARIABLES
    clock,        \* seconds
    files,        \* of each picture its content, which is a version of it, and its modification time
    settings,     \* the scheme, the placement
    size,         \* of each monitor
    bg,           \* GfBG: what it loaded, its caches in memory, its sources
    disk,         \* of each monitor the scaled picture below ~/.cache/wallpaper
    background,   \* GfBackground: change_id, fade_data
    root,         \* the root pixmap and the surface of GfBackground: of each monitor its picture
    window,       \* GfDesktopWindow: its size, move_resize_id
    notices,      \* signals on their way to GfBG: of the settings, of the file monitor
    raced,        \* history: the picture on the disk was saved after the file it is of had changed
    early,        \* change_cb ran before a move_resize_cb that waits as well, which is next
    changes       \* how many changes of files and monitors there were

vars == <<clock, files, settings, size, bg, disk, background, root, window, notices, raced, early, changes>>

Files == {Light, Dark}

Nothing == [content |-> <<>>, size |-> <<0, 0>>, steps |-> <<>>]
NoEntry == [file |-> 0, placement |-> 0, size |-> <<0, 0>>, pixbuf |-> Nothing, mtime |-> 0]
Larger(a, b) == IF a < b THEN b ELSE a
Distance(a, b) == IF a < b THEN b - a ELSE a - b
SameRatio(a, b) == 5 * Distance(a[1] * b[2], a[2] * b[1]) < a[2] * b[2]
Mtime(f) == files[f].mtime

(* ----------------------------------------------------------- the pictures - *)
(* get_scaled_pixbuf: a picture of that size already comes out as it is.      *)
Scaled(p, s, placement) ==
    IF p.size = s /\ p.steps # <<>> THEN p
    ELSE [p EXCEPT !.size = s, !.steps = Append(@, <<s, placement>>)]

(* cache_file_is_valid with "not newer" instead of "older"                    *)
ValidIfNotNewer(e, f, placement, s) ==
    e.file = f /\ e.placement = placement /\ e.size = s /\ Mtime(f) <= e.mtime
IsValid(e, f, placement, s) ==
    e.file = f /\ e.placement = placement /\ e.size = s /\ Mtime(f) < e.mtime

(* get_as_pixbuf_for_size: from the memory, from the disk, or from the file   *)
Loaded(w, m) ==
    IF w.cache # Nothing THEN w.cache
    ELSE IF IsValid(disk[m], bg.filename, bg.placement, size[m]) THEN disk[m].pixbuf
    ELSE [content |-> files[bg.filename].content, size |-> Original, steps |-> <<>>]

(* refresh_cache_file: what was saved for the monitor before is removed.      *)
Refreshed(s, m) ==
    IF IsValid(disk[m], bg.filename, bg.placement, size[m]) THEN disk[m]
    ELSE [file |-> bg.filename, placement |-> bg.placement, size |-> size[m], pixbuf |-> s, mtime |-> clock]

(* get_pixbuf_for_size: the picture that was used last, if its ratio fits.    *)
(* The one of the drawing before is gone: the caches were blown since.        *)
PixbufForSize(w, m) ==
    IF w.pixbuf # Nothing /\ SameRatio(w.pixbuf.size, size[m]) THEN w.pixbuf ELSE Loaded(w, m)

(* One monitor; w: the two caches, what was drawn, what is saved on the disk  *)
DrawMonitor(w, m) ==
    LET p == PixbufForSize(w, m)
        s == Scaled(p, size[m], bg.placement)
    IN  [pixbuf |-> p, cache |-> IF w.cache # Nothing THEN w.cache ELSE p, drawn |-> Append(w.drawn, s),
         saved |-> Append(w.saved, Refreshed(s, m))]

Drawing ==
    FoldLeft(DrawMonitor, [pixbuf |-> bg.pixbuf, cache |-> bg.cache, drawn |-> <<>>, saved |-> <<>>],
             [m \in 1 .. Monitors |-> m])

(* ------------------------------------------------------------------ GfBG -- *)
Chosen == IF settings.scheme = "dark" THEN Dark ELSE Light
ClearCache(b) == [b EXCEPT !.pixbuf = Nothing, !.cache = Nothing]
Queued(b) == [b EXCEPT !.changed = TRUE]

IsDifferent(b, f) == b.filename # f \/ Mtime(f) # b.mtime

SetPlacement(b) == IF b.placement = settings.placement THEN b
                   ELSE Queued([b EXCEPT !.placement = settings.placement])
SetFilename(b) == IF ~IsDifferent(b, Chosen) THEN b
                  ELSE Queued(ClearCache([b EXCEPT !.filename = Chosen, !.mtime = Mtime(Chosen)]))
LoadFromPreferences(b) == SetFilename(SetPlacement(b))

SettingsChanged ==
    /\ notices.settings
    /\ bg' = LoadFromPreferences(bg)
    /\ notices' = [settings |-> FALSE, file |-> notices.file /\ ~IsDifferent(bg, Chosen)]
    /\ UNCHANGED <<clock, files, settings, size, disk, background, root, window, raced, early, changes>>

FileChanged ==
    /\ notices.file
    /\ bg' = Queued(ClearCache(bg))
    /\ notices' = [notices EXCEPT !.file = FALSE]
    /\ UNCHANGED <<clock, files, settings, size, disk, background, root, window, raced, early, changes>>

(* do_changed, and changed_cb of GfBackground; a change that waits keeps its  *)
(* first fade.                                                                *)
QueueChange(b, fade) == IF b.change # "none" THEN b ELSE [b EXCEPT !.change = fade]
Changed ==
    /\ bg.changed
    /\ bg' = [bg EXCEPT !.changed = FALSE]
    /\ \E fade \in {"fade", "plain"} : background' = QueueChange(background, fade)
    /\ UNCHANGED <<clock, files, settings, size, disk, root, window, notices, raced, early, changes>>

BlowCaches ==
    /\ bg.blow
    /\ bg' = [ClearCache(bg) EXCEPT !.blow = FALSE]
    /\ UNCHANGED <<clock, files, settings, size, disk, background, root, window, notices, raced, early, changes>>

(* ---------------------------------------------------------- GfBackground -- *)
(* Idle sources run in the order they were added: the caches go first, and    *)
(* those that wait run in one turn of the main loop, without an event between *)
(* them. The file may change after it was read and before its scaled picture  *)
(* is saved.                                                                  *)
Touch(f, time) ==
    /\ changes < MaxChanges /\ changes' = changes + 1
    /\ files' = [files EXCEPT ![f] = [content |-> [@.content EXCEPT !.version = @ + 1], mtime |-> time]]
    /\ notices' = [notices EXCEPT !.file = @ \/ bg.filename = f]
SetRoot(picture) == root' = picture
Change ==
    /\ background.change # "none" /\ ~bg.blow
    /\ LET w == Drawing
       IN  /\ bg' = [bg EXCEPT !.pixbuf = w.pixbuf, !.cache = w.cache, !.blow = TRUE,
                               !.mtime = Mtime(bg.filename)]
           /\ background' = IF background.change = "fade"
                            THEN [background EXCEPT !.change = "none", !.fade = w.drawn]
                            ELSE [change |-> "none", fade |-> <<>>]
           /\ SetRoot(IF background.change = "fade" THEN root ELSE w.drawn)
           /\ \E time \in {clock, clock + 1}, touched \in BOOLEAN :
                 /\ time <= MaxTime
                 /\ clock' = time
                 /\ disk' = [m \in 1 .. Monitors |->
                               IF w.saved[m] = disk[m] THEN disk[m] ELSE [w.saved[m] EXCEPT !.mtime = time]]
                 /\ IF touched THEN Touch(bg.filename, clock) ELSE UNCHANGED <<files, notices, changes>>
                 /\ raced' = IF w.saved[1] = disk[1] THEN raced ELSE touched /\ time > clock
    /\ early' = window.move
    /\ UNCHANGED <<settings, size, window>>

(* fade_cb, at the end of the fade.  The root pixmap is changed last.         *)
FadeEnds ==
    /\ background.fade # <<>>
    /\ background' = [background EXCEPT !.fade = <<>>]
    /\ SetRoot(background.fade)
    /\ UNCHANGED <<clock, files, settings, size, bg, disk, window, notices, raced, early, changes>>

(* move_resize_cb: a new size of all monitors, from left to right, changes    *)
(* the background at once.                                                    *)
Together(s) == <<FoldLeft(+, 0, [m \in DOMAIN s |-> s[m][1]]), FoldLeft(Larger, 0, [m \in DOMAIN s |-> s[m][2]])>>
Whole == Together(size)
MoveResize ==
    /\ window.move
    /\ window' = [window EXCEPT !.size = Whole, !.move = FALSE]
    /\ background' = IF window.size = Whole THEN background ELSE QueueChange(background, "plain")
    /\ early' = FALSE
    /\ UNCHANGED <<clock, files, settings, size, bg, disk, root, notices, raced, changes>>

(* ----------------------------------------------------------- the outside -- *)
Ticks == clock < MaxTime /\ clock' = clock + 1
         /\ UNCHANGED <<files, settings, size, bg, disk, background, root, window, notices, raced, early, changes>>

(* Its content changes now; a file that keeps an older time would not do.     *)
FileTouched ==
    /\ \E f \in Files : Touch(f, clock)
    /\ UNCHANGED <<clock, settings, size, bg, disk, background, root, window, raced, early>>

SettingsTouched ==
    /\ \E scheme \in {"light", "dark"}, p \in Placements :
          settings' = [settings EXCEPT !.scheme = scheme, !.placement = p]
    /\ settings' # settings
    /\ notices' = [notices EXCEPT !.settings = TRUE]
    /\ UNCHANGED <<clock, files, size, bg, disk, background, root, window, raced, early, changes>>

MonitorResized ==
    /\ ~early /\ changes < MaxChanges /\ changes' = changes + 1
    /\ \E m \in 1 .. Monitors, s \in Sizes : s # size[m] /\ size' = [size EXCEPT ![m] = s]
    /\ window' = [window EXCEPT !.move = TRUE]
    /\ UNCHANGED <<clock, files, settings, bg, disk, background, root, notices, raced, early>>

Init ==
    /\ clock = 1
    /\ files = [f \in Files |-> [content |-> [file |-> f, version |-> 0], mtime |-> 1]]
    /\ \E p \in Placements :
          /\ settings = [scheme |-> "light", placement |-> p]
          /\ bg = [filename |-> Light, placement |-> p, mtime |-> 1, pixbuf |-> Nothing, cache |-> Nothing,
                   changed |-> TRUE, blow |-> FALSE]
    /\ \E s \in Sizes : size = [m \in 1 .. Monitors |-> s]
    /\ disk = [m \in 1 .. Monitors |-> NoEntry]
    /\ background = [change |-> "none", fade |-> <<>>] /\ root = <<>>
    /\ window = [size |-> Whole, move |-> FALSE]
    /\ notices = [settings |-> FALSE, file |-> FALSE] /\ raced = FALSE /\ early = FALSE /\ changes = 0

Next ==
    \/ SettingsChanged \/ FileChanged \/ Changed \/ BlowCaches \/ Change \/ FadeEnds \/ MoveResize
    \/ Ticks \/ FileTouched \/ SettingsTouched \/ MonitorResized
Spec == Init /\ [][Next]_vars

(* ------------------------------------------------------------- properties - *)
Quiet ==
    /\ ~bg.changed /\ background.change = "none" /\ background.fade = <<>>
    /\ ~window.move /\ ~notices.settings /\ ~notices.file

TypeOK ==
    /\ clock \in 1 .. MaxTime /\ bg.filename \in Files /\ bg.placement \in Placements
    /\ background.change \in {"none", "fade", "plain"}
    /\ bg.pixbuf # Nothing => bg.blow

(* Once every source ran, the root shows on every monitor the present content *)
(* of the chosen file, placed as the settings say now, whatever was drawn     *)
(* before and is kept in the caches, and what it shows fills as much as the   *)
(* monitors do together, however resizes and drawings overtake each other. On *)
(* the first monitor the picture is scaled once, from the file; on the others *)
(* at most once more, from what the first shows. The monitors that changed    *)
(* places keep the pictures of each other, as the size of all stays; and a    *)
(* file that changed before its scaled picture was saved, with a later time,  *)
(* is not shown until that picture is made anew.                              *)
RootShowsTheFile ==
    Quiet /\ ~raced =>
        /\ Together([m \in 1 .. Monitors |-> root[m].size]) = Whole
        /\ \A m \in 1 .. Monitors :
              LET first == <<root[1].size, settings.placement>>
                  last == <<root[m].size, settings.placement>>
              IN  /\ root[m].content = files[Chosen].content
                  /\ root[m].steps \in (IF m = 1 THEN {<<first>>} ELSE {<<last>>, <<first, last>>})

=============================================================================
