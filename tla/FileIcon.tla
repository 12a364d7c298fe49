------------------------------ MODULE FileIcon ------------------------------
(* What an icon of the desktop shows: the information of its file is asked    *)
(* for when the file changes, a thumbnail is made in a thread, and both come  *)
(* back later (GfIcon); the trash also asks whether it is empty (GfTrashIcon).*)
EXTENDS Integers, FiniteSets

CONSTANTS Kinds,          \* "document", "launcher", or "bare": a launcher without an icon
          MaxChanges

VARIABLES
    file,      \* the file: its kind and its version
    info,      \* priv->info: the file as it was when it was asked about
    app,       \* priv->app_info has an icon
    thumbnail, \* priv->thumbnail: the version it was made for, 0 for none
    loads,     \* the versions of the thumbnails in the making that are not cancelled
    query,     \* a g_file_query_info_async that is not cancelled
    event,     \* the kinds of change the file monitor will tell
    trash      \* the trash: files in it, what it told, the check of it and whether it failed, empty

vars == <<file, info, app, thumbnail, loads, query, event, trash>>

(* load_thumbnail; the load before goes on.                                   *)
LoadsAnyway(version) == loads \cup {version}
Loads(version) == {version}

(* update_icon and gf_icon_get_icon                                           *)
UpdateIcon == loads' = IF thumbnail' # 0 \/ app' THEN loads ELSE Loads(info'.version)

(* icon_refresh                                                               *)
Refresh ==
    /\ app' = (file.kind = "launcher" /\ info'.kind # "document")
    /\ thumbnail' = 0
    /\ UpdateIcon

(* file_changed_cb: a change of the content refreshes the icon from what is   *)
(* known, a change of the attributes asks again.                              *)
FileChanged ==
    /\ "content" \in event
    /\ event' = event \ {"content"}
    /\ info' = info /\ Refresh
    /\ UNCHANGED <<file, query, trash>>
IconUpdate ==
    /\ "attributes" \in event
    /\ event' = event \ {"attributes"} /\ query' = TRUE
    /\ UNCHANGED <<file, info, app, thumbnail, loads, trash>>

(* query_info_cb; a query that failed leaves what was known.                  *)
QueryInfo ==
    /\ query
    /\ query' = FALSE
    /\ \/ info' = file /\ Refresh
       \/ UNCHANGED <<info, app, thumbnail, loads>>
    /\ UNCHANGED <<file, event, trash>>

ThumbnailReady ==
    \E version \in loads, made \in BOOLEAN :
        /\ loads' = loads \ {version}
        /\ thumbnail' = IF made THEN version ELSE thumbnail
        /\ UNCHANGED <<file, info, app, query, event, trash>>

(* set_icon_size                                                              *)
Resize ==
    /\ UNCHANGED <<info, app, thumbnail>> /\ UpdateIcon
    /\ UNCHANGED <<file, query, event, trash>>

(* ------------------------------------------------------------- the trash --- *)
Checks == {"enumerate"}

TrashChanged ==
    /\ trash.told # {}
    /\ trash' = [trash EXCEPT !.told = {}, !.checks = Checks, !.failed = FALSE]
    /\ query' = TRUE
    /\ UNCHANGED <<file, info, app, thumbnail, loads, event>>

(* enumerate_children_cb: empty, until the first file was read; an error      *)
(* leaves the icon as it was.                                                 *)
EnumerateChildren ==
    /\ "enumerate" \in trash.checks
    /\ \/ trash' = [trash EXCEPT !.checks = (@ \ {"enumerate"}) \cup {"next"}, !.empty = TRUE]
       \/ trash' = [trash EXCEPT !.checks = @ \ {"enumerate"}, !.failed = TRUE]
    /\ UNCHANGED <<file, info, app, thumbnail, loads, query, event>>

Answer(n) == IF n = 0 THEN "none" ELSE "some"
NextFilesRead ==
    /\ "next" \in trash.checks
    /\ \E a \in {Answer(trash.files), "error"} : trash' = [trash EXCEPT !.checks = (@ \ {"next"}) \cup {a}]
    /\ UNCHANGED <<file, info, app, thumbnail, loads, query, event>>

(* next_files_cb; after an error the trash stays empty, whatever is in it.    *)
NextFiles ==
    \E a \in {"none", "some", "error"} \cap trash.checks :
        /\ trash' = [trash EXCEPT !.checks = @ \ {a}, !.failed = (a = "error"),
                                  !.empty = IF a = "error" THEN @ ELSE a = "none"]
        /\ UNCHANGED <<file, info, app, thumbnail, loads, query, event>>

(* ------------------------------------------------------------ the outside -- *)
Written ==
    /\ file.version < MaxChanges
    /\ \E kind \in Kinds : file' = [kind |-> kind, version |-> file.version + 1]
    /\ \E told \in {{"content"}, {"attributes"}, {"content", "attributes"}} : event' = event \cup told
    /\ UNCHANGED <<info, app, thumbnail, loads, query, trash>>

Trashed ==
    /\ trash.changes < MaxChanges
    /\ \E n \in 0 .. 2 :
          /\ n \in {trash.files - 1, trash.files + 1}
          /\ trash' = [trash EXCEPT !.files = n, !.told = {"changed"}, !.changes = @ + 1]
    /\ UNCHANGED <<file, info, app, thumbnail, loads, query, event>>

Init ==
    /\ \E kind \in Kinds : file = [kind |-> kind, version |-> 1]
    /\ info = file /\ app = (file.kind = "launcher") /\ thumbnail = 0
    /\ loads = (IF app THEN {} ELSE {1}) /\ query = FALSE /\ event = {}
    /\ trash = [files |-> 0, told |-> {}, checks |-> {"enumerate"}, failed |-> FALSE, empty |-> TRUE,
                changes |-> 0]

Next ==
    \/ FileChanged \/ IconUpdate \/ QueryInfo \/ ThumbnailReady \/ Resize
    \/ TrashChanged \/ EnumerateChildren \/ NextFilesRead \/ NextFiles
    \/ Written \/ Trashed
Spec == Init /\ [][Next]_vars

(* ------------------------------------------------------------ properties --- *)
TypeOK ==
    /\ file.kind \in Kinds /\ info.kind \in Kinds /\ loads \subseteq 1 .. MaxChanges
    /\ thumbnail \in 0 .. MaxChanges /\ event \subseteq {"content", "attributes"}

(* While a thumbnail is made none is there, which thumbnail_ready_cb asserts, *)
(* and a file that is no launcher never shows the thumbnail of another        *)
(* version than the one its information is of.                                *)
ThumbnailFits ==
    /\ loads # {} => thumbnail = 0
    /\ thumbnail # 0 /\ info.kind = "document" /\ file.kind = "document" => thumbnail = info.version

(* When the trash said nothing new and the last check came through, the icon  *)
(* knows whether the trash is empty, however the checks overlapped. A check   *)
(* that failed is not made again, and the icon stays wrong until the trash    *)
(* changes.                                                                   *)
TrashIsKnown ==
    trash.told = {} /\ trash.checks = {} /\ ~trash.failed => (trash.empty <=> trash.files = 0)

(* The one load that is not cancelled is for what the information says, and   *)
(* the one check of the trash that is on its way will find what there is now. *)
IconInv ==
    /\ file \in [kind : Kinds, version : 1 .. MaxChanges] /\ info \in [kind : Kinds, version : 1 .. MaxChanges]
    /\ event \subseteq {"content", "attributes"} /\ thumbnail \in 0 .. MaxChanges
    /\ loads = {} \/ \E version \in 1 .. MaxChanges : loads = {version} /\ thumbnail = 0
    /\ info.kind = "document" => loads \subseteq {info.version} /\ thumbnail \in {0, info.version}
    /\ trash \in [files : Int, told : SUBSET {"changed"}, checks : SUBSET {"enumerate", "next", "none", "some", "error"},
                  failed : BOOLEAN, empty : BOOLEAN, changes : Nat]
    /\ trash.told = {} =>
          \/ trash.checks = {} /\ (trash.failed \/ (trash.empty <=> trash.files = 0))
          \/ \E c \in {"enumerate", "next", "error", Answer(trash.files)} : trash.checks = {c}

=============================================================================
