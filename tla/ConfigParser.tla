---------------------------- MODULE ConfigParser -----------------------------
(***************************************************************************)
(* The parser of monitors.xml in gf-monitor-config-store.c: ConfigParser,  *)
(* whose handlers are called for the start of an element, for its text and *)
(* for its end, and what it leaves in the store.                           *)
(*                                                                         *)
(* Here the file is written while it is read: an environment opens and     *)
(* closes elements, in any order GMarkup lets through, and the handlers    *)
(* react.  Fields that are read alike are one element: connector stands    *)
(* for the four of a monitorspec, width for those of a mode, x for the     *)
(* plain ones of a logicalmonitor.  The verdict on the places of a         *)
(* configuration is that of module LayoutConversion and is free here.      *)
(***************************************************************************)
EXTENDS Integers, Sequences, SequencesExt

CONSTANTS
    Files,       \* the files that are read in turn: "system" or "user"
    Specs,       \* monitors that are named in a file
    MaxEntries,  \* bound: logical monitors of a file
    MaxConfigs   \* bound: configurations of a file

VARIABLES
    file,     \* how many files were begun
    open,     \* GMarkup: the elements that are open, with the children they had
    parser,   \* the ConfigParser
    policy,   \* of the store: has_stores_policy and the rest
    doc,      \* history: what the configuration that is open says
    last      \* history: the configuration that was stored last, and its doc

vars == <<file, open, parser, policy, doc, last>>

Null == "null"      \* a pointer that is NULL
Blank == "blank"    \* a spec or a mode whose fields are not all set
NamedSpecs == Null \notin Specs /\ Blank \notin Specs

(* states that are an end of the reading                                   *)
Ends == {"done", "error", "aborted", "crashed"}

(* the children that each state knows, and the state each leads to         *)
Children ==
    [INITIAL |-> [monitors |-> "MONITORS"],
     MONITORS |-> [configuration |-> "CONFIGURATION", policy |-> "POLICY"],
     CONFIGURATION |-> [logicalmonitor |-> "LOGICAL_MONITOR",
                        layoutmode |-> "LAYOUT_MODE", disabled |-> "DISABLED"],
     LOGICAL_MONITOR |-> [x |-> "LOGICAL_MONITOR_X", transform |-> "TRANSFORM",
                          monitor |-> "MONITOR"],
     TRANSFORM |-> [rotation |-> "TRANSFORM_ROTATION"],
     MONITOR |-> [monitorspec |-> "MONITOR_SPEC", mode |-> "MONITOR_MODE",
                  maxbpc |-> "MONITOR_MAXBPC"],
     MONITOR_SPEC |-> [connector |-> "MONITOR_SPEC_CONNECTOR"],
     MONITOR_MODE |-> [width |-> "MONITOR_MODE_WIDTH"],
     DISABLED |-> [monitorspec |-> "MONITOR_SPEC"],
     POLICY |-> [stores |-> "STORES", dbus |-> "DBUS"],
     STORES |-> [store |-> "STORE"]]

(* an unknown child of these is skipped; that of another one is an error,  *)
(* but for TRANSFORM                                                       *)
Lenient == {"MONITORS", "CONFIGURATION", "LOGICAL_MONITOR", "POLICY", "STORES"}

(* the state that the end of an element without an effect leads to         *)
Parents ==
    [LOGICAL_MONITOR_X |-> "LOGICAL_MONITOR", TRANSFORM_ROTATION |-> "TRANSFORM",
     MONITOR_SPEC_CONNECTOR |-> "MONITOR_SPEC", MONITOR_MODE_WIDTH |-> "MONITOR_MODE",
     MONITOR_MAXBPC |-> "MONITOR", LAYOUT_MODE |-> "CONFIGURATION",
     DISABLED |-> "CONFIGURATION", POLICY |-> "MONITORS", MONITORS |-> "INITIAL"]

Elements == UNION {DOMAIN Children[s] : s \in DOMAIN Children} \cup {"unknown"}
Repeated == {"configuration", "logicalmonitor", "monitor", "policy", "stores", "store"}

NewMonitor == [spec |-> Null, mode |-> Null]
NewLogical == [monitors |-> <<>>, turned |-> FALSE]
Nothing == [logical |-> <<>>, disabled |-> <<>>]
NoConfig == [config |-> Nothing, doc |-> Nothing]

(* read_config_file: the parser of a file                                  *)
NewParser(flags) ==
    [state |-> "INITIAL", flags |-> flags, parent |-> Null, root |-> Null, level |-> 0,
     layoutValid |-> FALSE, logical |-> <<>>, disabled |-> <<>>,
     current |-> NewLogical, monitor |-> NewMonitor, spec |-> Null, mode |-> Null,
     turned |-> FALSE, seen |-> {}, pendingStore |-> Null, stores |-> <<>>,
     dbus |-> FALSE, pending |-> 0, update |-> FALSE]

NoPolicy == [hasStores |-> FALSE, stores |-> <<>>, hasDbus |-> FALSE, dbus |-> TRUE]

Path == [i \in DOMAIN open |-> open[i].name]
At(end) == [NewParser(parser.flags) EXCEPT !.state = end]   \* all of it is freed
Error == At("error")
Abort == At("aborted")

-----------------------------------------------------------------------------
(* handle_start_element                                                    *)

Known(e) == parser.state \in DOMAIN Children /\ e \in DOMAIN Children[parser.state]

(* A file has an element twice only where that makes sense, and one child  *)
(* that is unknown where it stands, with one element inside.               *)
MayOpen(e) ==
    /\ \/ Known(e)
       \/ e = "unknown" /\ open # <<>> /\ parser.level = 0
       \/ e = "configuration" /\ parser.level = 1
    /\ IF open = <<>> THEN e = "monitors" /\ parser.pending = 0
       ELSE e \notin Last(open).had
    /\ e = "unknown" => "unknown" \notin open[1].had
    /\ e = "configuration" => parser.pending < MaxConfigs
    /\ e = "logicalmonitor" => Len(last.doc.logical) + Len(doc.logical) < MaxEntries
    /\ e = "monitor" /\ doc.logical # <<>> => Last(doc.logical).monitors = <<>>

Opened(e) ==
    LET had == [i \in DOMAIN open |->
                 [open[i] EXCEPT !.had = IF (i = Len(open) /\ e \notin Repeated) \/ e = "unknown"
                                         THEN @ \cup {e} ELSE @]]
    IN  open' = Append(had, [name |-> e, had |-> {}])

(* what a known child does before its text comes                           *)
Entered(e) ==
    LET p == [parser EXCEPT !.state = Children[parser.state][e]]
    IN  CASE e = "configuration" -> [p EXCEPT !.layoutValid = FALSE]
          [] e = "logicalmonitor" -> [p EXCEPT !.current = NewLogical]
          [] e = "monitor" -> [p EXCEPT !.monitor = NewMonitor]
          [] e = "monitorspec" -> [p EXCEPT !.spec = Blank, !.parent = parser.state]
          [] e = "mode" -> [p EXCEPT !.mode = Blank]
          [] e \in {"policy", "stores", "dbus"} -> [p EXCEPT !.seen = @ \cup {e}]
          [] OTHER -> p

(* enter_unknown_element                                                   *)
Unknown(e) == [parser EXCEPT !.state = "UNKNOWN", !.level = 1, !.root = parser.state]

StartElement(e) ==
    /\ parser.state \notin Ends /\ MayOpen(e)
    /\ parser' =
         IF parser.state = "UNKNOWN" THEN [parser EXCEPT !.level = @ + 1]
         ELSE IF parser.state = "POLICY" /\ parser.flags # "system" THEN Error
         ELSE IF e \in parser.seen THEN Error
         ELSE IF Known(e) THEN Entered(e)
         ELSE IF parser.state \in Lenient THEN Unknown(e)
         ELSE IF parser.state = "TRANSFORM" THEN parser
         ELSE Error
    /\ Opened(e)
    /\ doc' = IF Path = <<"monitors">> /\ e = "configuration" THEN Nothing
              ELSE IF Path = <<"monitors", "configuration">> /\ e = "logicalmonitor"
              THEN [doc EXCEPT !.logical = Append(@, NewLogical)] ELSE doc
    /\ UNCHANGED <<file, policy, last>>

-----------------------------------------------------------------------------
(* handle_text: once per element                                           *)

Configuration == <<"monitors", "configuration">>
Logical == Configuration \o <<"logicalmonitor">>

(* what the file says, as a reader of it sees                              *)
Said(text) ==
    LET n == Len(doc.logical)
    IN  CASE Path = Logical \o <<"monitor", "monitorspec", "connector">> ->
               [doc EXCEPT !.logical[n].monitors = Append(@, text)]
          [] Path = Configuration \o <<"disabled", "monitorspec", "connector">> ->
               [doc EXCEPT !.disabled = Append(@, text)]
          [] Path = Logical \o <<"transform", "rotation">> ->
               [doc EXCEPT !.logical[n].turned = TRUE]
          [] OTHER -> doc

Read(text) ==
    CASE parser.state = "LAYOUT_MODE" -> [parser EXCEPT !.layoutValid = TRUE]
      [] parser.state = "MONITOR_SPEC_CONNECTOR" -> [parser EXCEPT !.spec = text]
      [] parser.state = "MONITOR_MODE_WIDTH" -> [parser EXCEPT !.mode = "mode"]
      [] parser.state = "TRANSFORM_ROTATION" -> [parser EXCEPT !.turned = TRUE]
      [] parser.state = "STORE" -> IF parser.pendingStore = Null
                                   THEN [parser EXCEPT !.pendingStore = text] ELSE Error
      [] parser.state = "DBUS" -> [parser EXCEPT !.dbus = text = "yes"]

Texts ==
    CASE parser.state = "MONITOR_SPEC_CONNECTOR" -> Specs
      [] parser.state = "STORE" -> {"system", "user"}
      [] parser.state = "DBUS" -> {"yes", "no"}
      [] OTHER -> {"text"}

Text ==
    /\ parser.state \in {"LAYOUT_MODE", "MONITOR_SPEC_CONNECTOR", "MONITOR_MODE_WIDTH",
                         "TRANSFORM_ROTATION", "STORE", "DBUS"}
    /\ "text" \notin Last(open).had
    /\ open' = [open EXCEPT ![Len(open)].had = @ \cup {"text"}]
    /\ \E text \in Texts : parser' = Read(text) /\ doc' = Said(text)
    /\ UNCHANGED <<file, policy, last>>

(* a text that a state cannot read, and whatever GMarkup refuses           *)
Malformed ==
    /\ parser.state \notin Ends
    /\ parser' = Error /\ open' = <<>>
    /\ doc' = Nothing /\ last' = NoConfig
    /\ UNCHANGED <<file, policy>>

-----------------------------------------------------------------------------
(* handle_end_element                                                      *)

Name == Last(open).name

(* the element that g_assert expects at the end in a state                 *)
Asserted ==
    [TRANSFORM |-> "transform", MONITOR_SPEC |-> "monitorspec", MONITOR_MODE |-> "mode",
     MONITOR_MAXBPC |-> "maxbpc", MONITOR |-> "monitor", LOGICAL_MONITOR |-> "logicalmonitor",
     DISABLED |-> "disabled", CONFIGURATION |-> "configuration", STORE |-> "store",
     STORES |-> "stores", POLICY |-> "policy", MONITORS |-> "monitors"]

AssertFails == parser.state \in DOMAIN Asserted /\ Asserted[parser.state] # Name

(* the end of an element, in a state from which the parser goes on as p    *)
Leaves(state, p) ==
    /\ parser.state = state /\ ~AssertFails
    /\ parser' = p
    /\ open' = Front(open)
    /\ UNCHANGED <<file, doc>>

(* g_assert (g_str_equal (element_name, ...)) aborts the process           *)
EndAborts ==
    /\ AssertFails /\ parser' = Abort
    /\ UNCHANGED <<file, open, policy, doc, last>>

EndPlain ==
    /\ parser.state \in DOMAIN Parents \ {"TRANSFORM"} /\ open # <<>>
    /\ Leaves(parser.state, [parser EXCEPT !.state = Parents[parser.state]])
    /\ UNCHANGED <<policy, last>>

(* Mutant: the transform is kept for the next logical monitor.             *)
EndTransformKeeping ==
    /\ Leaves("TRANSFORM", [parser EXCEPT !.current.turned = parser.turned,
                                          !.state = "LOGICAL_MONITOR"])
    /\ UNCHANGED <<policy, last>>

EndTransform ==
    /\ Leaves("TRANSFORM", [parser EXCEPT !.current.turned = parser.turned,
                                          !.turned = FALSE, !.state = "LOGICAL_MONITOR"])
    /\ UNCHANGED <<policy, last>>

(* finish_monitor_spec: the spec goes where its element stands             *)
FinishMonitorSpec ==
    LET p == [parser EXCEPT !.spec = Null, !.state = parser.parent]
    IN  IF parser.parent = "MONITOR" THEN [p EXCEPT !.monitor.spec = parser.spec]
        ELSE [p EXCEPT !.disabled = Append(@, parser.spec)]

(* gf_verify_monitor_spec refuses one whose fields are not all set         *)
EndMonitorSpec ==
    /\ Leaves("MONITOR_SPEC", IF parser.spec = Blank THEN Error ELSE FinishMonitorSpec)
    /\ UNCHANGED <<policy, last>>

EndMonitorMode ==
    /\ Leaves("MONITOR_MODE",
         IF parser.mode = Blank THEN Error
         ELSE [parser EXCEPT !.monitor.mode = parser.mode, !.mode = Null, !.state = "MONITOR"])
    /\ UNCHANGED <<policy, last>>

(* gf_verify_monitor_config                                                *)
EndMonitor ==
    /\ Leaves("MONITOR",
         IF Null \in {parser.monitor.spec, parser.monitor.mode} THEN Error
         ELSE [parser EXCEPT !.current.monitors = Append(@, parser.monitor.spec),
                             !.monitor = NewMonitor, !.state = "LOGICAL_MONITOR"])
    /\ UNCHANGED <<policy, last>>

EndLogicalMonitor ==
    /\ Leaves("LOGICAL_MONITOR",
         [parser EXCEPT !.logical = Append(@, parser.current), !.current = NewLogical,
                        !.state = "CONFIGURATION"])
    /\ UNCHANGED <<policy, last>>

(* the configurations of the layout modes that fit go to pending_configs   *)
Stored(p) ==
    [p EXCEPT !.logical = <<>>, !.disabled = <<>>, !.pending = @ + 1,
              !.update = @ \/ ~p.layoutValid, !.state = "MONITORS"]

(* detect_layout_mode_configs, or derive_logical_monitor_layouts and       *)
(* gf_verify_monitors_config for the mode that is named.  Both take the    *)
(* first monitor of each logical monitor without a look at the list, which *)
(* may be empty: a NULL pointer is dereferenced.                           *)
EndConfiguration ==
    /\ LET empty == \E i \in DOMAIN parser.logical : parser.logical[i].monitors = <<>>
           lit == UNION {ToSet(parser.logical[i].monitors) : i \in DOMAIN parser.logical}
           mayFit == parser.logical # <<>> /\ lit \cap ToSet(parser.disabled) = {}
       IN  \E fits \in {FALSE, mayFit} :
             /\ Leaves("CONFIGURATION", IF empty THEN At("crashed")
                                        ELSE IF fits THEN Stored(parser) ELSE Error)
             /\ last' = IF fits /\ ~empty
                        THEN [config |-> [logical |-> parser.logical,
                                          disabled |-> parser.disabled], doc |-> doc]
                        ELSE last
    /\ UNCHANGED policy

EndStore ==
    /\ Leaves("STORE",
         IF parser.pendingStore = Null \/ parser.pendingStore \in ToSet(parser.stores)
         THEN Error
         ELSE [parser EXCEPT !.stores = Append(@, parser.pendingStore),
                             !.pendingStore = Null, !.state = "STORES"])
    /\ UNCHANGED <<policy, last>>

(* Mutant: the policy that is read last counts.                            *)
EndStoresAgain ==
    /\ Leaves("STORES", [parser EXCEPT !.stores = <<>>, !.state = "POLICY"])
    /\ policy' = [policy EXCEPT !.hasStores = TRUE, !.stores = parser.stores]
    /\ UNCHANGED last

(* the first policy that is read stays                                     *)
EndStores ==
    /\ Leaves("STORES", [parser EXCEPT !.stores = <<>>, !.state = "POLICY"])
    /\ policy' = IF policy.hasStores THEN policy
                 ELSE [policy EXCEPT !.hasStores = TRUE, !.stores = parser.stores]
    /\ UNCHANGED last

EndDbus ==
    /\ Leaves("DBUS", [parser EXCEPT !.state = "POLICY"])
    /\ policy' = IF policy.hasDbus THEN policy
                 ELSE [policy EXCEPT !.hasDbus = TRUE, !.dbus = parser.dbus]
    /\ UNCHANGED last

EndUnknown ==
    /\ Leaves("UNKNOWN",
         IF parser.level > 1 THEN [parser EXCEPT !.level = @ - 1]
         ELSE [parser EXCEPT !.level = 0, !.state = parser.root, !.root = Null])
    /\ UNCHANGED <<policy, last>>

EndElement ==
    \/ EndAborts \/ EndPlain \/ EndTransform \/ EndMonitorSpec \/ EndMonitorMode
    \/ EndMonitor \/ EndLogicalMonitor \/ EndConfiguration \/ EndStore \/ EndStores
    \/ EndDbus \/ EndUnknown

-----------------------------------------------------------------------------
(* read_config_file                                                        *)

(* The reader does not ask GMarkup whether the document is complete: a     *)
(* file that was cut short gives the configurations that it still has.     *)
EndOfFile ==
    /\ parser.state \notin Ends
    /\ parser' = At("done") /\ open' = <<>>
    /\ doc' = Nothing /\ last' = NoConfig
    /\ UNCHANGED <<file, policy>>

ReadFile ==
    /\ parser.state \in {"done", "error"} /\ file < Len(Files)
    /\ file' = file + 1
    /\ open' = <<>> /\ parser' = NewParser(Files[file + 1])
    /\ doc' = Nothing /\ last' = NoConfig
    /\ UNCHANGED policy

Init ==
    /\ file = 1 /\ open = <<>> /\ parser = NewParser(Files[1])
    /\ policy = NoPolicy
    /\ doc = Nothing /\ last = NoConfig

Next ==
    \/ \E e \in Elements : StartElement(e)
    \/ Text \/ EndElement \/ Malformed \/ EndOfFile \/ ReadFile

Spec == Init /\ [][Next]_vars

-----------------------------------------------------------------------------
(* Properties                                                              *)

(* The type invariant: the state of the parser is one its tables know, and *)
(* it is deep in unknown elements only while it knows where they began.    *)
TypeOK ==
    /\ parser.state \in DOMAIN Children \cup DOMAIN Parents \cup Ends
                        \cup {"UNKNOWN", "STORE", "DBUS", "MONITOR_MODE", "MONITOR_SPEC"}
    /\ parser.level > 0 <=> parser.root # Null
    /\ \A spec \in ToSet(parser.disabled) : spec \in Specs
    /\ policy.hasStores \/ policy.stores = <<>>

(* The invariant that this rests on.  Where the parser is, an unknown      *)
(* element aside:                                                          *)
Place == IF parser.state = "UNKNOWN" THEN parser.root ELSE parser.state
InSpec == Place \in {"MONITOR_SPEC", "MONITOR_SPEC_CONNECTOR"}
InMonitor == Place \in {"MONITOR", "MONITOR_MODE", "MONITOR_MODE_WIDTH", "MONITOR_MAXBPC"}
InTransform == Place \in {"TRANSFORM", "TRANSFORM_ROTATION"}
InLogical ==
    \/ Place \in {"LOGICAL_MONITOR", "LOGICAL_MONITOR_X"}
    \/ InTransform \/ InMonitor
    \/ InSpec /\ parser.parent = "MONITOR"
InDisabled == Place = "DISABLED" \/ (InSpec /\ parser.parent = "DISABLED")
InConfiguration == Place \in {"CONFIGURATION", "LAYOUT_MODE"} \/ InDisabled \/ InLogical

(* the elements that lead to a place; a monitorspec stands in two          *)
Ways(parent) ==
    [INITIAL |-> <<>>, MONITORS |-> <<"monitors">>,
     POLICY |-> <<"monitors", "policy">>,
     DBUS |-> <<"monitors", "policy", "dbus">>,
     STORES |-> <<"monitors", "policy", "stores">>,
     STORE |-> <<"monitors", "policy", "stores", "store">>,
     CONFIGURATION |-> <<"monitors", "configuration">>,
     LAYOUT_MODE |-> <<"monitors", "configuration", "layoutmode">>,
     DISABLED |-> <<"monitors", "configuration", "disabled">>,
     LOGICAL_MONITOR |-> <<"monitors", "configuration", "logicalmonitor">>,
     LOGICAL_MONITOR_X |-> <<"monitors", "configuration", "logicalmonitor", "x">>,
     TRANSFORM |-> <<"monitors", "configuration", "logicalmonitor", "transform">>,
     TRANSFORM_ROTATION |->
        <<"monitors", "configuration", "logicalmonitor", "transform", "rotation">>,
     MONITOR |-> <<"monitors", "configuration", "logicalmonitor", "monitor">>,
     MONITOR_MAXBPC |-> <<"monitors", "configuration", "logicalmonitor", "monitor", "maxbpc">>,
     MONITOR_MODE |-> <<"monitors", "configuration", "logicalmonitor", "monitor", "mode">>,
     MONITOR_MODE_WIDTH |->
        <<"monitors", "configuration", "logicalmonitor", "monitor", "mode", "width">>,
     MONITOR_SPEC |->
        IF parent = "DISABLED" THEN <<"monitors", "configuration", "disabled", "monitorspec">>
        ELSE <<"monitors", "configuration", "logicalmonitor", "monitor", "monitorspec">>,
     MONITOR_SPEC_CONNECTOR |->
        IF parent = "DISABLED"
        THEN <<"monitors", "configuration", "disabled", "monitorspec", "connector">>
        ELSE <<"monitors", "configuration", "logicalmonitor", "monitor", "monitorspec", "connector">>]

OnTheWay ==
    /\ Place \in DOMAIN Ways(parser.parent)
    /\ InSpec => parser.parent \in {"MONITOR", "DISABLED"}
    /\ LET way == Ways(parser.parent)[Place]
       IN  /\ parser.level = 0 => Path = way
           /\ parser.level = 1 => Path = Append(way, "unknown")
           /\ parser.level = 2 => Path = Append(Append(way, "unknown"), "configuration")

(* An unknown element in a transform is where handle_end_element aborts.   *)
Doomed ==
    \/ parser.state = "TRANSFORM" /\ open # <<>> /\ Name = "unknown"
    \/ parser.state = "TRANSFORM_ROTATION" /\ Len(open) > 1 /\ open[Len(open) - 1].name = "unknown"

(* What is read once is not there before it is read.                       *)
TransformOnce ==
    /\ parser.turned => InTransform
    /\ InTransform => ~parser.current.turned
    /\ InLogical /\ "transform" \notin open[3].had => ~InTransform /\ ~parser.current.turned
SpecOnce ==
    /\ InSpec /\ InLogical => parser.monitor.spec = Null /\ "monitorspec" \in open[4].had
    /\ InMonitor /\ "monitorspec" \notin open[4].had => parser.monitor.spec = Null
ConnectorOnce ==
    /\ parser.state = "MONITOR_SPEC" /\ "connector" \notin Last(open).had => parser.spec = Blank
    /\ parser.state = "MONITOR_SPEC_CONNECTOR" =>
         /\ "connector" \in open[Len(open) - 1].had
         /\ "text" \notin Last(open).had => parser.spec = Blank

(* the logical monitor that is open, with what its open elements will add  *)
Current ==
    IF InTransform THEN [parser.current EXCEPT !.turned = parser.turned]
    ELSE IF InMonitor /\ parser.monitor.spec # Null
    THEN [parser.current EXCEPT !.monitors = Append(@, parser.monitor.spec)]
    ELSE IF InSpec /\ parser.spec # Blank
    THEN [parser.current EXCEPT !.monitors = Append(@, parser.spec)]
    ELSE parser.current

LogicalMonitor == [monitors : Seq(Specs), turned : BOOLEAN]
Frame == [name : Elements, had : SUBSET (Elements \cup {"text"})]

(* what was read so far is what the file said so far                       *)
SaysTheSame ==
    IF InConfiguration
    THEN /\ doc.logical = IF InLogical THEN Append(parser.logical, Current) ELSE parser.logical
         /\ doc.disabled = IF InDisabled /\ InSpec /\ parser.spec # Blank
                           THEN Append(parser.disabled, parser.spec) ELSE parser.disabled
    ELSE parser.logical = <<>> /\ parser.disabled = <<>>

Typed ==
    /\ DOMAIN parser = DOMAIN NewParser("user")
    /\ parser.logical \in Seq(LogicalMonitor) /\ parser.disabled \in Seq(Specs)
    /\ parser.current \in LogicalMonitor /\ parser.turned \in BOOLEAN
    /\ parser.monitor \in [spec : Specs \cup {Null}, mode : {"mode", Null}]
    /\ parser.spec \in Specs \cup {Null, Blank} /\ (InSpec => parser.spec # Null)
    /\ parser.mode \in {"mode", Null, Blank}
    /\ parser.root \in Lenient \cup {Null} /\ parser.level \in 0 .. 2
    /\ parser.level > 0 <=> parser.state = "UNKNOWN"
    /\ parser.level > 0 <=> parser.root # Null
    /\ doc \in [logical : Seq(LogicalMonitor), disabled : Seq(Specs)]
    /\ open \in Seq(Frame)

Sound ==
    Typed /\ OnTheWay /\ TransformOnce /\ SpecOnce /\ ConnectorOnce /\ SaysTheSame

Inv ==
    /\ TypeOK /\ DOMAIN policy = DOMAIN NoPolicy
    /\ parser.state \in Ends \/ (Typed /\ Doomed) \/ Sound
    /\ last.config = last.doc

(* What handle_end_element stores for a configuration is what stands       *)
(* inside its element: no monitor, transform or disabled monitor is        *)
(* carried over from another element or taken from one that is unknown.    *)
NothingCarriedOver == last.config = last.doc

(* What the policies rest on: the parser of a file of the user never is    *)
(* inside of a policy.                                                     *)
OnlySystemInPolicy ==
    /\ DOMAIN parser = DOMAIN NewParser("user") /\ DOMAIN policy = DOMAIN NoPolicy
    /\ parser.flags # "system" =>
         {parser.state, parser.root, parser.parent} \cap {"STORES", "STORE", "DBUS"} = {}

(* A policy of a system file that was read first is never replaced by one  *)
(* of a later file, and a file of the user sets none.                      *)
KeepsPolicy ==
    policy' # policy =>
        /\ parser.flags = "system"
        /\ policy.hasStores => policy'.stores = policy.stores
        /\ policy.hasDbus => policy'.dbus = policy.dbus
FirstPolicyStays == [][KeepsPolicy]_vars

(* g_assert (g_str_equal (element_name, ...)): the parser is at the end of *)
(* the element that its state is about.                                    *)
NeverAborts == parser.state # "aborted"
=============================================================================
