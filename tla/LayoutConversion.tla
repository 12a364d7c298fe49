-------------------------- MODULE LayoutConversion ---------------------------
(***************************************************************************)
(* Pure functions of gf-monitor-config-store.c and gf-monitor-config-utils.c*)
(* that verify the places of logical monitors and convert a configuration  *)
(* of physical pixels to one of logical pixels, as the store does for      *)
(* every configuration of a file that does not name its layout mode.       *)
(*                                                                         *)
(* A logical monitor is a record: x and y, the size of its mode (width and *)
(* height, turned as the monitor is) and its scale, a fraction <<n, d>>.   *)
(* A layout is a sequence of them, the GList.  Which one is primary is     *)
(* left out: there is exactly one.                                         *)
(***************************************************************************)
EXTENDS Integers, Sequences, SequencesExt, FiniteSetsExt

CONSTANTS
    Sizes,        \* <<width, height>> of the modes
    Offsets,      \* coordinates of a file
    Scales,       \* whole scales of a file
    MaxMonitors,  \* bound: logical monitors of a configuration
    GlobalScale   \* GF_MONITOR_MANAGER_CAPABILITY_GLOBAL_SCALE_REQUIRED

Monitors == {[x |-> x, y |-> y, width |-> s[1], height |-> s[2], scale |-> <<f, 1>>] :
                x \in Offsets, y \in Offsets, s \in Sizes, f \in Scales}

(* roundf (a / b)                                                          *)
Round(a, b) == (2 * a + b) \div (2 * b)

(* n / scale is whole; n / scale, rounded                                  *)
IsWhole(n, scale) == (n * scale[2]) % scale[1] = 0
Scaled(n, scale) == Round(n * scale[2], scale[1])

SameScale(s, t) == s[1] * t[2] = t[1] * s[2]

(* derive_logical_monitor_layouts: the rectangle a logical monitor takes   *)
Layout(m, mode) ==
    [x |-> m.x, y |-> m.y,
     w |-> IF mode = "logical" THEN Scaled(m.width, m.scale) ELSE m.width,
     h |-> IF mode = "logical" THEN Scaled(m.height, m.scale) ELSE m.height]

-----------------------------------------------------------------------------
(* Verification                                                            *)

Overlap(a, b) == /\ a.x < b.x + b.w /\ b.x < a.x + a.w
                 /\ a.y < b.y + b.h /\ b.y < a.y + a.h

IsAdjacentTo(a, b) ==
    \/ (a.x = b.x + b.w \/ b.x = a.x + a.w) /\ a.y < b.y + b.h /\ b.y < a.y + a.h
    \/ (a.y = b.y + b.h \/ b.y = a.y + a.h) /\ a.x < b.x + b.w /\ b.x < a.x + a.w

(* is_connected_to_all: neighbours of neighbours of the first monitor      *)
Grow(rects, seen) ==
    seen \cup {j \in DOMAIN rects : \E i \in seen : IsAdjacentTo(rects[i], rects[j])}

IsConnected(rects) ==
    FoldLeft(LAMBDA seen, r : Grow(rects, seen), {1}, rects) = DOMAIN rects

(* gf_verify_logical_monitor_config                                        *)
VerifyOne(m, mode) ==
    /\ m.x >= 0 /\ m.y >= 0
    /\ IF mode = "logical"
       THEN IsWhole(m.width, m.scale) /\ IsWhole(m.height, m.scale)
       ELSE m.scale[1] % m.scale[2] = 0

(* gf_verify_logical_monitor_config_list                                   *)
Verify(ms, mode) ==
    LET rects == [i \in DOMAIN ms |-> Layout(ms[i], mode)]
    IN  /\ ms # <<>>
        /\ \A i \in DOMAIN ms : VerifyOne(ms[i], mode)
        /\ GlobalScale => \A i, j \in DOMAIN ms : SameScale(ms[i].scale, ms[j].scale)
        /\ \A i, j \in DOMAIN ms : i < j => ~Overlap(rects[i], rects[j])
        /\ IsConnected(rects)
        /\ \E i \in DOMAIN ms : ms[i].x = 0
        /\ \E i \in DOMAIN ms : ms[i].y = 0

-----------------------------------------------------------------------------
(* Scales                                                                  *)

(* a scale near the old one that makes width n, the threshold being a tenth*)
InBounds(width, scale, n) ==
    /\ n > 0 /\ n <= width /\ width <= 4 * n
    /\ 10 * scale[2] * width < (10 * scale[1] + scale[2]) * n
    /\ 10 * scale[2] * width > (10 * scale[1] - scale[2]) * n

(* how far the scale width / n is from scale, over their common denominator*)
Distance(width, scale, n) ==
    LET d == width * scale[2] - scale[1] * n IN IF d < 0 THEN -d ELSE d

(* gf_get_closest_monitor_scale_factor_for_resolution: round i looks at    *)
(* the widths base - i and base + i, the search ends with a round that     *)
(* finds one or at the first width that is out of bounds; <<0, 1>> is none *)
ClosestScale(width, height, scale) ==
    LET base == (width * scale[2]) \div scale[1]
        Good(n) == InBounds(width, scale, n)
        Fits(n) == (height * n) % width = 0
        rounds == {i \in 0 .. base : \A k \in 0 .. i - 1 : \A n \in {base - k, base + k} :
                                        Good(n) /\ ~Fits(n)}
        hits == {n \in {base - Max(rounds), base + Max(rounds)} :
                    Good(base - Max(rounds)) /\ Good(n) /\ Fits(n)}
        Closer(n, k) == Distance(width, scale, n) * k - Distance(width, scale, k) * n
    IN  IF hits = {} THEN <<0, 1>>
        ELSE <<width, CHOOSE n \in hits : \A k \in hits : Closer(n, k) < 0 \/ n = k
                                            \/ (Closer(n, k) = 0 /\ n < k)>>

(* maybe_convert_scales                                                    *)
ConvertScale(m) ==
    LET new == ClosestScale(m.width, m.height, m.scale)
    IN  IF IsWhole(m.width, m.scale) /\ IsWhole(m.height, m.scale) THEN m
        ELSE [m EXCEPT !.scale = IF new[1] = 0 THEN <<1, 1>> ELSE new]

-----------------------------------------------------------------------------
(* Places.  Flip exchanges the axes, each function is written for a        *)
(* horizontal line.                                                        *)

Flip(m) == [m EXCEPT !.x = m.y, !.y = m.x, !.width = m.height, !.height = m.width]
FlipAll(ms) == [i \in DOMAIN ms |-> Flip(ms[i])]

(* try_convert_1_dimensional_line: the monitors are on a line ...          *)
IsLine(ms) ==
    LET Look(state, m) == IF m.x # state.lookingFor THEN state
                          ELSE [lookingFor |-> state.lookingFor + m.width,
                                found |-> state.found + 1]
        Pass(state, m) == FoldLeft(Look, state, ms)
    IN  FoldLeft(Pass, [lookingFor |-> 0, found |-> 0], ms).found = Len(ms)

(* the y at which the middle of m is the middle of prev                    *)
Centred(m, prev) ==
    prev.y + Round(prev.height * prev.scale[2], 2 * prev.scale[1])
           - Round(m.height * m.scale[2], 2 * m.scale[1])

(* ... and each is moved to the end of the one before it, centred on it    *)
ConvertLine(ms) ==
    LET Place(state, i) ==
          LET here == {k \in DOMAIN ms : state.ms[k].x = state.lookingFor}
              k == Min(here)
              m == state.ms[k]
          IN  IF here = {} THEN state
              ELSE [ms |-> [state.ms EXCEPT
                             ![k].x = state.accumulated,
                             ![k].y = IF state.prev = 0 THEN @
                                      ELSE Centred(m, state.ms[state.prev])],
                    lookingFor |-> state.lookingFor + m.width,
                    accumulated |-> state.accumulated + Scaled(m.width, m.scale),
                    prev |-> k]
    IN  FoldLeft(Place, [ms |-> ms, lookingFor |-> 0, accumulated |-> 0, prev |-> 0],
                 [i \in DOMAIN ms |-> i]).ms

(* try_convert_2d_with_baseline: an edge of the first monitor that every   *)
(* monitor has an edge on                                                  *)
Baselines(ms) ==
    {b \in {ms[1].y, ms[1].y + ms[1].height} :
        \A i \in DOMAIN ms : b \in {ms[i].y, ms[i].y + ms[i].height}}

IsBelow(m, baseline) == m.y = baseline

(* step 2: those above the line keep their lower edge on it                *)
KeepOnLine(m, baseline) ==
    IF SameScale(m.scale, <<1, 1>>) \/ IsBelow(m, baseline) THEN m
    ELSE [m EXCEPT !.y = baseline - Scaled(m.height, m.scale)]

(* step 3: one side of the line is closed up, from 0                       *)
CloseUp(ms, side) ==
    LET Place(state, i) ==
          LET rest == {k \in side : state.ms[k].x >= state.cur}
              k == CHOOSE k \in rest : \A j \in rest :
                     \/ state.ms[k].x < state.ms[j].x
                     \/ state.ms[k].x = state.ms[j].x /\ k <= j
          IN  IF rest = {} THEN state
              ELSE [ms |-> [state.ms EXCEPT ![k].x = state.cur],
                    cur |-> state.cur + Scaled(state.ms[k].width, state.ms[k].scale)]
    IN  FoldLeft(Place, [ms |-> ms, cur |-> 0], [i \in DOMAIN ms |-> i]).ms

ConvertBaseline(ms) ==
    LET baseline == Min(Baselines(ms))
        kept == [i \in DOMAIN ms |-> KeepOnLine(ms[i], baseline)]
        below == {i \in DOMAIN ms : IsBelow(kept[i], baseline)}
    IN  CloseUp(CloseUp(kept, DOMAIN ms \ below), below)

(* convert_align_on_horizontal_line                                        *)
AlignOnLine(ms) ==
    FoldLeft(LAMBDA state, m :
                [ms |-> Append(state.ms, [m EXCEPT !.x = state.x, !.y = 0]),
                 x |-> state.x + Scaled(m.width, m.scale)],
             [ms |-> <<>>, x |-> 0], ms).ms

(* adjust_for_offset                                                       *)
AdjustForOffset(ms) ==
    LET left == Min({ms[i].x : i \in DOMAIN ms})
        top == Min({ms[i].y : i \in DOMAIN ms})
    IN  [i \in DOMAIN ms |-> [ms[i] EXCEPT !.x = @ - left, !.y = @ - top]]

(* Mutant: the simple method for every layout that is no horizontal line.  *)
PlaceSimply(ms) == IF IsLine(ms) THEN ConvertLine(ms) ELSE AlignOnLine(ms)

(* the chain of algorithms of attempt_layout_mode_conversion               *)
Place(ms) ==
    IF IsLine(ms) THEN ConvertLine(ms)
    ELSE IF IsLine(FlipAll(ms)) THEN FlipAll(ConvertLine(FlipAll(ms)))
    ELSE IF Baselines(ms) # {} THEN ConvertBaseline(ms)
    ELSE IF Baselines(FlipAll(ms)) # {} THEN FlipAll(ConvertBaseline(FlipAll(ms)))
    ELSE AlignOnLine(ms)

(* attempt_layout_mode_conversion before its verification.  The test that  *)
(* would skip the algorithms looks at the list as it was, with the sizes   *)
(* of the physical mode, so it passes only where nothing is scaled.        *)
NothingToConvert(ms) ==
    Verify(ms, "logical") /\ \A i \in DOMAIN ms : SameScale(ms[i].scale, <<1, 1>>)

Converted(ms) ==
    LET scaled == [i \in DOMAIN ms |-> ConvertScale(ms[i])]
    IN  IF NothingToConvert(ms) THEN scaled ELSE AdjustForOffset(Place(scaled))

-----------------------------------------------------------------------------
(* One behaviour per configuration: file is what a file says, stored the   *)
(* configurations that handle_end_element keeps of it, by layout mode      *)

VARIABLES file, ended, stored

vars == <<file, ended, stored>>

None == <<>>

(* detect_layout_mode_configs and attempt_layout_mode_conversion           *)
EndConfiguration ==
    /\ ~ended
    /\ ended' = TRUE
    /\ LET physical == Verify(file, "physical")
           logical == Verify(file, "logical")
           converted == Converted(file)
       IN  stored' = [physical |-> IF physical THEN file ELSE None,
                      logical |-> IF logical THEN file
                                  ELSE IF physical /\ Verify(converted, "logical")
                                  THEN converted ELSE None]
    /\ UNCHANGED file

(* A file that neither mode accepts is refused.                            *)
Init == /\ file \in UNION {[1 .. n -> Monitors] : n \in 1 .. MaxMonitors}
        /\ Verify(file, "physical") \/ Verify(file, "logical")
        /\ ended = FALSE
        /\ stored = [physical |-> None, logical |-> None]

Next == EndConfiguration

Spec == Init /\ [][Next]_vars

(* The type invariant: what is stored is what the verification accepts.    *)
TypeOK == /\ file \in Seq(Monitors)
          /\ \A mode \in {"physical", "logical"} :
                stored[mode] = None \/ (ended /\ Verify(stored[mode], mode))

(* The conversion is refused for one reason only: the new scales differ,   *)
(* where the X server needs them to be the same.                           *)
OnlyScalesRefused ==
    stored.physical # None /\ stored.logical = None =>
        /\ GlobalScale
        /\ \E i, j \in DOMAIN file :
             ~SameScale(ConvertScale(file[i]).scale, ConvertScale(file[j]).scale)

(* The simple method that aligns all monitors is used for a layout without *)
(* a line and without a baseline.  Otherwise a monitor that touches the    *)
(* left edge of another one, at the same height, stays on that side.       *)
OrderKept ==
    /\ stored.physical # None /\ stored.logical # None
    /\ \E ms \in {file, FlipAll(file)} : IsLine(ms) \/ Baselines(ms) # {}
    =>  \A i, j \in DOMAIN file :
            file[i].x + file[i].width = file[j].x /\ file[i].y = file[j].y =>
                stored.logical[i].x < stored.logical[j].x
=============================================================================
