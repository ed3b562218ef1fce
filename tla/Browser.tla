------------------------------- MODULE Browser ------------------------------
(***************************************************************************)
(* The terminal browser (tfg/browser/terminal.py): its windows, the cursor *)
(* (current_vf), the zoomed frame (start_vf) and the level at the bottom   *)
(* of the window.  Each turn of its loop draws and then takes one key.     *)
(***************************************************************************)
EXTENDS VisualTree

CONSTANTS LINES, COLORS     \* of the terminal

\* The select window has two lines of border.
ASSUME LINESAssumption == LINES \in Nat /\ LINES > 2

VARIABLES
    window,         \* the window on top: "none", "graph", "select" or "crashed"
    vft,            \* the visual tree, path |-> [x, width, count, frames]
    zoom,           \* start_vf
    combining,      \* with_combined_frames
    cursor,         \* current_vf
    startLevel,
    select          \* of the select window, [from, to, current]

browserVars == <<window, vft, zoom, combining, cursor, startLevel, select>>

Height == LINES - 1
MinOf(a, b) == IF a < b THEN a ELSE b

IsPlus(p) == p # <<>> /\ Last(p) = Plus

NoSelect == [from |-> 0, to |-> 0, current |-> 0]

BrowserInit ==
    /\ window = "none"
    /\ vft = [p \in {<<>>} |-> [x |-> 0, width |-> COLS, count |-> 0, frames |-> <<>>]]
    /\ zoom = <<>>
    /\ combining = TRUE
    /\ cursor = <<>>
    /\ startLevel = 0
    /\ select = NoSelect

\* The palettes of eight and of 256 colours.
PaletteKnown(palette) == COLORS >= 8 /\ palette \in {"hot", "io"}

Display(palette) ==
    /\ window' = IF PaletteKnown(palette) THEN "graph" ELSE "crashed"
    /\ vft' = IF PaletteKnown(palette) THEN RebuildTree(tree, <<>>, TRUE) ELSE vft
    /\ UNCHANGED <<zoom, combining, cursor, startLevel, select>>

\* The status line divides by the samples of the head and of the cursor's parent.
HasStatus ==
    \/ IsPlus(cursor)
    \/ /\ tree[<<>>].count # 0
       /\ cursor # <<>> => tree[Front(cursor)].count # 0

Crash ==
    /\ window \in {"graph", "select"}
    /\ ~HasStatus
    /\ window' = "crashed"
    /\ UNCHANGED <<vft, zoom, combining, cursor, startLevel, select>>

InGraph == window = "graph" /\ HasStatus
InSelect == window = "select" /\ HasStatus

\* rebuild_tree(start) makes the frame the cursor.
ZoomTo(p, comb) ==
    /\ vft' = RebuildTree(tree, p, comb)
    /\ zoom' = p
    /\ cursor' = p
    /\ combining' = comb

Quit ==
    /\ InGraph
    /\ window' = "none"
    /\ UNCHANGED <<vft, zoom, combining, cursor, startLevel, select>>

\* Mutant: the cursor is kept over the new tree.
SwitchCombinedMutant ==
    /\ InGraph
    /\ vft' = RebuildTree(tree, zoom, ~combining)
    /\ combining' = ~combining
    /\ UNCHANGED <<window, zoom, cursor, startLevel, select>>

SwitchCombined ==
    /\ InGraph
    /\ ZoomTo(zoom, ~combining)
    /\ UNCHANGED <<window, startLevel, select>>

KeyDown ==
    /\ InGraph
    /\ cursor' = IF cursor = <<>> THEN cursor ELSE Front(cursor)
    /\ startLevel' = IF Len(cursor') < startLevel THEN startLevel - 1 ELSE startLevel
    /\ UNCHANGED <<window, vft, zoom, combining, select>>

\* Mutant: off by one at the top of the window.
KeyUpMutant ==
    /\ InGraph
    /\ LET frames == FramesOf(vft, cursor)
       IN cursor' = IF frames = {}
                    THEN cursor
                    ELSE CHOOSE q \in frames : \A r \in frames : vft[r].x <= vft[q].x
    /\ startLevel' = IF Len(cursor') > startLevel + Height - 1 THEN startLevel + 1 ELSE startLevel
    /\ UNCHANGED <<window, vft, zoom, combining, select>>

\* The first of the frames, which are in descending order.
KeyUp ==
    /\ InGraph
    /\ LET frames == FramesOf(vft, cursor)
       IN cursor' = IF frames = {}
                    THEN cursor
                    ELSE CHOOSE q \in frames : \A r \in frames : vft[r].x <= vft[q].x
    /\ startLevel' = IF Len(cursor') > startLevel + Height - 2 THEN startLevel + 1 ELSE startLevel
    /\ UNCHANGED <<window, vft, zoom, combining, select>>

KeyLeft ==
    /\ InGraph
    /\ \E q \in LeftFrame(vft, cursor) : cursor' = q
    /\ UNCHANGED <<window, vft, zoom, combining, startLevel, select>>

KeyRight ==
    /\ InGraph
    /\ \E q \in RightFrame(vft, cursor) : cursor' = q
    /\ UNCHANGED <<window, vft, zoom, combining, startLevel, select>>

EnterFrame ==
    /\ InGraph
    /\ ~IsPlus(cursor)
    /\ ZoomTo(cursor, combining)
    /\ UNCHANGED <<window, startLevel, select>>

EnterCombined ==
    /\ InGraph
    /\ IsPlus(cursor)
    /\ window' = "select"
    /\ select' = [from |-> 0,
                  to |-> MinOf(Len(vft[cursor].frames) + 2, LINES) - 2,
                  current |-> 0]
    /\ UNCHANGED <<vft, zoom, combining, cursor, startLevel>>

Reset ==
    /\ InGraph
    /\ ZoomTo(<<>>, combining)
    /\ UNCHANGED <<window, startLevel, select>>

SelectQuit ==
    /\ InSelect
    /\ window' = "graph"
    /\ UNCHANGED <<vft, zoom, combining, cursor, startLevel, select>>

SelectDown ==
    /\ InSelect
    /\ LET current == MinOf(select.current + 1, Len(vft[cursor].frames) - 1)
           scroll == IF current >= select.to THEN 1 ELSE 0
       IN select' = [from |-> select.from + scroll, to |-> select.to + scroll, current |-> current]
    /\ UNCHANGED <<window, vft, zoom, combining, cursor, startLevel>>

SelectUp ==
    /\ InSelect
    /\ LET current == IF select.current > 0 THEN select.current - 1 ELSE 0
           scroll == IF current < select.from THEN 1 ELSE 0
       IN select' = [from |-> select.from - scroll, to |-> select.to - scroll, current |-> current]
    /\ UNCHANGED <<window, vft, zoom, combining, cursor, startLevel>>

SelectEnter ==
    /\ InSelect
    /\ ZoomTo(vft[cursor].frames[select.current + 1], combining)
    /\ window' = "graph"
    /\ UNCHANGED <<startLevel, select>>

Key ==
    \/ Quit \/ SwitchCombined \/ KeyDown \/ KeyUp \/ KeyLeft \/ KeyRight
    \/ EnterFrame \/ EnterCombined \/ Reset
    \/ SelectQuit \/ SelectDown \/ SelectUp \/ SelectEnter

-----------------------------------------------------------------------------

Browsing == window \in {"graph", "select"}

\* The screen is always a picture of the call tree (visualtree.py:90).
FramesFit == Browsing => Fits(tree, vft, zoom, combining)

\* Whatever the keys, the frame under the cursor is one of the tree on the screen, which
\* was rebuilt under it, the line chosen in the select window is one it shows, and the
\* status line can be written unless a frame has no samples (terminal.py:98 and 233).
CursorHolds ==
    /\ Browsing =>
        /\ cursor \in DOMAIN vft
        /\ zoom \in DOMAIN tree
    /\ window = "select" =>
        /\ vft[cursor].frames # <<>>
        /\ 0 <= select.from
        /\ select.from <= select.current
        /\ select.current < select.to
        /\ select.to <= Len(vft[cursor].frames)
    /\ window = "crashed" => vft[<<>>].count = 0 \/ \E p \in DOMAIN tree : tree[p].count = 0

InView(level, p) == level <= Len(p) /\ Len(p) <= level + Height - 2

\* Walking up and down never takes a cursor that is drawn out of the window: the level at
\* the bottom follows it (terminal.py:109-123).
KeepsInView ==
    [][Browsing /\ InView(startLevel, cursor) /\ (KeyUp \/ KeyDown)
        => InView(startLevel', cursor')]_<<cursor, startLevel>>

=============================================================================
