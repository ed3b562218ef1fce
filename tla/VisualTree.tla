----------------------------- MODULE VisualTree -----------------------------
(***************************************************************************)
(* The flame graph on the screen (tfg/browser/visualtree.py): which frames *)
(* of the call tree t are shown, and where, when the browser has zoomed in *)
(* on the frame zoom.  The frames too small for a column of their own are  *)
(* left out, or put in one combined frame, `+', when the user wants it.    *)
(* A visual frame is named by its path; that of a `+' ends in Plus.        *)
(***************************************************************************)
EXTENDS CallTree

CONSTANT COLS       \* the width of the screen

ASSUME COLSAssumption == COLS \in Nat \ {0}

Plus == 0           \* below every name of a frame

CalculateWidth(count, parentCount, parentWidth) ==
    IF parentCount = 0 THEN 0 ELSE (count * parentWidth) \div parentCount

\* The children of p when p is w columns wide, before a column is set aside for the `+'.
Widths(t, p, w) == [c \in Children(t, p) |-> CalculateWidth(t[c].count, t[p].count, w)]

HasSmall(t, p, w) == \E c \in Children(t, p) : Widths(t, p, w)[c] = 0

HasCombined(t, p, w, combining) == combining /\ HasSmall(t, p, w)

\* Mutant: no column is set aside.
ChildWidthsMutant(t, p, w, combining) == Widths(t, p, w)

\* One column less for the children when they would leave none for the `+'.
ChildWidths(t, p, w, combining) ==
    LET full == Widths(t, p, w)
        total == SumFunctionOnSet(full, DOMAIN full)
    IN Widths(t, p, IF HasCombined(t, p, w, combining) /\ total = w THEN w - 1 ELSE w)

\* _create_start_vf gives the frames down to the zoomed one the whole screen; nothing
\* beside them is built, and nothing below a frame without a column.
WidthOf(t, zoom, combining) ==
    LET width[p \in DOMAIN t] ==
            IF IsPrefix(p, zoom)
            THEN COLS
            ELSE IF ~IsPrefix(zoom, p) \/ width[Front(p)] = 0
            THEN 0
            ELSE ChildWidths(t, Front(p), width[Front(p)], combining)[p]
    IN width

\* The children are laid out from the right edge of their frame, in descending order.
LeftOf(t, zoom, combining) ==
    LET width == WidthOf(t, zoom, combining)
        left[p \in DOMAIN t] ==
            IF ~IsStrictPrefix(zoom, p)
            THEN 0
            ELSE left[Front(p)] + width[Front(p)]
                    - SumFunctionOnSet(width, {c \in Children(t, Front(p)) : Last(c) >= Last(p)})
    IN left

\* The frames of a `+', in the order the window will list them.
Small(t, p, width) == {c \in Children(t, p) : width[c] = 0}

PlaceIn(S, c) == Cardinality({d \in S : Last(d) >= Last(c)})

Combined(t, p, width) ==
    LET S == Small(t, p, width)
    IN [i \in 1 .. Cardinality(S) |-> CHOOSE c \in S : PlaceIn(S, c) = i]

\* rebuild_tree: path |-> [x, width, count, combined frames].
RebuildTree(t, zoom, combining) ==
    LET width == WidthOf(t, zoom, combining)
        left == LeftOf(t, zoom, combining)
        shown == {p \in DOMAIN t : width[p] > 0}
        above == {p \in shown : IsPrefix(zoom, p)}
        crowded == {p \in above : HasCombined(t, p, width[p], combining)}
        UsedBy(p) == SumFunctionOnSet(width, Children(t, p))
    IN [q \in shown \cup {Append(p, Plus) : p \in crowded} |->
            IF q \in shown
            THEN [x |-> left[q], width |-> width[q], count |-> t[q].count, frames |-> <<>>]
            ELSE LET p == Front(q)
                 IN [x |-> left[p] + width[p] - UsedBy(p) - 1,
                     width |-> 1,
                     count |-> SumFunctionOnSet(Counts(t), Small(t, p, width)),
                     frames |-> Combined(t, p, width)]]

\* The order of the breadth-first traversal: by level, and from right to left in one.
Before(vft, p, q) ==
    \/ Len(p) < Len(q)
    \/ Len(p) = Len(q) /\ vft[p].x > vft[q].x

\* link_frames: left is the next one of the traversal and right the previous one, which
\* may be of another level.  A set of at most one frame.
LeftFrame(vft, p) ==
    {q \in DOMAIN vft : Before(vft, p, q) /\ \A r \in DOMAIN vft : ~(Before(vft, p, r) /\ Before(vft, r, q))}
RightFrame(vft, p) ==
    {q \in DOMAIN vft : Before(vft, q, p) /\ \A r \in DOMAIN vft : ~(Before(vft, q, r) /\ Before(vft, r, p))}

\* The frames drawn right above p.
FramesOf(vft, p) == {q \in DOMAIN vft : Len(q) = Len(p) + 1 /\ IsPrefix(p, q)}

Inside(a, b) == a.x >= b.x /\ a.x + a.width <= b.x + b.width
Apart(a, b) == a.x + a.width <= b.x \/ b.x + b.width <= a.x

\* A visual frame lies inside the one under it and beside its siblings, for every shape
\* of the tree; with the `+', no frame of the call tree above the zoomed one is lost: it
\* is shown, or listed by a `+', or stands above one that is listed (visualtree.py:183).
Fits(t, vft, zoom, combining) ==
    /\ \A p \in DOMAIN vft \ {<<>>} :
        /\ Front(p) \in DOMAIN vft
        /\ vft[p].width > 0
        /\ Inside(vft[p], vft[Front(p)])
        /\ \A q \in FramesOf(vft, Front(p)) \ {p} : Apart(vft[p], vft[q])
    /\ combining =>
        \A p \in DOMAIN t :
            \/ ~IsPrefix(zoom, p)
            \/ p \in DOMAIN vft
            \/ \E q \in DOMAIN vft, i \in DOMAIN p :
                    Contains(vft[q].frames, SubSeq(p, 1, i))

=============================================================================
