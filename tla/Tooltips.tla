------------------------------ MODULE Tooltips ------------------------------
(***************************************************************************)
(* The legends of a pane (IndicatorTooltipView, CandleTooltipView): names, *)
(* values and icons set in rows from the left, the rectangle that may      *)
(* stand in for them, and the pointer that lights an icon, is answered by  *)
(* a repaint and presses it.                                               *)
(*                                                                         *)
(* An icon takes part in events where it was painted last. While one takes *)
(* the pointer's move the chart has no crosshair, the legends are those of *)
(* the last bar.                                                           *)
(***************************************************************************)
EXTENDS Integers, Sequences, FiniteSetsExt

CONSTANTS
    Inds,       \* indicators of the pane, in order of drawing
    LastBar,    \* number of bars; legends are the last one's without a crosshair
    NameWidth,  \* width of an indicator's name and parameters, 0: not shown
    LegendsOf,  \* widths of a legend's title and value, by owner and bar
    IconsOf,    \* icons of an owner, a sequence of [id, position, size]
    Offset,     \* offsets of tooltip in the pane: [left, top, right, bottom]
    Title, Text,  \* styles: [left, top, right, bottom, size]
    RectStyle,  \* style of the rectangle: offsets, [.., padX, padY, border]
    Widths, Height, \* of the pane
    Points,     \* positions of the pointer
    Asides,     \* how far the middle of a bar may be from a pointer on the bar
    Lasts,      \* where the middle of the last bar may be
    None,
    MaxEvents   \* bound: events

\* The indicators of a pane are distinct, and none is the candles.
OwnersAssumption ==
    /\ Inds # <<>> /\ Inds \in Seq(STRING \ {"candle"})
    /\ \A k, n \in DOMAIN Inds : Inds[k] = Inds[n] => k = n

Owners == {Inds[k] : k \in DOMAIN Inds} \cup {"candle"}

\* The icons of an owner have ids of their own.
LegendsAssumption ==
    /\ LastBar \in Nat \ {0}
    /\ NameWidth \in [Owners -> Nat]
    /\ LegendsOf \in [Owners -> [1..LastBar -> Seq([title : Nat, value : Nat])]]
    /\ IconsOf \in [Owners -> Seq([id : STRING, position : STRING, size : Nat])]
    /\ \A o \in Owners : \A k, n \in DOMAIN IconsOf[o] :
          IconsOf[o][k].id = IconsOf[o][n].id => k = n

\* No margin is negative. An icon keeps a distance to what is before it, the
\* rectangle to the middle of the bar (the defaults of Styles.ts are 4 and 8).
StylesAssumption ==
    /\ Offset \in [left : Nat, top : Nat, right : Nat, bottom : Nat]
    /\ {Title, Text} \subseteq [left : Nat, top : Nat, right : Nat, bottom : Nat, size : Nat]
    /\ RectStyle \in [left : Nat, top : Nat, right : Nat, bottom : Nat, padX : Nat,
                      padY : Nat, border : Nat]
    /\ {Text.left, Text.top, RectStyle.left, RectStyle.right} \subseteq Nat \ {0}
    /\ Widths \subseteq Nat /\ Height \in Nat /\ Points \subseteq [x : Nat, y : Nat]
    /\ Asides \cup Lasts \subseteq Int

VARIABLES
    style,    \* [pane, candle, studies: showType, rule: showRule, at: of rect]
    width,    \* of the pane
    visible,  \* indicators that are not hidden
    cross,    \* crosshair in this pane: [x, y, bar], or None
    real,     \* crosshair.realX: the middle of its bar, the last one's without it
    painted,  \* what was painted last, in order
    due,      \* a repaint was asked for
    sized,    \* the pane was painted since it got its width
    active,   \* _activeFeatureInfo: [owner, id], or None
    pointer,  \* where the pointer moved to last, nothing but repaints since, and
              \* sized then: [x, y, sized], or None
    clicked,  \* icon whose action was executed last
    events

vars == <<style, width, visible, cross, real, painted, due, sized, active, pointer,
          clicked, events>>

Candles == "candle"
MaxWidth == width - Offset.right
BarShown == IF cross = None THEN LastBar ELSE cross.bar
Legends(o) == IF o = Candles \/ o \in visible THEN LegendsOf[o][BarShown] ELSE <<>>

\* showRule of both tooltips.
IsDrawTooltip == style.rule = "always" \/ cross # None

-----------------------------------------------------------------------------
(* Rows. A pen is [x, y, row: height of its row so far, right: end of the  *)
(* rows, drawn].                                                           *)

Pen(y) == [x |-> Offset.left, y |-> y, row |-> 0, right |-> MaxWidth, drawn |-> <<>>]
Bottom(pen) == pen.y + pen.row

\* Seeded mutation: the new row comes one row of its own height further down.
MakeRoomOwn(pen, w, h) ==
    IF pen.x + w > pen.right
    THEN [pen EXCEPT !.x = Offset.left, !.y = @ + h, !.row = h]
    ELSE [pen EXCEPT !.row = Max({@, h})]

\* What does not fit goes to a row of its own, below the highest of this one.
MakeRoom(pen, w, h) ==
    IF pen.x + w > pen.right
    THEN [pen EXCEPT !.x = Offset.left, !.y = @ + pen.row, !.row = h]
    ELSE [pen EXCEPT !.row = Max({@, h})]

Piece(kind, owner, id, x, y, w, h) ==
    [kind |-> kind, owner |-> owner, id |-> id, x |-> x, y |-> y, w |-> w, h |-> h]

\* One more piece drawn, and the pen past it.
Drawn(pen, piece, w) == [pen EXCEPT !.x = @ + w, !.drawn = Append(@, piece)]

\* drawStandardTooltipLegends, of one legend: each wraps for itself.
DrawLegend(pen, owner, legend, s) ==
    LET w == s.left + legend.title + legend.value + s.right
        p == MakeRoom(pen, w, s.top + s.size + s.bottom)
    IN  Drawn(p, Piece("text", owner, None, p.x + s.left, p.y + s.top,
                       legend.title + legend.value, s.size), w)

\* drawStandardTooltipLegends
DrawLegends(pen, owner, legends, s) ==
    LET after[k \in 0..Len(legends)] ==
            IF k = 0 THEN pen ELSE DrawLegend(after[k - 1], owner, legends[k], s)
    IN  after[Len(legends)]

\* classifyTooltipFeatures: the icons of one place.
Placed(owner, position) == {k \in DOMAIN IconsOf[owner] : IconsOf[owner][k].position = position}

\* What the icons of one place take: their widths together, the greatest height.
IconsWidth(owner, position) ==
    MapThenSumSet(LAMBDA k : Text.left + IconsOf[owner][k].size + Text.right,
                  Placed(owner, position))
IconsHeight(owner, position) ==
    Max({0} \cup {Text.top + IconsOf[owner][k].size + Text.bottom : k \in Placed(owner, position)})

DrawIcon(pen, owner, icon) ==
    Drawn(pen, Piece("icon", owner, icon.id, pen.x + Text.left, pen.y + Text.top,
                     icon.size, icon.size), Text.left + icon.size + Text.right)

\* drawStandardTooltipFeatures: the icons of one place wrap together.
DrawIcons(pen, owner, position) ==
    LET n == Len(IconsOf[owner])
        after[k \in 0..n] ==
            IF k = 0
            THEN MakeRoom(pen, IconsWidth(owner, position), IconsHeight(owner, position))
            ELSE IF k \in Placed(owner, position)
                 THEN DrawIcon(after[k - 1], owner, IconsOf[owner][k])
                 ELSE after[k - 1]
    IN  IF Placed(owner, position) = {} THEN pen ELSE after[n]

Name(owner) == <<[title |-> 0, value |-> NameWidth[owner]]>>

\* drawIndicatorTooltip, of one indicator: nothing of it without name and legends.
DrawIndicator(pen, i) ==
    LET name == IF NameWidth[i] = 0 THEN <<>> ELSE Name(i)
        left == DrawIcons([Pen(Bottom(pen)) EXCEPT !.drawn = pen.drawn], i, "left")
        middle == DrawIcons(DrawLegends(left, i, name, Title), i, "middle")
    IN  IF name = <<>> /\ Legends(i) = <<>> THEN pen
        ELSE DrawIcons(DrawLegends(middle, i, Legends(i), Text), i, "right")
DrawIndicatorTooltip(pen) ==
    LET after[k \in 0..Len(Inds)] ==
            IF k = 0 THEN pen ELSE DrawIndicator(after[k - 1], Inds[k])
    IN  IF IsDrawTooltip THEN after[Len(Inds)] ELSE pen

\* _drawCandleStandardTooltip: the title has a row, the icons come first.
DrawCandle(pen) ==
    LET title == DrawLegends(pen, Candles, Name(Candles), Title)
        left == DrawIcons([Pen(pen.y + title.row) EXCEPT !.drawn = title.drawn], Candles, "left")
        middle == DrawIcons(left, Candles, "middle")
    IN  IF IsDrawTooltip
        THEN DrawIcons(DrawLegends(middle, Candles, Legends(Candles), Text), Candles, "right")
        ELSE pen

-----------------------------------------------------------------------------
(* The rectangle.                                                          *)

\* The legends in it, one to a line.
RectLegends(candle, studies) ==
    LET all[k \in 0..Len(Inds)] ==
            IF k = 0 THEN IF candle THEN Legends(Candles) ELSE <<>>
            ELSE all[k - 1] \o Legends(Inds[k])
    IN  all[IF studies THEN Len(Inds) ELSE 0]

LineHeight == Text.top + Text.size + Text.bottom
InsetX == RectStyle.border + RectStyle.padX
InsetY == RectStyle.border + RectStyle.padY

RectWidth(legends) ==
    Max({0} \cup {Text.left + legends[k].title + legends[k].value + Text.right :
                      k \in DOMAIN legends}) + 2 * InsetX
RectHeight(legends) == Len(legends) * LineHeight + 2 * InsetY

\* Beside the middle of the crosshair's bar, or on the side it is not on.
ByPointer == style.at = "pointer" /\ cross # None
RectX(w) ==
    LET right == 2 * real > width
    IN  IF ByPointer
        THEN IF right THEN real - RectStyle.right - w ELSE real + RectStyle.left
        ELSE IF right THEN RectStyle.left + Offset.left ELSE width - RectStyle.right - w - Offset.right
RectY(pen, h) ==
    LET top == Bottom(pen) + RectStyle.top
        wanted == Min({cross.y - h \div 2, Height - RectStyle.bottom - Offset.bottom - h})
    IN  IF ~ByPointer THEN top ELSE IF wanted < top THEN top + Offset.top ELSE wanted

\* A title at the left and a value at the right, in line k.
LineY(k, y) == y + InsetY + (k - 1) * LineHeight + Text.top
RectTitle(legend, k, x, y) ==
    Piece("line", None, None, x + InsetX + Text.left, LineY(k, y), legend.title, Text.size)
RectValue(legend, k, x, y, w) ==
    Piece("line", None, None, x + w - InsetX - Text.right - legend.value, LineY(k, y),
          legend.value, Text.size)
RectLines(legends, x, y, w) ==
    [j \in 1..(2 * Len(legends)) |->
        LET k == (j + 1) \div 2
        IN  IF j % 2 = 1 THEN RectTitle(legends[k], k, x, y) ELSE RectValue(legends[k], k, x, y, w)]

\* _drawRectTooltip: the rectangle, then its lines.
DrawRect(pen, candle, studies) ==
    LET legends == RectLegends(candle, studies)
        w == RectWidth(legends)
        h == RectHeight(legends)
        x == RectX(w)
        y == RectY(pen, h)
    IN  IF ~IsDrawTooltip \/ legends = <<>> THEN pen
        ELSE [pen EXCEPT !.drawn =
                  Append(@, Piece("rect", None, None, x, y, w, h)) \o RectLines(legends, x, y, w)]

-----------------------------------------------------------------------------
(* Painting and events.                                                    *)

\* drawImp of the candle pane's view and of the others.
Painted ==
    LET pen == Pen(Offset.top)
        end ==
            IF style.pane # Candles THEN DrawIndicatorTooltip(pen)
            ELSE CASE style.candle = "rect" /\ style.studies = "rect" ->
                          DrawRect(pen, TRUE, TRUE)
                   [] style.candle = "standard" /\ style.studies = "standard" ->
                          DrawIndicatorTooltip(DrawCandle(pen))
                   [] style.candle = "rect" /\ style.studies = "standard" ->
                          DrawRect(DrawIndicatorTooltip(pen), TRUE, FALSE)
                   [] OTHER -> DrawRect(DrawCandle(pen), FALSE, TRUE)
    IN  end.drawn

Draw ==
    /\ due
    /\ painted' = Painted /\ due' = FALSE /\ sized' = TRUE
    /\ UNCHANGED <<style, width, visible, cross, real, active, pointer, clicked, events>>

On(p, b) == p.x \in b.x..(b.x + b.w) /\ p.y \in b.y..(b.y + b.h)
Hits(p) == {k \in DOMAIN painted : painted[k].kind = "icon" /\ On(p, painted[k])}
\* The icon painted last of those under a point.
Hit(p) == LET b == painted[Max(Hits(p))] IN [owner |-> b.owner, id |-> b.id]
Event == events < MaxEvents /\ events' = events + 1

\* The bar of a crosshair is under it, in the middle or not.
MiddlesOf(c) == IF c = None THEN Lasts ELSE {c.x + d : d \in Asides}

\* setCrosshair: repaints when it changed. Another bar at the same place was
\* scrolled there, which repaints too.
SetCrosshair(c) ==
    /\ cross' = c /\ real' \in MiddlesOf(c)
    /\ due' = (due \/ c # cross \/ real' # real)

\* mouseMoveEvent over the pane: an icon takes it, or the crosshair follows.
MouseMove(p) ==
    /\ Event
    /\ pointer' = [x |-> p.x, y |-> p.y, sized |-> sized]
    /\ IF Hits(p) # {}
       THEN active' = Hit(p) /\ SetCrosshair(None)
       ELSE active' = None /\ \E bar \in 1..LastBar : SetCrosshair([x |-> p.x, y |-> p.y, bar |-> bar])
    /\ UNCHANGED <<style, width, visible, painted, sized, clicked>>

\* mouseLeaveEvent: the icon stays lit.
MouseLeave ==
    /\ Event
    /\ pointer' = None /\ SetCrosshair(None)
    /\ UNCHANGED <<style, width, visible, painted, sized, active, clicked>>

\* mouseDownEvent on an icon; the application may hide or show its indicator.
MouseDown ==
    /\ Event
    /\ pointer # None /\ Hits(pointer) # {}
    /\ clicked' = Hit(pointer)
    /\ \/ visible' = visible
       \/ clicked'.owner # Candles
          /\ visible' = IF clicked'.owner \in visible THEN visible \ {clicked'.owner}
                        ELSE visible \cup {clicked'.owner}
    /\ due' = (due \/ visible' # visible)
    /\ UNCHANGED <<style, width, cross, real, painted, sized, active, pointer>>

\* The crosshair stays (setTotalBarSpace sets it again), the bars move under it.
Resize ==
    /\ Event
    /\ width' \in Widths \ {width} /\ due' = TRUE /\ sized' = FALSE /\ pointer' = None
    /\ \E bar \in 1..LastBar :
          /\ cross' = IF cross = None THEN None ELSE [x |-> cross.x, y |-> cross.y, bar |-> bar]
          /\ real' \in MiddlesOf(cross)
    /\ UNCHANGED <<style, visible, painted, active, clicked>>

Init ==
    /\ style \in [pane : {Candles, "other"}, candle : {"rect", "standard"},
                  studies : {"rect", "standard"}, rule : {"always", "follow_cross"},
                  at : {"pointer", "fixed"}]
    /\ width \in Widths
    /\ visible = {Inds[k] : k \in DOMAIN Inds} /\ cross = None
    /\ real \in Lasts /\ painted = <<>> /\ due = TRUE /\ sized = FALSE
    /\ active = None /\ pointer = None /\ clicked = None
    /\ events = 0

Next ==
    \/ Draw \/ MouseLeave \/ MouseDown \/ Resize
    \/ \E p \in Points : MouseMove(p)

Spec == Init /\ [][Next]_vars

-----------------------------------------------------------------------------
Rects == {k \in DOMAIN painted : painted[k].kind = "rect"}
Apart(a, b) ==
    \/ a.x + a.w <= b.x \/ b.x + b.w <= a.x
    \/ a.y + a.h <= b.y \/ b.y + b.h <= a.y

\* No two names, values or icons lie on each other, and only what begins a row
\* reaches beyond the room there is (drawStandardTooltipLegends and Features).
RowsApart ==
    \A k \in DOMAIN painted \ Rects :
        /\ \A n \in (DOMAIN painted \ Rects) \ {k} : Apart(painted[k], painted[n])
        /\ painted[k].kind = "text" /\ sized /\ painted[k].x + painted[k].w > MaxWidth =>
               painted[k].x - Offset.left \in {Text.left, Title.left}

\* The rectangle holds its lines and no other legend. Where there is room for it
\* it lies in the pane and not on the line of the crosshair, nor under a pointer
\* nearer to that line than the rectangle keeps (_drawRectTooltip).
RectClear ==
    \A k \in Rects :
        LET r == painted[k]
            room == /\ 2 * (r.w + RectStyle.left + RectStyle.right
                            + Offset.left + Offset.right) <= width
                    /\ ByPointer => real \in 0..width
            clear(x) == x < r.x \/ x > r.x + r.w
            near == cross.x < real + RectStyle.left /\ cross.x > real - RectStyle.right
        IN  /\ \A n \in DOMAIN painted \ {k} :
                   IF painted[n].kind = "line"
                   THEN /\ painted[n].x >= r.x /\ painted[n].x + painted[n].w <= r.x + r.w
                        /\ painted[n].y >= r.y /\ painted[n].y + painted[n].h <= r.y + r.h
                   ELSE Apart(painted[n], r)
            /\ ~due /\ room =>
                   /\ r.x >= 0 /\ r.x + r.w <= width
                   /\ cross # None => clear(real) /\ (near => clear(cross.x))

\* The first owner of legends in rows.
First == IF style.pane = Candles /\ style.candle = "standard" THEN Candles ELSE Inds[1]

\* While legends are always shown, a lit icon before the values of the first
\* owner stays under the pointer that lit it, although the crosshair goes and
\* other values come: a press reaches it. Unless the pane was still painted for
\* an earlier width then, or its owner has no name and may have no legend left.
LitStaysUnderPointer ==
    /\ style.rule = "always" /\ active # None /\ pointer # None
    /\ pointer.sized /\ active.owner = First /\ (First = Candles \/ NameWidth[First] # 0)
    /\ \E k \in DOMAIN IconsOf[First] :
          IconsOf[First][k].id = active.id /\ IconsOf[First][k].position # "right"
    => Hits(pointer) # {} /\ Hit(pointer) = active

\* Legends and icons are where they can be read and pressed.
TooltipsSound == RowsApart /\ RectClear /\ LitStaysUnderPointer
=============================================================================
