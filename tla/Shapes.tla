------------------------------- MODULE Shapes -------------------------------
(***************************************************************************)
(* The shapes of the drawings and where the mouse is on them: what every   *)
(* overlay template makes of the coordinates of its points, and the tests  *)
(* of the figures it is made of.                                           *)
(*                                                                         *)
(* A shape is a set of figures: lines through some coordinates, closed     *)
(* polygons and discs. Coordinates are integers that the slopes in use     *)
(* divide, a slope is the two differences it is the quotient of. The       *)
(* shares of a Fibonacci drawing are Levels of Whole. Texts, the heads of  *)
(* arrows and the arcs of the spiral, which need sines, are left out, and  *)
(* so are the figures that take no events.                                 *)
(***************************************************************************)
EXTENDS Integers, Sequences, FiniteSets

CONSTANTS
    Tools,        \* the names of the templates that are drawn
    Xs, Ys,       \* coordinates of the points
    Width, Height,
    Levels, Whole, \* fibonacci*.ts: the shares, from 0 to Whole, both among them
    Short         \* [square, level]: the rounded root of a square, times its
                  \* level, squared again falls short of what it would be

VARIABLES
    tool,
    points        \* coordinates of the points so far

vars == <<tool, points>>

Deviation == 2

At(x, y) == [x |-> x, y |-> y]
LineOf(c) == [form |-> "line", through |-> c]
PolygonOf(c) == [form |-> "polygon", through |-> c]
\* A disc by the square its radius is the rounded root of, and its share of it.
Disc(center, square, level) ==
    [form |-> "circle", center |-> center, square |-> square, level |-> level]
Square(n) == n * n
WholeRoot(square) == \E n \in 0..square : Square(n) = square
Abs(n) == IF n < 0 THEN -n ELSE n

\* getDistance, squared.
SquareDistance(a, b) == Square(a.x - b.x) + Square(a.y - b.y)

\* How far a line of slope dy / dx rises along a run.
Rise(dy, dx, run) == IF dx > 0 THEN (run * dy) \div dx ELSE (run * (-dy)) \div (-dx)

\* getLinearYFromCoordinates: at the same x there is no slope and the value
\* is the first one's.
LinearY(a, b, x) == IF a.x = b.x THEN a.y ELSE a.y + Rise(b.y - a.y, b.x - a.x, x - a.x)

-----------------------------------------------------------------------------
(* The tests of the figures.                                               *)

\* checkCoordinateOnLine for two neighbours: between them, by their y where
\* they are above each other and else by their x, and near the line.
OnSegment(c, a, b) ==
    LET between(v, from, to) == Abs(from - v) + Abs(to - v) - Abs(from - to) < 2 * Deviation
        dx == b.x - a.x
        dy == b.y - a.y
    IN  IF dx = 0
        THEN between(c.y, a.y, b.y) /\ Abs(c.x - a.x) < Deviation
        ELSE between(c.x, a.x, b.x)
             /\ Square(dx * (c.y - a.y) - dy * (c.x - a.x)) < Square(Deviation) * (dx * dx + dy * dy)

OnLine(c, through) ==
    \E i \in 2..Len(through) : OnSegment(c, through[i - 1], through[i])

\* checkCoordinateOnPolygon: an odd number of edges is to the right.
OnPolygon(c, through) ==
    LET edge(i) == <<through[i], through[IF i = 1 THEN Len(through) ELSE i - 1]>>
        crossed(a, b) ==
            /\ (a.y > c.y) # (b.y > c.y)
            /\ IF b.y > a.y THEN (c.x - a.x) * (b.y - a.y) < (b.x - a.x) * (c.y - a.y)
                            ELSE (c.x - a.x) * (b.y - a.y) > (b.x - a.x) * (c.y - a.y)
    IN  Cardinality({i \in DOMAIN through : crossed(edge(i)[1], edge(i)[2])}) % 2 = 1

\* checkCoordinateOnCircle: anywhere within, on the rim unless the square of
\* the rounded radius falls short. No other square lies between the two.
OnCircle(c, disc) ==
    LET d == SquareDistance(c, disc.center) * Square(Whole)
        rim == disc.square * Square(disc.level)
    IN  d < rim \/ (d = rim /\ [square |-> disc.square, level |-> disc.level] \notin Short)

IsOn(c, figure) ==
    CASE figure.form = "line"    -> OnLine(c, figure.through)
      [] figure.form = "polygon" -> OnPolygon(c, figure.through)
      [] OTHER -> OnCircle(c, figure)

-----------------------------------------------------------------------------
(* Lines.                                                                  *)

\* Seeded mutation: a ray goes to the other side.
RayBackwards(a, b) ==
    {LineOf(<<a, IF a.x > b.x THEN At(Width, LinearY(a, b, Width)) ELSE At(0, LinearY(a, b, 0))>>)}

\* getRayLine: from the first through the second to the edge.
Ray(a, b) ==
    {LineOf(<<a, CASE a.x = b.x /\ a.y < b.y -> At(a.x, Height)
                   [] a.x = b.x /\ a.y > b.y -> At(a.x, 0)
                   [] a.x > b.x -> At(0, LinearY(a, b, 0))
                   [] OTHER -> At(Width, LinearY(a, b, Width))>>)}

Across(y) == LineOf(<<At(0, y), At(Width, y)>>)
UpAndDown(x) == LineOf(<<At(x, 0), At(x, Height)>>)

HorizontalRay(c) ==
    {LineOf(<<c[1], At(IF Len(c) > 1 /\ c[1].x < c[2].x THEN Width ELSE 0, c[1].y)>>)}
HorizontalSegment(c) == IF Len(c) = 2 THEN {LineOf(c)} ELSE {}
HorizontalStraight(c) == {Across(c[1].y)}
VerticalRay(c) ==
    IF Len(c) = 2 THEN {LineOf(<<c[1], At(c[1].x, IF c[1].y < c[2].y THEN Height ELSE 0)>>)} ELSE {}
VerticalSegment(c) == IF Len(c) = 2 THEN {LineOf(c)} ELSE {}
VerticalStraight(c) == {UpAndDown(c[1].x)}
RayLine(c) == IF Len(c) > 1 THEN Ray(c[1], c[2]) ELSE {}
Segment(c) == IF Len(c) = 2 THEN {LineOf(c)} ELSE {}
StraightLine(c) ==
    IF Len(c) # 2 THEN {}
    ELSE IF c[1].x = c[2].x THEN {UpAndDown(c[1].x)}
    ELSE {LineOf(<<At(0, LinearY(c[1], c[2], 0)), At(Width, LinearY(c[1], c[2], Width))>>)}
PriceLine(c) == {LineOf(<<c[1], At(Width, c[1].y)>>)}

\* getParallelLines: a line through the first two, one through the third, and
\* as many more on the other side of the first, each as far as the third's.
ParallelLines(c, extra) ==
    LET dx == c[2].x - c[1].x
        dy == c[2].y - c[1].y
        at0 == LinearY(c[1], c[2], 0)
        third == c[3].y - Rise(dy, dx, c[3].x)
        sloped(y) == LineOf(<<At(0, y), At(Width, y + Rise(dy, dx, Width))>>)
    IN  IF Len(c) < 2 THEN {}
        ELSE IF dx = 0
        THEN {UpAndDown(c[1].x)} \cup
             IF Len(c) = 2 THEN {}
             ELSE {UpAndDown(c[3].x)} \cup
                  {UpAndDown(c[1].x + (c[1].x - c[3].x) * i) : i \in 1..extra}
        ELSE {sloped(at0)} \cup
             IF Len(c) = 2 THEN {}
             ELSE {sloped(third)} \cup {sloped(at0 + (at0 - third) * i) : i \in 1..extra}

ParallelStraightLine(c) == ParallelLines(c, 0)
PriceChannelLine(c) == ParallelLines(c, 1)

Arrow(c) == IF Len(c) > 1 THEN {LineOf(c)} ELSE {}
Abcd(c) ==
    {LineOf(c)} \cup (IF Len(c) > 2 THEN {LineOf(<<c[1], c[3]>>)} ELSE {})
                \cup (IF Len(c) > 3 THEN {LineOf(<<c[2], c[4]>>)} ELSE {})
Xabcd(c) == {LineOf(c)} \cup {LineOf(<<c[i], c[i + 2]>>) : i \in 1..(Len(c) - 2)}
ThreeWaves(c) == {LineOf(c)}
FiveWaves(c) == {LineOf(c)}
EightWaves(c) == {LineOf(c)}
AnyWaves(c) == {LineOf(c)}

-----------------------------------------------------------------------------
(* Discs and polygons.                                                     *)

Circle(c) == IF Len(c) > 1 THEN {Disc(c[1], SquareDistance(c[1], c[2]), Whole)} ELSE {}

Corners(a, b) == <<a, At(b.x, a.y), b, At(a.x, b.y)>>
Rect(c) == IF Len(c) > 1 THEN {PolygonOf(Corners(c[1], c[2]))} ELSE {}
Triangle(c) == {PolygonOf(c)}
\* The template means to keep the first two on one level, but the field it
\* writes is none that is read.
Parallelogram(c) ==
    IF Len(c) # 3 THEN {}
    ELSE {PolygonOf(Append(c, At(c[1].x + (c[3].x - c[2].x), c[3].y)))}

GannBox(c) ==
    LET a == c[1]
        b == c[2]
        q == (b.y - a.y) \div 4
        x(share) == a.x + ((b.x - a.x) * share) \div Whole
        line(p, r) == LineOf(<<p, r>>)
        box == Corners(a, b)
        shares == {s \in Levels : s # 0 /\ s # Whole}
    IN  IF Len(c) < 2 THEN {}
        ELSE {LineOf(Append(box, a)), line(a, b), line(At(a.x, b.y), At(b.x, a.y))}
             \cup {line(a, At(b.x, b.y - q * i)) : i \in {1, 2}}
             \cup {line(At(a.x, b.y), At(b.x, a.y + q * i)) : i \in {1, 2}}
             \cup {line(a, At(x(s), b.y)) : s \in shares}
             \cup {line(At(a.x, b.y), At(x(s), a.y)) : s \in shares}

-----------------------------------------------------------------------------
(* Fibonacci drawings.                                                     *)

Share(from, to, level) == to + ((from - to) * level) \div Whole

FibonacciLine(c) ==
    IF Len(c) > 1 THEN {Across(Share(c[1].y, c[2].y, l)) : l \in Levels} ELSE {}
FibonacciSegment(c) ==
    IF Len(c) < 2 THEN {}
    ELSE {LineOf(<<At(c[1].x, Share(c[1].y, c[2].y, l)), At(c[2].x, Share(c[1].y, c[2].y, l))>>)
             : l \in Levels}
FibonacciExtension(c) ==
    {LineOf(c)} \cup
    IF Len(c) < 3 THEN {}
    ELSE LET y(l) == c[3].y + ((c[2].y - c[1].y) * l) \div Whole
         IN  {LineOf(<<At(c[2].x, y(l)), At(c[3].x, y(l))>>) : l \in Levels}
FibonacciCircle(c) ==
    IF Len(c) < 2 THEN {}
    ELSE {Disc(c[1], SquareDistance(c[1], c[2]), l) : l \in Levels \ {0}}
FibonacciSpeedResistanceFan(c) ==
    LET a == c[1]
        b == c[2]
        x(l) == Share(a.x, b.x, l)
        y(l) == Share(a.y, b.y, l)
    IN  IF Len(c) < 2 THEN {}
        ELSE UNION {{LineOf(<<At(x(l), a.y), At(x(l), b.y)>>),
                     LineOf(<<At(a.x, y(l)), At(b.x, y(l))>>)}
                    \cup Ray(a, At(x(l), b.y)) \cup Ray(a, At(b.x, y(l))) : l \in Levels}

\* The ray through the middle; the arcs are left out.
FibonacciSpiral(c) == IF Len(c) > 1 THEN Ray(c[1], c[2]) ELSE {}

-----------------------------------------------------------------------------

ShapeOf(name, c) ==
    CASE name = "horizontalRayLine"      -> HorizontalRay(c)
      [] name = "horizontalSegment"      -> HorizontalSegment(c)
      [] name = "horizontalStraightLine" -> HorizontalStraight(c)
      [] name = "verticalRayLine"        -> VerticalRay(c)
      [] name = "verticalSegment"        -> VerticalSegment(c)
      [] name = "verticalStraightLine"   -> VerticalStraight(c)
      [] name = "rayLine"                -> RayLine(c)
      [] name = "segment"                -> Segment(c)
      [] name = "straightLine"           -> StraightLine(c)
      [] name = "priceLine"              -> PriceLine(c)
      [] name = "parallelStraightLine"   -> ParallelStraightLine(c)
      [] name = "priceChannelLine"       -> PriceChannelLine(c)
      [] name = "arrow"                  -> Arrow(c)
      [] name = "abcd"                   -> Abcd(c)
      [] name = "xabcd"                  -> Xabcd(c)
      [] name = "threeWaves"             -> ThreeWaves(c)
      [] name = "fiveWaves"              -> FiveWaves(c)
      [] name = "eightWaves"             -> EightWaves(c)
      [] name = "anyWaves"               -> AnyWaves(c)
      [] name = "circle"                 -> Circle(c)
      [] name = "rect"                   -> Rect(c)
      [] name = "triangle"               -> Triangle(c)
      [] name = "parallelogram"          -> Parallelogram(c)
      [] name = "gannBox"                -> GannBox(c)
      [] name = "fibonacciLine"          -> FibonacciLine(c)
      [] name = "fibonacciSegment"       -> FibonacciSegment(c)
      [] name = "fibonacciExtension"     -> FibonacciExtension(c)
      [] name = "fibonacciCircle"        -> FibonacciCircle(c)
      [] name = "fibonacciSpeedResistanceFan" -> FibonacciSpeedResistanceFan(c)
      [] name = "fibonacciSpiral"        -> FibonacciSpiral(c)

Names ==
    {"horizontalRayLine", "horizontalSegment", "horizontalStraightLine", "verticalRayLine",
     "verticalSegment", "verticalStraightLine", "rayLine", "segment", "straightLine",
     "priceLine", "parallelStraightLine", "priceChannelLine", "arrow", "abcd", "xabcd",
     "threeWaves", "fiveWaves", "eightWaves", "anyWaves", "circle", "rect", "triangle",
     "parallelogram", "gannBox", "fibonacciLine", "fibonacciSegment", "fibonacciExtension",
     "fibonacciCircle", "fibonacciSpeedResistanceFan", "fibonacciSpiral"}

\* totalStep, less the one for finishing; anyWaves ends with a double click.
PointsOf(name) ==
    CASE name \in {"horizontalStraightLine", "verticalStraightLine", "priceLine"} -> 1
      [] name \in {"parallelStraightLine", "priceChannelLine", "triangle", "parallelogram",
                   "fibonacciExtension"} -> 3
      [] name \in {"abcd", "threeWaves", "anyWaves"} -> 4
      [] name \in {"xabcd", "fiveWaves"} -> 5
      [] name = "eightWaves" -> 9
      [] OTHER -> 2

\* Points are on the sheet, every slope between them is exact along it, and
\* the middles the properties look at are whole. Whole roots are not rounded.
GridAssumption ==
    /\ Width \in Nat /\ Height \in Nat /\ Xs \subseteq 0..Width /\ Ys \subseteq 0..Height
    /\ \A n \in Xs \cup Ys : n % 4 = 0
    /\ \A a, b \in Xs, c, d \in Ys : a # b =>
          \A x \in Xs \cup {Width} : (x * (d - c)) % Abs(b - a) = 0
    /\ Whole \in Nat \ {0} /\ {0, Whole} \subseteq Levels
    /\ \A s \in Short : s.level = Whole => ~WholeRoot(s.square)
    /\ Tools \subseteq Names

Init == tool \in Tools /\ points = <<>>

\* The next point; a horizontal or vertical drawing keeps both in line.
Place(p) ==
    /\ Len(points) < PointsOf(tool)
    /\ points' = LET aligned == IF points = <<>> THEN points
                                ELSE CASE tool \in {"horizontalRayLine", "horizontalSegment"} ->
                                              <<[points[1] EXCEPT !.y = p.y]>>
                                       [] tool \in {"verticalRayLine", "verticalSegment"} ->
                                              <<[points[1] EXCEPT !.x = p.x]>>
                                       [] OTHER -> points
                 IN  Append(aligned, p)
    /\ UNCHANGED tool

Next == \E x \in Xs, y \in Ys : Place(At(x, y))

Spec == Init /\ [][Next]_vars

-----------------------------------------------------------------------------
(* Properties.                                                             *)

Finished == Len(points) = PointsOf(tool)
Hit(c) == \E figure \in ShapeOf(tool, points) : IsOn(c, figure)
Filled == {"rect", "triangle"}
Discs == {"circle", "fibonacciCircle"}

\* The doubled area of a triangle.
Area(a, b, c) == Abs((b.x - a.x) * (c.y - a.y) - (c.x - a.x) * (b.y - a.y))
Between(a, b) == At((a.x + b.x) \div 2, (a.y + b.y) \div 2)

\* The point as far from a line as another, on its other side.
Mirrored(a, b, c) == IF a.x = b.x THEN At(2 * a.x - c.x, c.y)
                                  ELSE At(c.x, 2 * LinearY(a, b, c.x) - c.y)

\* A finished drawing can be picked up where it was put: a line at every one of
\* its points, whichever way they lie to each other, a channel also across its
\* first line, a triangle or rectangle inside, unless it is flat. A disc is hit
\* everywhere inside, and at the point on its rim if its radius is whole: of
\* others the root is rounded, and may be too small for the point it was taken
\* of (figure/line.ts:23, polygon.ts:22, circle.ts:30).
HitAtItsPoints ==
    Finished =>
        /\ tool \notin Filled \cup Discs \cup {"parallelogram"} =>
               \A i \in DOMAIN points : Hit(points[i])
        /\ tool \in Discs =>
               LET rim == SquareDistance(points[1], points[2])
               IN  /\ WholeRoot(rim) => Hit(points[2])
                   /\ \A x \in Xs, y \in Ys :
                         SquareDistance(At(x, y), points[1]) < rim => Hit(At(x, y))
        /\ tool = "priceChannelLine" => Hit(Mirrored(points[1], points[2], points[3]))
        /\ tool = "rect" /\ points[1].x # points[2].x /\ points[1].y # points[2].y =>
               Hit(Between(points[1], points[2]))
        /\ tool = "triangle" /\ Area(points[1], points[2], points[3]) > 0 =>
               Hit(Between(points[1], Between(points[2], points[3])))
=============================================================================
