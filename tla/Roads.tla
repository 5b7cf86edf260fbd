------------------------------- MODULE Roads --------------------------------
(***************************************************************************)
(* How far a dog gets in one tick: the first part of                       *)
(* Game::UpdatePositionAndBag in model.cpp, and what it ought to compute.  *)
(*                                                                         *)
(* The code calculates with doubles and rounds positions to a thousandth   *)
(* of a unit.  Here all lengths are whole thousandths, and the arithmetic  *)
(* is exact.  A road has the coordinates of the configuration, in units.   *)
(* Dogs move along the axes only.                                          *)
(***************************************************************************)
EXTENDS Integers, FiniteSetsExt, SequencesExt

Unit == 1000
RoadRadius == 400
StepAlongThePath == 1001    \* 0.1001, in tenths of a thousandth

Road == [x0 : Int, y0 : Int, x1 : Int, y1 : Int]
Points == [x : Int, y : Int]

\* What a road covers, and its four borders, as boxes.
Area(road) ==
    [left |-> Unit * Min({road.x0, road.x1}) - RoadRadius,
     right |-> Unit * Max({road.x0, road.x1}) + RoadRadius,
     top |-> Unit * Min({road.y0, road.y1}) - RoadRadius,
     bottom |-> Unit * Max({road.y0, road.y1}) + RoadRadius]

Sides == {"left", "right", "top", "bottom"}
Border(road, side) ==
    LET area == Area(road)
    IN  CASE side = "left" -> [area EXCEPT !.right = area.left]
          [] side = "right" -> [area EXCEPT !.left = area.right]
          [] side = "top" -> [area EXCEPT !.bottom = area.top]
          [] side = "bottom" -> [area EXCEPT !.top = area.bottom]

IsOnRoad(road, p) ==
    LET area == Area(road)
    IN  p.x \in area.left .. area.right /\ p.y \in area.top .. area.bottom
IsOnRoads(roads, p) == \E i \in DOMAIN roads : IsOnRoad(roads[i], p)

\* Integer positions of roads, where dogs and loot are placed.
SpawnPoints(roads) ==
    UNION {{[x |-> Unit * x, y |-> Unit * y] :
                x \in Min({r.x0, r.x1}) .. Max({r.x0, r.x1}),
                y \in Min({r.y0, r.y1}) .. Max({r.y0, r.y1})} : r \in ToSet(roads)}

Abs(n) == IF n < 0 THEN -n ELSE n
Distance(p, q) == Abs(q.x - p.x) + Abs(q.y - p.y)   \* on one axis

\* The ends of what the way from p to q and a border have in common.
Intersection(p, q, border) ==
    LET left == Max({Min({p.x, q.x}), border.left})
        right == Min({Max({p.x, q.x}), border.right})
        top == Max({Min({p.y, q.y}), border.top})
        bottom == Min({Max({p.y, q.y}), border.bottom})
    IN  IF left <= right /\ top <= bottom
        THEN {[x |-> x, y |-> y] : x \in {left, right}, y \in {top, bottom}}
        ELSE {}

\* The crossing point that cross() takes when a dog walks along a border: of the two ends
\* boost::geometry returns, the one that comes first, which is either.
Choose(ends, p, nearest) ==
    CHOOSE c \in ends : \A e \in ends :
        IF nearest THEN Distance(p, c) <= Distance(p, e) ELSE Distance(p, c) >= Distance(p, e)

\* The borders crossed on the way from p to q, as pairs of a border and a point.
\* A crossing where the dog stands does not count.
CrossedLines(roads, p, q, nearest) ==
    LET ends(line) == Intersection(p, q, Border(roads[line[1]], line[2]))
        lines == {line \in (DOMAIN roads) \X Sides : ends(line) # {}}
    IN  {<<line, Choose(ends(line), p, nearest)>> : line \in
            {l \in lines : Choose(ends(l), p, nearest) # p}}

\* std::round, of tenths
Round(tenths) == IF tenths < 0 THEN -((5 - tenths) \div 10) ELSE (tenths + 5) \div 10

Toward(from, to, step) == IF to > from THEN step ELSE IF to < from THEN -step ELSE 0

\* Mutant: the samples of a path lie half as close.
AllPointsOnRoadCoarsely(roads, p, c) ==
    \A k \in 1 .. (10 * Distance(p, c) - 1) \div (2 * StepAlongThePath) :
        IsOnRoads(roads,
            [x |-> Round(10 * p.x + Toward(p.x, c.x, 2 * StepAlongThePath * k)),
             y |-> Round(10 * p.y + Toward(p.y, c.y, 2 * StepAlongThePath * k))])

\* Samples of the path to c, c itself not among them.
AllPointsOnRoad(roads, p, c) ==
    \A k \in 1 .. (10 * Distance(p, c) - 1) \div StepAlongThePath :
        IsOnRoads(roads,
            [x |-> Round(10 * p.x + Toward(p.x, c.x, StepAlongThePath * k)),
             y |-> Round(10 * p.y + Toward(p.y, c.y, StepAlongThePath * k))])

FarthestPoint(p, points) ==
    IF points = {} THEN p
    ELSE CHOOSE c \in points : \A d \in points : Distance(p, d) <= Distance(p, c)

\* Mutant: where the dog heads for is forgotten when it crosses borders.
CrossedOnly(points, q) == points

\* Where a dog that crosses several borders may stop.
Candidates(points, q) == points \cup {q}

\* Where a dog at p that heads for q gets.
Reached(roads, p, q, nearest) ==
    LET crossed == CrossedLines(roads, p, q, nearest)
        points == {line[2] : line \in crossed}
        inside == IsOnRoads(roads, q)
        good == {c \in Candidates(points, q) : AllPointsOnRoad(roads, p, c)}
    IN  CASE Cardinality(crossed) = 0 -> IF inside THEN q ELSE p
          [] Cardinality(crossed) = 1 -> IF inside THEN q ELSE FarthestPoint(p, points)
          [] OTHER -> FarthestPoint(p, good)

-----------------------------------------------------------------------------
(* What a dog ought to do: walk on until it is there or the roads end.     *)

Ahead(p, dir, n) == [x |-> p.x + dir.x * n, y |-> p.y + dir.y * n]

\* How far it is from p to where a road that p is level with ends.
Ends(roads, p, dir) ==
    LET area(i) == Area(roads[i])
        far(i) == CASE dir.x = 1 -> area(i).right - p.x
                    [] dir.x = -1 -> p.x - area(i).left
                    [] dir.y = 1 -> area(i).bottom - p.y
                    [] dir.y = -1 -> p.y - area(i).top
    IN  {far(i) : i \in {j \in DOMAIN roads :
            far(j) >= 0 /\ IsOnRoad(roads[j], Ahead(p, dir, far(j)))}}

\* How far one can walk: to the first end of a road after which there is no road.
Walk(roads, p, dir) ==
    IF IsOnRoads(roads, p)
    THEN Min({n \in Ends(roads, p, dir) : ~IsOnRoads(roads, Ahead(p, dir, n + 1))})
    ELSE 0
=============================================================================
