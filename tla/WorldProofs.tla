---------------------------- MODULE WorldProofs -----------------------------
(***************************************************************************)
(* What one tick computes, for any roads, positions and numbers: where a   *)
(* dog gets that crosses at most one border, and how much loot is made.    *)
(***************************************************************************)
EXTENDS World, FiniteSetTheorems, TLAPS

-----------------------------------------------------------------------------
(* The loot generator.                                                     *)

\* Whatever the time and the probability, no more loot is generated than there are dogs
\* without any, and none when there are as many loots as dogs.
THEOREM GeneratesWithinShortage ==
    ASSUME NEW dt \in DOMAIN Probability, NEW lootCount \in Nat, NEW looterCount \in Nat
    PROVE  Generate(dt, lootCount, looterCount) \in 0 .. Shortage(lootCount, looterCount)
<1> DEFINE S == Shortage(lootCount, looterCount)
           P == Probability[dt]
<1>1. S \in Nat
    BY DEF Shortage
<1>2. P \in 0 .. 100
    BY WorldAssumption
<1> HIDE DEF S, P
<1>3. S * P \in 0 .. S * 100
    <2>1. \A a \in Nat, b \in 0 .. 100 : a * b \in Nat /\ a * b <= a * 100
        OBVIOUS
    <2> QED BY <1>1, <1>2, <2>1
<1>4. (S * P) \div 10 \in 0 .. S * 10
    <2> DEFINE N == S * P
    <2>1. N \in 0 .. S * 100
        BY <1>3
    <2> HIDE DEF N
    <2>2. N \div 10 \in 0 .. S * 10
        BY <1>1, <2>1
    <2> QED BY <2>2 DEF N
<1>5. Round((S * P) \div 10) \in 0 .. S
    <2> DEFINE N == (S * P) \div 10
    <2>1. N \in 0 .. S * 10
        BY <1>4
    <2> HIDE DEF N
    <2>2. Round(N) \in 0 .. S
        BY <1>1, <2>1 DEF Round
    <2> QED BY <2>2 DEF N
<1> QED BY <1>5 DEF Generate, S, P

-----------------------------------------------------------------------------
(* Movement.                                                               *)

\* The least and the greatest of two numbers are numbers, in order, and bound both.
LEMMA MinMaxOfTwo ==
    ASSUME NEW a \in Int, NEW b \in Int
    PROVE  /\ Min({a, b}) \in Int /\ Min({a, b}) <= a /\ Min({a, b}) <= b
           /\ Max({a, b}) \in Int /\ a <= Max({a, b}) /\ b <= Max({a, b})
           /\ Min({a, b}) <= Max({a, b})
<1>1. CASE a <= b
    <2>1. Min({a, b}) = a /\ Max({a, b}) = b
        BY <1>1 DEF Min, Max
    <2> QED BY <1>1, <2>1
<1>2. CASE b < a
    <2>1. Min({a, b}) = b /\ Max({a, b}) = a
        BY <1>2 DEF Min, Max
    <2> QED BY <1>2, <2>1
<1> QED BY <1>1, <1>2

\* A border is part of the area of its road.
LEMMA BorderInArea ==
    ASSUME NEW road \in Road, NEW side \in Sides
    PROVE  LET area == Area(road)
               border == Border(road, side)
           IN  /\ {area.left, area.right, area.top, area.bottom} \subseteq Int
               /\ {border.left, border.right, border.top, border.bottom} \subseteq Int
               /\ area.left <= border.left /\ border.right <= area.right
               /\ area.top <= border.top /\ border.bottom <= area.bottom
<1> DEFINE area == Area(road)
<1>1. /\ area.left \in Int /\ area.right \in Int /\ area.left <= area.right
      /\ area.top \in Int /\ area.bottom \in Int /\ area.top <= area.bottom
    <2> DEFINE xMin == Min({road.x0, road.x1})
               xMax == Max({road.x0, road.x1})
               yMin == Min({road.y0, road.y1})
               yMax == Max({road.y0, road.y1})
    <2>1. /\ road.x0 \in Int /\ road.x1 \in Int
          /\ road.y0 \in Int /\ road.y1 \in Int
        BY DEF Road
    <2>2. xMin \in Int /\ xMax \in Int /\ xMin <= xMax
        BY <2>1, MinMaxOfTwo, Zenon
    <2>3. yMin \in Int /\ yMax \in Int /\ yMin <= yMax
        BY <2>1, MinMaxOfTwo, Zenon
    <2>4. /\ area.left = Unit * xMin - RoadRadius /\ area.right = Unit * xMax + RoadRadius
          /\ area.top = Unit * yMin - RoadRadius /\ area.bottom = Unit * yMax + RoadRadius
        BY DEF Area
    <2> HIDE DEF xMin, xMax, yMin, yMax, area
    <2> QED BY <2>2, <2>3, <2>4 DEF Unit, RoadRadius
<1>2. area = [left |-> area.left, right |-> area.right, top |-> area.top,
              bottom |-> area.bottom]
    BY DEF Area
<1> HIDE DEF area
<1>3. /\ Border(road, "left") = [area EXCEPT !.right = area.left]
      /\ Border(road, "right") = [area EXCEPT !.left = area.right]
      /\ Border(road, "top") = [area EXCEPT !.bottom = area.top]
      /\ Border(road, "bottom") = [area EXCEPT !.top = area.bottom]
    BY DEF Border, area
<1>4. side \in {"left", "right", "top", "bottom"}
    BY DEF Sides
<1> QED BY <1>1, <1>2, <1>3, <1>4 DEF area

\* Where a way crosses a border, the road is, between the ends of the way.
LEMMA CrossingsOnRoad ==
    ASSUME NEW road \in Road, NEW side \in Sides, NEW p \in Points, NEW q \in Points,
           NEW c \in Intersection(p, q, Border(road, side))
    PROVE  /\ IsOnRoad(road, c) /\ c \in Points
           /\ Min({p.x, q.x}) <= c.x /\ c.x <= Max({p.x, q.x})
           /\ Min({p.y, q.y}) <= c.y /\ c.y <= Max({p.y, q.y})
<1> DEFINE area == Area(road)
           border == Border(road, side)
           left == Max({Min({p.x, q.x}), border.left})
           right == Min({Max({p.x, q.x}), border.right})
           top == Max({Min({p.y, q.y}), border.top})
           bottom == Min({Max({p.y, q.y}), border.bottom})
           xMin == Min({p.x, q.x})
           xMax == Max({p.x, q.x})
           yMin == Min({p.y, q.y})
           yMax == Max({p.y, q.y})
<1>0. /\ xMin \in Int /\ xMax \in Int /\ yMin \in Int /\ yMax \in Int
      /\ border.left \in Int /\ border.right \in Int
      /\ border.top \in Int /\ border.bottom \in Int
    <2>1. /\ border.left \in Int /\ border.right \in Int
          /\ border.top \in Int /\ border.bottom \in Int
        BY BorderInArea
    <2>2. p.x \in Int /\ p.y \in Int /\ q.x \in Int /\ q.y \in Int
        BY DEF Points
    <2> HIDE DEF border
    <2>3. xMin \in Int /\ xMax \in Int /\ yMin \in Int /\ yMax \in Int
        BY <2>2, MinMaxOfTwo, Zenon
    <2> QED BY <2>1, <2>3
<1>1. /\ left \in Int /\ right \in Int /\ top \in Int /\ bottom \in Int
      /\ border.left <= left /\ right <= border.right
      /\ border.top <= top /\ bottom <= border.bottom
      /\ xMin <= left /\ right <= xMax /\ yMin <= top /\ bottom <= yMax
    <2> HIDE DEF border, xMin, xMax, yMin, yMax
    <2>1. /\ left \in Int /\ border.left <= left /\ xMin <= left
          /\ right \in Int /\ right <= border.right /\ right <= xMax
        <3>1. /\ Max({xMin, border.left}) \in Int /\ border.left <= Max({xMin, border.left})
              /\ xMin <= Max({xMin, border.left})
              /\ Min({xMax, border.right}) \in Int
              /\ Min({xMax, border.right}) <= border.right /\ Min({xMax, border.right}) <= xMax
            BY <1>0, MinMaxOfTwo, Zenon
        <3> QED BY <3>1 DEF xMin, xMax
    <2>2. /\ top \in Int /\ border.top <= top /\ yMin <= top
          /\ bottom \in Int /\ bottom <= border.bottom /\ bottom <= yMax
        <3>1. /\ Max({yMin, border.top}) \in Int /\ border.top <= Max({yMin, border.top})
              /\ yMin <= Max({yMin, border.top})
              /\ Min({yMax, border.bottom}) \in Int
              /\ Min({yMax, border.bottom}) <= border.bottom /\ Min({yMax, border.bottom}) <= yMax
            BY <1>0, MinMaxOfTwo, Zenon
        <3> QED BY <3>1 DEF yMin, yMax
    <2> QED BY <2>1, <2>2
<1>2. /\ left <= right /\ top <= bottom
      /\ \E x \in {left, right}, y \in {top, bottom} : c = [x |-> x, y |-> y]
    <2>1. c \in IF left <= right /\ top <= bottom
                THEN {[x |-> x, y |-> y] : x \in {left, right}, y \in {top, bottom}}
                ELSE {}
        BY DEF Intersection
    <2> HIDE DEF left, right, top, bottom
    <2> QED BY <2>1
<1> HIDE DEF left, right, top, bottom, xMin, xMax, yMin, yMax
<1>3. /\ c.x \in {left, right} /\ c.y \in {top, bottom} /\ c \in Points
    BY <1>1, <1>2 DEF Points
<1>4. /\ area.left \in Int /\ area.right \in Int /\ area.top \in Int /\ area.bottom \in Int
      /\ border.left \in Int /\ border.right \in Int /\ border.top \in Int /\ border.bottom \in Int
      /\ area.left <= border.left /\ border.right <= area.right
      /\ area.top <= border.top /\ border.bottom <= area.bottom
    BY BorderInArea
<1> HIDE DEF border, area
<1>5. c.x \in area.left .. area.right /\ c.y \in area.top .. area.bottom
    BY <1>1, <1>2, <1>3, <1>4
<1>6. xMin <= c.x /\ c.x <= xMax /\ yMin <= c.y /\ c.y <= yMax
    BY <1>0, <1>1, <1>2, <1>3
<1> QED BY <1>3, <1>5, <1>6 DEF IsOnRoad, area, xMin, xMax, yMin, yMax

\* Of four points or fewer one is nearest, and one is farthest.
LEMMA ChooseOne ==
    ASSUME NEW road \in Road, NEW side \in Sides, NEW p \in Points, NEW q \in Points,
           NEW nearest \in BOOLEAN,
           Intersection(p, q, Border(road, side)) # {}
    PROVE  Choose(Intersection(p, q, Border(road, side)), p, nearest)
                \in Intersection(p, q, Border(road, side))
<1> DEFINE ends == Intersection(p, q, Border(road, side))
           better(c, e) == IF nearest THEN Distance(p, c) <= Distance(p, e)
                           ELSE Distance(p, c) >= Distance(p, e)
           corners(x1, x2, y1, y2) == {[x |-> x, y |-> y] : x \in {x1, x2}, y \in {y1, y2}}
<1>1. PICK left, right, top, bottom : ends = corners(left, right, top, bottom)
    <2> DEFINE border == Border(road, side)
               l == Max({Min({p.x, q.x}), border.left})
               r == Min({Max({p.x, q.x}), border.right})
               t == Max({Min({p.y, q.y}), border.top})
               b == Min({Max({p.y, q.y}), border.bottom})
    <2>1. ends = IF l <= r /\ t <= b THEN corners(l, r, t, b) ELSE {}
        BY DEF Intersection
    <2>2. ends = corners(l, r, t, b)
        <3> HIDE DEF ends, corners, l, r, t, b
        <3>1. ends # {}
            BY DEF ends
        <3> QED BY <2>1, <3>1
    <2> HIDE DEF ends, corners, better, l, r, t, b
    <2> QED BY <2>2
<1>2. PICK c1, c2, c3, c4 : ends = {c1, c2, c3, c4}
    <2>1. ends = {[x |-> left, y |-> top], [x |-> left, y |-> bottom],
                  [x |-> right, y |-> top], [x |-> right, y |-> bottom]}
        BY <1>1
    <2> QED BY <2>1
<1>3. \A c \in ends : Distance(p, c) \in Int
    <2> SUFFICES ASSUME NEW c \in ends PROVE Distance(p, c) \in Int
        OBVIOUS
    <2>1. c \in Points
        BY CrossingsOnRoad
    <2> QED BY <2>1 DEF Points, Distance, Abs
<1> HIDE DEF ends
<1>4. ASSUME NEW d1 \in Int, NEW d2 \in Int, NEW d3 \in Int, NEW d4 \in Int
      PROVE  /\ \E m \in {d1, d2, d3, d4} : \A n \in {d1, d2, d3, d4} : m <= n
             /\ \E m \in {d1, d2, d3, d4} : \A n \in {d1, d2, d3, d4} : m >= n
    OBVIOUS
<1>5. \E c \in ends : \A e \in ends : better(c, e)
    <2>1. CASE nearest
        <3>1. PICK m \in {Distance(p, c1), Distance(p, c2), Distance(p, c3), Distance(p, c4)} :
                \A n \in {Distance(p, c1), Distance(p, c2), Distance(p, c3), Distance(p, c4)} :
                    m <= n
            BY <1>2, <1>3, <1>4
        <3> QED BY <1>2, <2>1, <3>1
    <2>2. CASE ~nearest
        <3>1. PICK m \in {Distance(p, c1), Distance(p, c2), Distance(p, c3), Distance(p, c4)} :
                \A n \in {Distance(p, c1), Distance(p, c2), Distance(p, c3), Distance(p, c4)} :
                    m >= n
            BY <1>2, <1>3, <1>4
        <3> QED BY <1>2, <2>2, <3>1
    <2> QED BY <2>1, <2>2
<1>6. Choose(ends, p, nearest) = CHOOSE c \in ends : \A e \in ends : better(c, e)
    BY DEF Choose
<1> HIDE DEF better
<1> QED BY <1>5, <1>6 DEF ends

\* A way crosses finitely many borders.
LEMMA CrossedLinesAreFinite ==
    ASSUME NEW roads \in Seq(Road), NEW p, NEW q, NEW nearest
    PROVE  IsFiniteSet(CrossedLines(roads, p, q, nearest))
<1> DEFINE ends(line) == Intersection(p, q, Border(roads[line[1]], line[2]))
           lines == {line \in (DOMAIN roads) \X Sides : ends(line) # {}}
           crossing == {l \in lines : Choose(ends(l), p, nearest) # p}
<1>1. IsFiniteSet(DOMAIN roads) /\ IsFiniteSet(Sides)
    <2>1. DOMAIN roads = 1 .. Len(roads) /\ Len(roads) \in Nat
        OBVIOUS
    <2>2. IsFiniteSet(1 .. Len(roads))
        BY <2>1, FS_Interval
    <2>3. Sides = (({"left"} \cup {"right"}) \cup {"top"}) \cup {"bottom"}
        BY DEF Sides
    <2>4. IsFiniteSet({"left"} \cup {"right"})
        BY FS_Singleton, FS_AddElement
    <2>5. IsFiniteSet(({"left"} \cup {"right"}) \cup {"top"})
        BY <2>4, FS_AddElement
    <2>6. IsFiniteSet((({"left"} \cup {"right"}) \cup {"top"}) \cup {"bottom"})
        BY <2>5, FS_AddElement
    <2> QED BY <2>1, <2>2, <2>3, <2>6
<1>2. IsFiniteSet((DOMAIN roads) \X Sides)
    BY <1>1, FS_Product
<1>3. crossing \subseteq (DOMAIN roads) \X Sides
    OBVIOUS
<1>4. IsFiniteSet(crossing)
    BY <1>2, <1>3, FS_Subset
<1>5. IsFiniteSet({<<l, Choose(ends(l), p, nearest)>> : l \in crossing})
    <2> DEFINE points == {<<l, Choose(ends(l), p, nearest)>> : l \in crossing}
               point == [l \in crossing |-> <<l, Choose(ends(l), p, nearest)>>]
    <2> HIDE DEF ends, crossing
    <2>1. point \in Surjection(crossing, points)
        BY DEF Surjection
    <2> HIDE DEF points, point
    <2>2. IsFiniteSet(points)
        BY <1>4, <2>1, FS_Surjection
    <2> QED BY <2>2 DEF points
<1> QED BY <1>5 DEF CrossedLines

\* A dog on the roads that crosses at most one border in a tick ends it on the roads: it
\* gets where it heads for if that is on a road, and stops at the border otherwise.  (Only
\* with several borders does the code sample the way.)
THEOREM OneBorderStopsAtTheRoad ==
    ASSUME NEW roads \in Seq(Road), NEW p \in Points, NEW q \in Points,
           NEW nearest \in BOOLEAN,
           IsOnRoads(roads, p),
           Cardinality(CrossedLines(roads, p, q, nearest)) <= 1
    PROVE  IsOnRoads(roads, Reached(roads, p, q, nearest))
<1> DEFINE crossed == CrossedLines(roads, p, q, nearest)
<1>1. IsFiniteSet(crossed) /\ Cardinality(crossed) \in {0, 1}
    BY CrossedLinesAreFinite, FS_CardinalityType
<1>2. CASE Cardinality(crossed) = 0
    BY <1>1, <1>2 DEF Reached
<1>3. CASE Cardinality(crossed) = 1
    <2>1. PICK line : crossed = {line}
        BY <1>1, <1>3, FS_Singleton
    <2>2. PICK i \in DOMAIN roads, side \in Sides :
            /\ Intersection(p, q, Border(roads[i], side)) # {}
            /\ line[2] = Choose(Intersection(p, q, Border(roads[i], side)), p, nearest)
        <3>1. line \in crossed
            BY <2>1
        <3>2. PICK l \in (DOMAIN roads) \X Sides :
                /\ Intersection(p, q, Border(roads[l[1]], l[2])) # {}
                /\ line = <<l, Choose(Intersection(p, q, Border(roads[l[1]], l[2])),
                                      p, nearest)>>
            BY <3>1 DEF CrossedLines
        <3>3. l[1] \in DOMAIN roads /\ l[2] \in Sides
            OBVIOUS
        <3> QED BY <3>2, <3>3
    <2>3. roads[i] \in Road
        OBVIOUS
    <2>4. IsOnRoads(roads, line[2]) /\ line[2] \in Points
        <3>1. line[2] \in Intersection(p, q, Border(roads[i], side))
            BY <2>2, <2>3, ChooseOne
        <3>2. IsOnRoad(roads[i], line[2]) /\ line[2] \in Points
            BY <2>3, <3>1, CrossingsOnRoad
        <3> QED BY <3>2 DEF IsOnRoads
    <2>5. {l[2] : l \in crossed} = {line[2]}
        BY <2>1
    <2>6. FarthestPoint(p, {line[2]}) = line[2]
        <3>1. Distance(p, line[2]) <= Distance(p, line[2])
            BY <2>4 DEF Distance, Abs, Points
        <3> QED BY <3>1 DEF FarthestPoint
    <2> HIDE DEF crossed
    <2>7. Reached(roads, p, q, nearest) = IF IsOnRoads(roads, q) THEN q ELSE line[2]
        <3> DEFINE points == {l[2] : l \in crossed}
                   good == {c \in Candidates(points, q) : AllPointsOnRoad(roads, p, c)}
                   inside == IsOnRoads(roads, q)
        <3>1. Reached(roads, p, q, nearest) =
                CASE Cardinality(crossed) = 0 -> IF inside THEN q ELSE p
                  [] Cardinality(crossed) = 1 ->
                        IF inside THEN q ELSE FarthestPoint(p, points)
                  [] OTHER -> FarthestPoint(p, good)
            BY DEF Reached, crossed
        <3>2. points = {line[2]}
            BY <2>5
        <3> HIDE DEF points, good, inside
        <3>3. Reached(roads, p, q, nearest) = IF inside THEN q ELSE FarthestPoint(p, points)
            BY <1>3, <3>1
        <3> QED BY <2>6, <3>2, <3>3 DEF inside
    <2> QED BY <2>4, <2>7
<1> QED BY <1>1, <1>2, <1>3

=============================================================================
