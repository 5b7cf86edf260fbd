------------------------- MODULE WorldSafetyProofs --------------------------
(***************************************************************************)
(* What holds of a session of the game for every map, every number of dogs *)
(* and loots, and ticks of any length: proofs of the safety properties of  *)
(* World.  The bounds of World's CONSTANTS are parameters here.            *)
(*                                                                         *)
(* The orders of gather events, the states between them and the sum of     *)
(* what the dogs own are recursive functions; what is said of them is      *)
(* proved by induction first.                                              *)
(***************************************************************************)
EXTENDS WorldProofs, InductionLemmas, SequenceTheorems

\* The recursive sum of OwnedBelow, taken apart.
LEMMA OwnedBelowUnfolds ==
    ASSUME NEW pack
    PROVE  /\ OwnedBelow(pack, 0) = 0
           /\ \A n \in Nat : OwnedBelow(pack, n + 1) = OwnedBelow(pack, n) + Owned(pack, n)
<1> DEFINE own(k) == Owned(pack, k)
           IsSum(f, n) == f = [k \in 0 .. n |-> IF k = 0 THEN 0 ELSE f[k - 1] + own(k - 1)]
           sum(n) == CHOOSE f : IsSum(f, n)
           Exist == {n \in Nat : \E f : IsSum(f, n)}
<1>1. \A n : OwnedBelow(pack, n) = sum(n)[n]
    BY DEF OwnedBelow
<1> HIDE DEF own
<1>2. 0 \in Exist
    <2>1. IsSum([k \in 0 .. 0 |-> 0], 0)
        OBVIOUS
    <2> QED BY <2>1
<1>3. ASSUME NEW n \in Nat, n \in Exist PROVE n + 1 \in Exist
    <2>1. PICK f : IsSum(f, n)
        BY <1>3
    <2> DEFINE g == [k \in 0 .. n + 1 |-> IF k = n + 1 THEN f[n] + own(n) ELSE f[k]]
    <2>2. ASSUME NEW k \in 0 .. n + 1
          PROVE  g[k] = IF k = 0 THEN 0 ELSE g[k - 1] + own(k - 1)
        <3>1. CASE k = n + 1
            BY <3>1
        <3>2. CASE k # n + 1
            BY <2>1, <3>2
        <3> QED BY <3>1, <3>2
    <2>3. g = [k \in 0 .. n + 1 |-> g[k]]
        OBVIOUS
    <2> HIDE DEF g
    <2>4. IsSum(g, n + 1)
        BY <2>2, <2>3
    <2> QED BY <2>4
<1>4. \A n \in Nat : IsSum(sum(n), n)
    <2> HIDE DEF IsSum, Exist
    <2>1. \A n \in Nat : n \in Exist
        BY <1>2, <1>3, Induction
    <2> QED BY <2>1 DEF Exist
<1> HIDE DEF sum, Exist
<1>5. \A n \in Nat, k \in Nat : k <= n =>
        sum(n)[k] = IF k = 0 THEN 0 ELSE sum(n)[k - 1] + own(k - 1)
    BY <1>4
<1> HIDE DEF IsSum
<1> DEFINE Agree == {k \in Nat : \A n, m \in Nat : k <= n /\ k <= m => sum(n)[k] = sum(m)[k]}
<1>6. 0 \in Agree
    BY <1>5
<1>7. ASSUME NEW k \in Nat, k \in Agree PROVE k + 1 \in Agree
    <2> SUFFICES ASSUME NEW n \in Nat, NEW m \in Nat, k + 1 <= n, k + 1 <= m
                 PROVE  sum(n)[k + 1] = sum(m)[k + 1]
        OBVIOUS
    <2>1. sum(n)[k + 1] = sum(n)[k] + own(k) /\ sum(m)[k + 1] = sum(m)[k] + own(k)
        BY <1>5
    <2>2. sum(n)[k] = sum(m)[k]
        BY <1>7
    <2> QED BY <2>1, <2>2
<1> HIDE DEF Agree
<1>8. \A k \in Nat : k \in Agree
    BY <1>6, <1>7, Induction
<1>9. ASSUME NEW n \in Nat PROVE sum(n + 1)[n + 1] = sum(n)[n] + own(n)
    <2>1. sum(n + 1)[n + 1] = sum(n + 1)[n] + own(n)
        BY <1>5
    <2>2. sum(n + 1)[n] = sum(n)[n]
        BY <1>8 DEF Agree
    <2> QED BY <2>1, <2>2
<1> QED BY <1>1, <1>5, <1>9 DEF own

\* Owners of the same own the same in sum; what one of them gains the sum gains; and none
\* of them owns more than the sum.
LEMMA OwnedBelowChanges ==
    ASSUME NEW pack, NEW other, NEW n \in Nat,
           \A k \in 0 .. n - 1 : Owned(pack, k) \in Nat /\ Owned(other, k) \in Nat
    PROVE  /\ OwnedBelow(pack, n) \in Nat
           /\ \A d \in 0 .. n - 1 : Owned(pack, d) <= OwnedBelow(pack, n)
           /\ (\A k \in 0 .. n - 1 : Owned(other, k) = Owned(pack, k))
                => OwnedBelow(other, n) = OwnedBelow(pack, n)
           /\ \A d \in 0 .. n - 1 :
                (\A k \in 0 .. n - 1 : k # d => Owned(other, k) = Owned(pack, k))
                => OwnedBelow(other, n) + Owned(pack, d) = OwnedBelow(pack, n) + Owned(other, d)
<1> DEFINE p(k) == Owned(pack, k)
           o(k) == Owned(other, k)
           P(k) == OwnedBelow(pack, k)
           O(k) == OwnedBelow(other, k)
<1>1. /\ P(0) = 0 /\ \A k \in Nat : P(k + 1) = P(k) + p(k)
      /\ O(0) = 0 /\ \A k \in Nat : O(k + 1) = O(k) + o(k)
    BY OwnedBelowUnfolds
<1>2. \A k \in 0 .. n - 1 : p(k) \in Nat /\ o(k) \in Nat
    OBVIOUS
<1> HIDE DEF p, o, P, O
<1> DEFINE
        Fact(m) ==
            /\ P(m) \in Nat /\ O(m) \in Nat
            /\ \A d \in 0 .. m - 1 : p(d) <= P(m)
            /\ (\A k \in 0 .. m - 1 : o(k) = p(k)) => O(m) = P(m)
            /\ \A d \in 0 .. m - 1 :
                 (\A k \in 0 .. m - 1 : k # d => o(k) = p(k)) => O(m) + p(d) = P(m) + o(d)
        Good == {m \in Nat : m <= n => Fact(m)}
<1>3. 0 \in Good
    BY <1>1
<1>4. ASSUME NEW m \in Nat, m \in Good PROVE m + 1 \in Good
    <2> SUFFICES ASSUME m + 1 <= n PROVE Fact(m + 1)
        OBVIOUS
    <2>1. Fact(m) /\ p(m) \in Nat /\ o(m) \in Nat
        BY <1>2, <1>4
    <2>2. P(m + 1) = P(m) + p(m) /\ O(m + 1) = O(m) + o(m)
        BY <1>1
    <2>3. P(m + 1) \in Nat /\ O(m + 1) \in Nat
        BY <2>1, <2>2
    <2>4. ASSUME NEW d \in 0 .. m PROVE p(d) <= P(m + 1)
        <3>1. CASE d = m
            BY <2>1, <2>2, <3>1
        <3>2. CASE d \in 0 .. m - 1
            BY <1>2, <2>1, <2>2, <3>2
        <3> QED BY <3>1, <3>2
    <2>5. ASSUME \A k \in 0 .. m : o(k) = p(k) PROVE O(m + 1) = P(m + 1)
        BY <2>1, <2>2, <2>5
    <2>6. ASSUME NEW d \in 0 .. m, \A k \in 0 .. m : k # d => o(k) = p(k)
          PROVE  O(m + 1) + p(d) = P(m + 1) + o(d)
        <3>1. CASE d = m
            <4>1. \A k \in 0 .. m - 1 : o(k) = p(k)
                BY <2>6, <3>1
            <4> QED BY <2>1, <2>2, <3>1, <4>1
        <3>2. CASE d \in 0 .. m - 1
            <4>1. O(m) + p(d) = P(m) + o(d)
                BY <2>1, <2>6, <3>2
            <4>2. o(m) = p(m)
                BY <2>6, <3>2
            <4>3. p(d) \in Nat /\ o(d) \in Nat
                BY <1>2, <3>2
            <4> QED BY <2>1, <2>2, <4>1, <4>2, <4>3
        <3> QED BY <3>1, <3>2
    <2>7. (m + 1) - 1 = m
        OBVIOUS
    <2> QED BY <2>3, <2>4, <2>5, <2>6, <2>7
<1> HIDE DEF Good
<1>5. \A m \in Nat : m \in Good
    BY <1>3, <1>4, Induction
<1>6. Fact(n)
    BY <1>5 DEF Good
<1> QED BY <1>6 DEF p, o, P, O

\* What HandleAll computes, one state after every event.
LEMMA HandleAllUnfolds ==
    ASSUME NEW moved, NEW order, Len(order) \in Nat
    PROVE  \E after :
            /\ after[0] = [dogs |-> moved, loots |-> loots, collected |-> {}]
            /\ \A n \in 1 .. Len(order) : after[n] = Handle(after[n - 1], order[n])
            /\ HandleAll(moved, order) = after[Len(order)]
<1> DEFINE start == [dogs |-> moved, loots |-> loots, collected |-> {}]
           Step(state, n) == Handle(state, order[n])
           Is(f, n) == f = [k \in 0 .. n |-> IF k = 0 THEN start ELSE Step(f[k - 1], k)]
           Exist == {n \in Nat : \E f : Is(f, n)}
<1>1. HandleAll(moved, order) = (CHOOSE f : Is(f, Len(order)))[Len(order)]
    BY DEF HandleAll
<1> HIDE DEF start, Step
<1>2. 0 \in Exist
    <2>1. Is([k \in 0 .. 0 |-> start], 0)
        OBVIOUS
    <2> QED BY <2>1
<1>3. ASSUME NEW n \in Nat, n \in Exist PROVE n + 1 \in Exist
    <2>1. PICK f : Is(f, n)
        BY <1>3
    <2> DEFINE g == [k \in 0 .. n + 1 |-> IF k = n + 1 THEN Step(f[n], n + 1) ELSE f[k]]
    <2>2. ASSUME NEW k \in 0 .. n + 1
          PROVE  g[k] = IF k = 0 THEN start ELSE Step(g[k - 1], k)
        <3>1. CASE k = n + 1
            BY <3>1
        <3>2. CASE k # n + 1
            BY <2>1, <3>2
        <3> QED BY <3>1, <3>2
    <2>3. g = [k \in 0 .. n + 1 |-> g[k]]
        OBVIOUS
    <2> HIDE DEF g
    <2>4. Is(g, n + 1)
        BY <2>2, <2>3
    <2> QED BY <2>4
<1> HIDE DEF Exist
<1>4. \A n \in Nat : n \in Exist
    BY <1>2, <1>3, Induction
<1>5. Is(CHOOSE f : Is(f, Len(order)), Len(order))
    BY <1>4 DEF Exist
<1> DEFINE after == CHOOSE f : Is(f, Len(order))
<1>6. /\ after[0] = start
      /\ \A n \in 1 .. Len(order) : after[n] = Step(after[n - 1], n)
    <2> HIDE DEF after
    <2>1. Is(after, Len(order))
        BY <1>5 DEF after
    <2> QED BY <2>1
<1> HIDE DEF Is
<1> QED BY <1>1, <1>6 DEF start, Step

\* Of finitely many events every order in which they are handled has them all, and has
\* none before another that is not later.
LEMMA OrdersAreSorted ==
    ASSUME NEW events, IsFiniteSet(events), NEW order \in Orders(events)
    PROVE  /\ order \in Seq(events)
           /\ \A e \in events : \E i \in 1 .. Len(order) : order[i] = e
           /\ \A i, j \in 1 .. Len(order) : i < j => NotLater(order[i], order[j])
<1> DEFINE later(rest, e) == \A g \in rest : NotLater(e, g)
           Step(f, rest) ==
                IF rest = {} THEN {<<>>}
                ELSE UNION {{<<e>> \o o : o \in f[rest \ {e}]} : e \in {h \in rest : later(rest, h)}}
           Small(n) == {rest \in SUBSET events : Cardinality(rest) <= n}
           Is(f, S) == f = [rest \in S |-> Step(f, rest)]
           Exist == {n \in Nat : \E f : Is(f, Small(n))}
           orders == CHOOSE f : Is(f, SUBSET events)
<1>1. Orders(events) = orders[events]
    BY DEF Orders
<1>2. \A rest \in SUBSET events :
        /\ Cardinality(rest) \in Nat
        /\ Cardinality(rest) <= Cardinality(events)
        /\ Cardinality(rest) = 0 <=> rest = {}
        /\ \A e \in rest : Cardinality(rest \ {e}) = Cardinality(rest) - 1
    BY FS_Subset, FS_CardinalityType, FS_EmptySet, FS_RemoveElement
<1> DEFINE Rest(f, e, rest) == {<<e>> \o o : o \in f[rest \ {e}]}
<1>3. ASSUME NEW f, NEW g, NEW rest, \A e \in rest : f[rest \ {e}] = g[rest \ {e}]
      PROVE  Step(f, rest) = Step(g, rest)
    <2> HIDE DEF later
    <2>1. \A e \in rest : Rest(f, e, rest) = Rest(g, e, rest)
        BY <1>3
    <2> DEFINE first == {h \in rest : later(rest, h)}
    <2>2. first \subseteq rest
        OBVIOUS
    <2>3. {Rest(f, e, rest) : e \in first} = {Rest(g, e, rest) : e \in first}
        <3> HIDE DEF Rest, first
        <3> QED BY <2>1, <2>2
    <2> QED BY <2>3
<1> HIDE DEF later
<1>4. 0 \in Exist
    <2> DEFINE f == [rest \in Small(0) |-> {<<>>}]
    <2>1. \A rest \in Small(0) : rest = {}
        BY <1>2
    <2>2. Is(f, Small(0))
        <3> HIDE DEF Small
        <3> QED BY <2>1
    <2> QED BY <2>2
<1>5. ASSUME NEW n \in Nat, n \in Exist PROVE n + 1 \in Exist
    <2> HIDE DEF Step
    <2>1. PICK f : Is(f, Small(n))
        BY <1>5
    <2> DEFINE g == [rest \in Small(n + 1) |-> Step(f, rest)]
    <2>2. ASSUME NEW rest \in Small(n + 1) PROVE g[rest] = Step(g, rest)
        <3>1. ASSUME NEW e \in rest PROVE f[rest \ {e}] = g[rest \ {e}]
            <4>1. rest \ {e} \in Small(n) /\ rest \ {e} \in Small(n + 1)
                BY <1>2
            <4> HIDE DEF Small
            <4> QED BY <2>1, <4>1
        <3> HIDE DEF Small
        <3>2. Step(f, rest) = Step(g, rest)
            <4> HIDE DEF g
            <4> QED BY <1>3, <3>1
        <3> QED BY <3>2
    <2>3. g = [rest \in Small(n + 1) |-> g[rest]]
        OBVIOUS
    <2> HIDE DEF g, Small
    <2>4. Is(g, Small(n + 1))
        BY <2>2, <2>3
    <2> QED BY <2>4
<1> HIDE DEF Exist
<1>6. \A n \in Nat : n \in Exist
    BY <1>4, <1>5, Induction
<1>7. Small(Cardinality(events)) = SUBSET events /\ Cardinality(events) \in Nat
    BY <1>2
<1>8. Is(orders, SUBSET events)
    <2> HIDE DEF Is, Small
    <2>1. \E f : Is(f, SUBSET events)
        BY <1>6, <1>7 DEF Exist
    <2> QED BY <2>1
<1> HIDE DEF orders, Small
<1> DEFINE
        Sorted(o, rest) ==
            /\ o \in Seq(rest)
            /\ \A e \in rest : \E i \in 1 .. Len(o) : o[i] = e
            /\ \A i, j \in 1 .. Len(o) : i < j => NotLater(o[i], o[j])
        Good == {n \in Nat : \A rest \in SUBSET events :
                    Cardinality(rest) = n => \A o \in orders[rest] : Sorted(o, rest)}
<1>9. 0 \in Good
    <2> SUFFICES ASSUME NEW rest \in SUBSET events, Cardinality(rest) = 0,
                        NEW o \in orders[rest]
                 PROVE  Sorted(o, rest)
        OBVIOUS
    <2>1. rest = {}
        BY <1>2
    <2>2. o = <<>>
        BY <1>8, <2>1
    <2> QED BY <2>1, <2>2
<1>10. ASSUME NEW n \in Nat, n \in Good PROVE n + 1 \in Good
    <2> SUFFICES ASSUME NEW rest \in SUBSET events, Cardinality(rest) = n + 1,
                        NEW o \in orders[rest]
                 PROVE  Sorted(o, rest)
        OBVIOUS
    <2>1. rest # {}
        BY <1>2
    <2>2. o \in Step(orders, rest)
        BY <1>8
    <2>3. PICK e \in rest : later(rest, e) /\ o \in Rest(orders, e, rest)
        BY <2>1, <2>2
    <2>4. PICK p \in orders[rest \ {e}] : o = <<e>> \o p
        BY <2>3
    <2>5. Cardinality(rest \ {e}) = n /\ rest \ {e} \in SUBSET events
        BY <1>2
    <2>6. Sorted(p, rest \ {e})
        BY <1>10, <2>4, <2>5
    <2>7. p \in Seq(rest) /\ <<e>> \in Seq(rest) /\ Len(<<e>>) = 1 /\ <<e>>[1] = e
        BY <2>6
    <2>8. o \in Seq(rest) /\ Len(o) = Len(p) + 1 /\ Len(p) \in Nat
        BY <2>4, <2>7
    <2>9. o[1] = e /\ \A i \in 1 .. Len(p) : o[i + 1] = p[i]
        BY <2>4, <2>7
    <2>10. ASSUME NEW g \in rest PROVE \E i \in 1 .. Len(o) : o[i] = g
        <3>1. CASE g = e
            BY <2>8, <2>9, <3>1
        <3>2. CASE g # e
            <4>1. PICK i \in 1 .. Len(p) : p[i] = g
                BY <2>6, <3>2
            <4>2. i + 1 \in 1 .. Len(o) /\ o[i + 1] = g
                BY <2>8, <2>9, <4>1
            <4> QED BY <4>2
        <3> QED BY <3>1, <3>2
    <2>11. ASSUME NEW i \in 1 .. Len(o), NEW j \in 1 .. Len(o), i < j
           PROVE  NotLater(o[i], o[j])
        <3>1. j - 1 \in 1 .. Len(p) /\ o[j] = p[j - 1]
            <4>1. j - 1 \in 1 .. Len(p) /\ (j - 1) + 1 = j
                BY <2>8, <2>11
            <4> QED BY <2>9, <4>1
        <3>2. CASE i = 1
            <4>1. o[j] \in rest
                <5>1. p[j - 1] \in rest
                    BY <2>7, <3>1, ElementOfSeq
                <5> QED BY <3>1, <5>1
            <4> QED BY <2>3, <2>9, <3>2, <4>1 DEF later
        <3>3. CASE i # 1
            <4>1. i - 1 \in 1 .. Len(p) /\ (i - 1) + 1 = i /\ i - 1 < j - 1
                BY <2>8, <2>11, <3>1, <3>3
            <4>2. o[i] = p[i - 1]
                BY <2>9, <4>1
            <4> QED BY <2>6, <3>1, <4>1, <4>2
        <3> QED BY <3>2, <3>3
    <2> QED BY <2>8, <2>10, <2>11
<1> HIDE DEF Good
<1>11. \A n \in Nat : n \in Good
    BY <1>9, <1>10, Induction
<1>12. \A o \in orders[events] : Sorted(o, events)
    BY <1>2, <1>11 DEF Good
<1> QED BY <1>1, <1>12

-----------------------------------------------------------------------------
(* Movement.                                                               *)

\* The least and the greatest of two numbers are two of them.
LEMMA ExtremesOfTwo ==
    ASSUME NEW a \in Int, NEW b \in Int
    PROVE  Min({a, b}) \in {a, b} /\ Max({a, b}) \in {a, b}
<1>1. CASE a <= b
    <2>1. Min({a, b}) = a /\ Max({a, b}) = b
        BY <1>1 DEF Min, Max
    <2> QED BY <2>1
<1>2. CASE b < a
    <2>1. Min({a, b}) = b /\ Max({a, b}) = a
        BY <1>2 DEF Min, Max
    <2> QED BY <2>1
<1> QED BY <1>1, <1>2

\* The farthest of finitely many points is one of them.
LEMMA FarthestIsOneOfThem ==
    ASSUME NEW p \in Points, NEW S, S \subseteq Points, IsFiniteSet(S)
    PROVE  FarthestPoint(p, S) \in S \cup {p}
<1>1. CASE S = {}
    BY <1>1 DEF FarthestPoint
<1>2. CASE S # {}
    <2> DEFINE far == [c \in S |-> Distance(p, c)]
    <2>1. \A c \in S : far[c] \in Int
        BY DEF Points, Distance, Abs
    <2> HIDE DEF far
    <2>2. PICK c \in S : \A d \in S : far[d] <= far[c]
        BY <1>2, <2>1, GreatestOfFinite
    <2>3. \A d \in S : Distance(p, d) <= Distance(p, c)
        BY <2>2 DEF far
    <2> QED BY <1>2, <2>3 DEF FarthestPoint
<1> QED BY <1>1, <1>2

\* Wherever a dog heads for, it gets to a point.
LEMMA ReachesAPoint ==
    ASSUME NEW roads \in Seq(Road), NEW p \in Points, NEW q \in Points,
           NEW nearest \in BOOLEAN
    PROVE  Reached(roads, p, q, nearest) \in Points
<1> DEFINE crossed == CrossedLines(roads, p, q, nearest)
           points == {line[2] : line \in crossed}
           inside == IsOnRoads(roads, q)
           good == {c \in Candidates(points, q) : AllPointsOnRoad(roads, p, c)}
<1>1. Reached(roads, p, q, nearest) =
        CASE Cardinality(crossed) = 0 -> IF inside THEN q ELSE p
          [] Cardinality(crossed) = 1 -> IF inside THEN q ELSE FarthestPoint(p, points)
          [] OTHER -> FarthestPoint(p, good)
    BY DEF Reached
<1>2. points \subseteq Points
    <2> SUFFICES ASSUME NEW line \in crossed PROVE line[2] \in Points
        OBVIOUS
    <2>1. PICK l \in (DOMAIN roads) \X Sides :
            /\ Intersection(p, q, Border(roads[l[1]], l[2])) # {}
            /\ line = <<l, Choose(Intersection(p, q, Border(roads[l[1]], l[2])), p, nearest)>>
        BY DEF CrossedLines
    <2>2. l[1] \in DOMAIN roads /\ l[2] \in Sides
        OBVIOUS
    <2>3. roads[l[1]] \in Road
        BY <2>2
    <2>4. line[2] \in Intersection(p, q, Border(roads[l[1]], l[2]))
        BY <2>1, <2>2, <2>3, ChooseOne
    <2> QED BY <2>2, <2>3, <2>4, CrossingsOnRoad
<1>3. IsFiniteSet(points)
    <2> DEFINE point == [line \in crossed |-> line[2]]
    <2>1. point \in Surjection(crossed, points)
        <3> HIDE DEF crossed
        <3> QED BY DEF Surjection
    <2>2. IsFiniteSet(crossed)
        BY CrossedLinesAreFinite
    <2> HIDE DEF point, points, crossed
    <2> QED BY <2>1, <2>2, FS_Surjection
<1> HIDE DEF points
<1>4. good \subseteq Points /\ IsFiniteSet(good)
    <2>1. IsFiniteSet(points \cup {q}) /\ good \subseteq points \cup {q}
        BY <1>3, FS_AddElement DEF Candidates
    <2>2. IsFiniteSet(good)
        BY <2>1, FS_Subset
    <2> QED BY <1>2, <2>1, <2>2
<1> HIDE DEF good, inside, crossed
<1>5. FarthestPoint(p, points) \in Points /\ FarthestPoint(p, good) \in Points
    BY <1>2, <1>3, <1>4, FarthestIsOneOfThem
<1> QED BY <1>1, <1>5

\* A sample that was meant to lie no farther off than a step lies near when it is rounded.
LEMMA RoundsClosely ==
    ASSUME NEW b \in Int, NEW tenths \in Int,
           10 * b - StepAlongThePath <= tenths, tenths <= 10 * b + StepAlongThePath
    PROVE  Round(tenths) \in b - Unsampled .. b + Unsampled
BY DEF Round, StepAlongThePath, Unsampled

\* The last sample on an axis, when there is one, is near the end.
LEMMA LastSampleIsNear ==
    ASSUME NEW a \in Int, NEW b \in Int, NEW n \in Int, n = Abs(b - a), NEW k \in Int,
           k = (10 * n - 1) \div StepAlongThePath
    PROVE  Round(10 * a + Toward(a, b, StepAlongThePath * k)) \in b - Unsampled .. b + Unsampled
<1> DEFINE sample == 10 * a + Toward(a, b, StepAlongThePath * k)
<1>1. /\ StepAlongThePath * k <= 10 * n - 1
      /\ 10 * n - 1 < StepAlongThePath * k + StepAlongThePath
    BY DEF StepAlongThePath
<1>2. CASE b > a
    <2>1. n = b - a /\ sample = 10 * a + StepAlongThePath * k
        BY <1>2 DEF Abs, Toward
    <2>2. 10 * b - StepAlongThePath <= sample /\ sample <= 10 * b + StepAlongThePath /\ sample \in Int
        BY <1>1, <2>1 DEF StepAlongThePath
    <2> HIDE DEF sample
    <2>3. Round(sample) \in b - Unsampled .. b + Unsampled
        BY <2>2, RoundsClosely
    <2> QED BY <2>3 DEF sample
<1>3. CASE b < a
    <2> DEFINE way == StepAlongThePath * k
    <2>0. way \in Int
        BY DEF StepAlongThePath
    <2> HIDE DEF way
    <2>1. n = a - b /\ sample = 10 * a - StepAlongThePath * k
        <3>1. n = a - b
            BY <1>3 DEF Abs
        <3>2. Toward(a, b, way) = -way
            BY <1>3 DEF Toward
        <3>3. 10 * a + Toward(a, b, way) = 10 * a - way
            BY <2>0, <3>2
        <3> QED BY <3>1, <3>3 DEF way
    <2>2. 10 * b - StepAlongThePath <= sample /\ sample <= 10 * b + StepAlongThePath /\ sample \in Int
        BY <1>1, <2>1 DEF StepAlongThePath
    <2> HIDE DEF sample
    <2>3. Round(sample) \in b - Unsampled .. b + Unsampled
        BY <2>2, RoundsClosely
    <2> QED BY <2>3 DEF sample
<1>4. CASE b = a
    <2>1. sample = 10 * b
        BY <1>4 DEF Toward
    <2>2. 10 * b - StepAlongThePath <= sample /\ sample <= 10 * b + StepAlongThePath /\ sample \in Int
        BY <2>1 DEF StepAlongThePath
    <2> HIDE DEF sample
    <2>3. Round(sample) \in b - Unsampled .. b + Unsampled
        BY <2>2, RoundsClosely
    <2> QED BY <2>3 DEF sample
<1> QED BY <1>2, <1>3, <1>4

\* What lies on a road or close to such a point is near the road.
LEMMA CloseIsNear ==
    ASSUME NEW road \in Road, NEW c, IsOnRoad(road, c), NEW p \in Points,
           c.x \in p.x - Unsampled .. p.x + Unsampled,
           c.y \in p.y - Unsampled .. p.y + Unsampled
    PROVE  IsNearRoad(road, p)
<1> DEFINE area == Area(road)
<1>1. area.left \in Int /\ area.right \in Int /\ area.top \in Int /\ area.bottom \in Int
    <2>1. "left" \in Sides
        BY DEF Sides
    <2> QED BY <2>1, BorderInArea
<1>2. c.x \in area.left .. area.right /\ c.y \in area.top .. area.bottom
    BY DEF IsOnRoad
<1>3. p.x \in Int /\ p.y \in Int /\ Unsampled \in Int
    BY DEF Points, Unsampled
<1> HIDE DEF area
<1>4. /\ p.x \in area.left - Unsampled .. area.right + Unsampled
      /\ p.y \in area.top - Unsampled .. area.bottom + Unsampled
    BY <1>1, <1>2, <1>3
<1> QED BY <1>4 DEF IsNearRoad, area

\* A dog that stands near the roads gets to a point near the roads.
LEMMA ReachesNearRoads ==
    ASSUME NEW roads \in Seq(Road), NEW p \in Points, NEW q \in Points,
           p.x = q.x \/ p.y = q.y, NEW nearest \in BOOLEAN,
           \E i \in DOMAIN roads : IsNearRoad(roads[i], p)
    PROVE  \E i \in DOMAIN roads : IsNearRoad(roads[i], Reached(roads, p, q, nearest))
<1> DEFINE crossed == CrossedLines(roads, p, q, nearest)
           points == {line[2] : line \in crossed}
           inside == IsOnRoads(roads, q)
           good == {c \in Candidates(points, q) : AllPointsOnRoad(roads, p, c)}
           Near(c) == \E i \in DOMAIN roads : IsNearRoad(roads[i], c)
<1>1. Reached(roads, p, q, nearest) =
        CASE Cardinality(crossed) = 0 -> IF inside THEN q ELSE p
          [] Cardinality(crossed) = 1 -> IF inside THEN q ELSE FarthestPoint(p, points)
          [] OTHER -> FarthestPoint(p, good)
    BY DEF Reached
<1>2. \A c \in points :
        /\ c \in Points
        /\ Min({p.x, q.x}) <= c.x /\ c.x <= Max({p.x, q.x})
        /\ Min({p.y, q.y}) <= c.y /\ c.y <= Max({p.y, q.y})
        /\ \E i \in DOMAIN roads : IsOnRoad(roads[i], c)
    <2> SUFFICES ASSUME NEW line \in crossed
                 PROVE  /\ line[2] \in Points
                        /\ Min({p.x, q.x}) <= line[2].x /\ line[2].x <= Max({p.x, q.x})
                        /\ Min({p.y, q.y}) <= line[2].y /\ line[2].y <= Max({p.y, q.y})
                        /\ \E i \in DOMAIN roads : IsOnRoad(roads[i], line[2])
        OBVIOUS
    <2>1. PICK l \in (DOMAIN roads) \X Sides :
            /\ Intersection(p, q, Border(roads[l[1]], l[2])) # {}
            /\ line = <<l, Choose(Intersection(p, q, Border(roads[l[1]], l[2])), p, nearest)>>
        BY DEF CrossedLines
    <2>2. l[1] \in DOMAIN roads /\ l[2] \in Sides
        OBVIOUS
    <2>3. roads[l[1]] \in Road
        BY <2>2
    <2>4. line[2] \in Intersection(p, q, Border(roads[l[1]], l[2]))
        BY <2>1, <2>2, <2>3, ChooseOne
    <2> DEFINE c == line[2]
    <2> HIDE DEF c
    <2>5. /\ IsOnRoad(roads[l[1]], c) /\ c \in Points
          /\ Min({p.x, q.x}) <= c.x /\ c.x <= Max({p.x, q.x})
          /\ Min({p.y, q.y}) <= c.y /\ c.y <= Max({p.y, q.y})
        <3>1. c \in Intersection(p, q, Border(roads[l[1]], l[2]))
            BY <2>4 DEF c
        <3> QED BY <2>2, <2>3, <3>1, CrossingsOnRoad, Zenon
    <2> QED BY <2>2, <2>5 DEF c
<1>3. IsFiniteSet(crossed)
    BY CrossedLinesAreFinite
<1>4. IsFiniteSet(points)
    <2> DEFINE point == [line \in crossed |-> line[2]]
    <2>1. point \in Surjection(crossed, points)
        <3> HIDE DEF crossed
        <3> QED BY DEF Surjection
    <2> HIDE DEF point, points, crossed
    <2> QED BY <1>3, <2>1, FS_Surjection
<1>5. crossed # {} => points # {}
    <2> HIDE DEF crossed
    <2> QED OBVIOUS
<1> HIDE DEF points
<1>6. good \subseteq points \cup {q} /\ IsFiniteSet(good)
      /\ (q \in good => AllPointsOnRoad(roads, p, q))
    <2>1. IsFiniteSet(points \cup {q}) /\ good \subseteq points \cup {q}
        BY <1>4, FS_AddElement DEF Candidates
    <2>2. IsFiniteSet(good)
        BY <2>1, FS_Subset
    <2>3. q \in good => AllPointsOnRoad(roads, p, q)
        OBVIOUS
    <2> QED BY <2>1, <2>2, <2>3
<1> HIDE DEF good, crossed
<1>7. \A c \in Points : (\E i \in DOMAIN roads : IsOnRoad(roads[i], c)) => Near(c)
    <2> SUFFICES ASSUME NEW c \in Points, NEW i \in DOMAIN roads, IsOnRoad(roads[i], c)
                 PROVE  IsNearRoad(roads[i], c)
        OBVIOUS
    <2>1. roads[i] \in Road
        OBVIOUS
    <2>2. c.x \in c.x - Unsampled .. c.x + Unsampled /\ c.y \in c.y - Unsampled .. c.y + Unsampled
        BY DEF Points, Unsampled
    <2> QED BY <2>1, <2>2, CloseIsNear
<1>8. /\ inside => Near(q)
      /\ \A c \in points : Near(c)
    <2>1. inside => \E i \in DOMAIN roads : IsOnRoad(roads[i], q)
        BY DEF IsOnRoads
    <2> HIDE DEF inside, Near
    <2> QED BY <1>2, <1>7, <2>1
<1>9. ASSUME AllPointsOnRoad(roads, p, q), points # {} PROVE Near(q)
    <2> DEFINE n == Distance(p, q)
               k == (10 * n - 1) \div StepAlongThePath
               sample == [x |-> Round(10 * p.x + Toward(p.x, q.x, StepAlongThePath * k)),
                          y |-> Round(10 * p.y + Toward(p.y, q.y, StepAlongThePath * k))]
    <2>1. p.x \in Int /\ p.y \in Int /\ q.x \in Int /\ q.y \in Int
        BY DEF Points
    <2>2. /\ n \in Int
          /\ p.x = q.x => n = Abs(q.y - p.y)
          /\ p.y = q.y => n = Abs(q.x - p.x)
          /\ Abs(q.x - p.x) \in Nat /\ Abs(q.y - p.y) \in Nat
        <3>1. n = Abs(q.x - p.x) + Abs(q.y - p.y)
            BY DEF Distance
        <3>2. Abs(q.x - p.x) \in Nat /\ Abs(q.y - p.y) \in Nat
            BY <2>1 DEF Abs
        <3>3. /\ p.x = q.x => Abs(q.x - p.x) = 0
              /\ p.y = q.y => Abs(q.y - p.y) = 0
            BY <2>1 DEF Abs
        <3> HIDE DEF n
        <3> QED BY <3>1, <3>2, <3>3
    <2>3. k \in Int
        BY <2>2 DEF StepAlongThePath
    <2>4. CASE k >= 1
        <3>1. \E i \in DOMAIN roads : IsOnRoad(roads[i], sample)
            <4>1. k \in 1 .. k
                BY <2>3, <2>4
            <4> HIDE DEF k
            <4>2. \A j \in 1 .. k :
                    IsOnRoads(roads,
                        [x |-> Round(10 * p.x + Toward(p.x, q.x, StepAlongThePath * j)),
                         y |-> Round(10 * p.y + Toward(p.y, q.y, StepAlongThePath * j))])
                BY <1>9 DEF AllPointsOnRoad, k
            <4>3. IsOnRoads(roads, sample)
                BY <4>1, <4>2
            <4> QED BY <4>3 DEF IsOnRoads
        <3>2. /\ sample.x \in q.x - Unsampled .. q.x + Unsampled
              /\ sample.y \in q.y - Unsampled .. q.y + Unsampled
            <4> DEFINE sx == Round(10 * p.x + Toward(p.x, q.x, StepAlongThePath * k))
                       sy == Round(10 * p.y + Toward(p.y, q.y, StepAlongThePath * k))
            <4>1. sample.x = sx /\ sample.y = sy
                OBVIOUS
            <4>2. k = (10 * n - 1) \div StepAlongThePath
                OBVIOUS
            <4> HIDE DEF n, k
            <4>3. \A a \in Int : Round(10 * a + Toward(a, a, StepAlongThePath * k)) \in
                                    a - Unsampled .. a + Unsampled
                <5> SUFFICES ASSUME NEW a \in Int
                             PROVE  Round(10 * a + Toward(a, a, StepAlongThePath * k)) \in
                                        a - Unsampled .. a + Unsampled
                    OBVIOUS
                <5>1. 10 * a + Toward(a, a, StepAlongThePath * k) = 10 * a
                    BY DEF Toward
                <5>2. /\ 10 * a \in Int /\ 10 * a - StepAlongThePath <= 10 * a
                      /\ 10 * a <= 10 * a + StepAlongThePath
                    BY DEF StepAlongThePath
                <5>3. Round(10 * a) \in a - Unsampled .. a + Unsampled
                    BY <5>2, RoundsClosely
                <5> QED BY <5>1, <5>3
            <4>4. CASE p.x = q.x
                <5>1. sx \in q.x - Unsampled .. q.x + Unsampled
                    BY <2>1, <4>3, <4>4
                <5>2. sy \in q.y - Unsampled .. q.y + Unsampled
                    BY <2>1, <2>2, <2>3, <4>2, <4>4, LastSampleIsNear DEF n
                <5> QED BY <4>1, <5>1, <5>2
            <4>5. CASE p.y = q.y
                <5>1. sy \in q.y - Unsampled .. q.y + Unsampled
                    BY <2>1, <4>3, <4>5
                <5>2. sx \in q.x - Unsampled .. q.x + Unsampled
                    BY <2>1, <2>2, <2>3, <4>2, <4>5, LastSampleIsNear DEF n
                <5> QED BY <4>1, <5>1, <5>2
            <4> QED BY <4>4, <4>5
        <3>3. PICK i \in DOMAIN roads : IsOnRoad(roads[i], sample)
            BY <3>1
        <3>4. roads[i] \in Road
            OBVIOUS
        <3> HIDE DEF sample
        <3>5. IsNearRoad(roads[i], q)
            BY <3>2, <3>3, <3>4, CloseIsNear
        <3> QED BY <3>5
    <2>5. CASE k < 1
        <3>1. n <= Unsampled
            BY <2>2, <2>5 DEF StepAlongThePath, Unsampled
        <3>2. PICK c \in points : TRUE
            BY <1>9
        <3>3. PICK i \in DOMAIN roads : IsOnRoad(roads[i], c)
            BY <1>2
        <3>4. roads[i] \in Road
            OBVIOUS
        <3>5. /\ c.x \in q.x - Unsampled .. q.x + Unsampled
              /\ c.y \in q.y - Unsampled .. q.y + Unsampled
            <4>1. c.x \in Int /\ c.y \in Int
                BY <1>2 DEF Points
            <4>2. /\ Min({p.x, q.x}) \in {p.x, q.x} /\ Max({p.x, q.x}) \in {p.x, q.x}
                  /\ Min({p.y, q.y}) \in {p.y, q.y} /\ Max({p.y, q.y}) \in {p.y, q.y}
                BY <2>1, ExtremesOfTwo, Zenon
            <4>3. /\ Min({p.x, q.x}) <= c.x /\ c.x <= Max({p.x, q.x})
                  /\ Min({p.y, q.y}) <= c.y /\ c.y <= Max({p.y, q.y})
                BY <1>2
            <4>4. n = Abs(q.x - p.x) + Abs(q.y - p.y)
                BY DEF Distance
            <4> DEFINE x1 == Min({p.x, q.x})
                       x2 == Max({p.x, q.x})
                       y1 == Min({p.y, q.y})
                       y2 == Max({p.y, q.y})
            <4>5. /\ x1 \in {p.x, q.x} /\ x2 \in {p.x, q.x} /\ x1 <= c.x /\ c.x <= x2
                  /\ y1 \in {p.y, q.y} /\ y2 \in {p.y, q.y} /\ y1 <= c.y /\ c.y <= y2
                BY <4>2, <4>3
            <4> HIDE DEF x1, x2, y1, y2, n
            <4>6. Abs(q.x - p.x) <= 100 /\ Abs(q.y - p.y) <= 100
                BY <2>2, <3>1, <4>4 DEF Unsampled
            <4>7. \A a, b \in Int : Abs(b - a) <= 100 => b - a <= 100 /\ a - b <= 100
                BY DEF Abs
            <4>8. /\ q.x - p.x <= 100 /\ p.x - q.x <= 100
                  /\ q.y - p.y <= 100 /\ p.y - q.y <= 100
                BY <2>1, <4>6, <4>7
            <4>9. ASSUME NEW a \in Int, NEW b \in Int, NEW l \in {a, b}, NEW r \in {a, b},
                         NEW m \in Int, b - a <= 100, a - b <= 100, l <= m, m <= r
                  PROVE  m \in b - 100 .. b + 100
                <5>1. l >= b - 100 /\ r <= b + 100 /\ l \in Int /\ r \in Int
                    <6>1. CASE l = a
                        BY <4>9, <6>1
                    <6>2. CASE l = b
                        BY <4>9, <6>2
                    <6> QED BY <6>1, <6>2
                <5> QED BY <4>9, <5>1
            <4>10. x1 \in Int /\ x2 \in Int /\ y1 \in Int /\ y2 \in Int
                BY <2>1, <4>5
            <4>11. c.x \in q.x - 100 .. q.x + 100
                <5>1. /\ q.x - p.x <= 100 /\ p.x - q.x <= 100
                      /\ x1 \in {p.x, q.x} /\ x2 \in {p.x, q.x} /\ x1 <= c.x /\ c.x <= x2
                    BY <4>5, <4>8
                <5>2. p.x \in Int /\ q.x \in Int /\ c.x \in Int /\ x1 \in Int /\ x2 \in Int
                    BY <2>1, <4>1, <4>10
                <5> QED BY <4>9, <5>1, <5>2, SMTT(25)
            <4>12. c.y \in q.y - 100 .. q.y + 100
                <5>1. /\ q.y - p.y <= 100 /\ p.y - q.y <= 100
                      /\ y1 \in {p.y, q.y} /\ y2 \in {p.y, q.y} /\ y1 <= c.y /\ c.y <= y2
                    BY <4>5, <4>8
                <5>2. p.y \in Int /\ q.y \in Int /\ c.y \in Int /\ y1 \in Int /\ y2 \in Int
                    BY <2>1, <4>1, <4>10
                <5> QED BY <4>9, <5>1, <5>2, SMTT(25)
            <4> QED BY <4>11, <4>12 DEF Unsampled
        <3>6. IsNearRoad(roads[i], q)
            BY <3>3, <3>4, <3>5, CloseIsNear
        <3> QED BY <3>6
    <2> QED BY <2>3, <2>4, <2>5
<1>10. Near(FarthestPoint(p, points))
    <2>1. FarthestPoint(p, points) \in points \cup {p}
        <3>1. points \subseteq Points
            BY <1>2
        <3> QED BY <1>4, <3>1, FarthestIsOneOfThem
    <2> QED BY <1>8, <2>1
<1>11. crossed # {} => Near(FarthestPoint(p, good))
    <2>1. FarthestPoint(p, good) \in good \cup {p}
        <3>1. good \subseteq Points
            BY <1>2, <1>6
        <3> QED BY <1>6, <3>1, FarthestIsOneOfThem
    <2> HIDE DEF Near
    <2>2. Near(p)
        BY DEF Near
    <2> QED BY <1>5, <1>6, <1>8, <1>9, <2>1, <2>2
<1>12. Cardinality(crossed) # 0 => crossed # {}
    BY FS_EmptySet
<1> HIDE DEF inside, Near
<1>13. Near(p)
    BY DEF Near
<1>14. Near(Reached(roads, p, q, nearest))
    BY <1>1, <1>8, <1>10, <1>11, <1>12, <1>13
<1> QED BY <1>14 DEF Near

\* What dogs are, with their scores and bags left open.
Directions == {"U", "D", "L", "R", ""}
Dogs == [pos : Points, dir : Directions, moving : BOOLEAN, bag : SUBSET Nat, score : Nat]

\* A dog that moves is still a dog, owns what it owned, and stays near the roads.
LEMMA MovedIsADog ==
    ASSUME map \in Scenarios, NEW dog \in Dogs, NEW dt \in map.ticks,
           NEW nearest \in BOOLEAN
    PROVE  LET after == Moved(dog, dt, nearest)
           IN  /\ after \in Dogs
               /\ after.bag = dog.bag /\ after.score = dog.score
               /\ (\E i \in DOMAIN map.roads : IsNearRoad(map.roads[i], dog.pos))
                  => \E i \in DOMAIN map.roads : IsNearRoad(map.roads[i], after.pos)
<1> DEFINE vector == Vector(dog.dir)
           n == map.dogSpeed * dt
           goal == Ahead(dog.pos, vector, n)
           end == Reached(map.roads, dog.pos, goal, nearest)
<1>1. n \in Int /\ map.roads \in Seq(Road)
    <2>1. map.dogSpeed \in Nat /\ dt \in Nat /\ map.roads \in Seq(Road)
        BY WorldAssumption
    <2>2. \A i, j \in Nat : i * j \in Int
        OBVIOUS
    <2> QED BY <2>1, <2>2
<1>2. /\ vector.x \in {-1, 0, 1} /\ vector.y \in {-1, 0, 1}
      /\ vector.x = 0 \/ vector.y = 0
    <2>1. dog.dir \in {"U", "D", "L", "R", ""}
        BY DEF Dogs, Directions
    <2>2. /\ Vector("L") = [x |-> -1, y |-> 0] /\ Vector("R") = [x |-> 1, y |-> 0]
          /\ Vector("U") = [x |-> 0, y |-> -1] /\ Vector("D") = [x |-> 0, y |-> 1]
          /\ Vector("") = [x |-> 0, y |-> 0]
        BY DEF Vector
    <2> DEFINE good(v) == /\ v.x \in {-1, 0, 1} /\ v.y \in {-1, 0, 1}
                          /\ v.x = 0 \/ v.y = 0
    <2>3. /\ good(Vector("L")) /\ good(Vector("R")) /\ good(Vector("U"))
          /\ good(Vector("D")) /\ good(Vector(""))
        <3>1. /\ good([x |-> -1, y |-> 0]) /\ good([x |-> 1, y |-> 0])
              /\ good([x |-> 0, y |-> -1]) /\ good([x |-> 0, y |-> 1])
              /\ good([x |-> 0, y |-> 0])
            OBVIOUS
        <3> HIDE DEF good
        <3> QED BY <2>2, <3>1
    <2> HIDE DEF good
    <2>4. good(vector)
        BY <2>1, <2>3
    <2> HIDE DEF vector
    <2> QED BY <2>4 DEF good
<1> HIDE DEF n, vector
<1>3. goal \in Points /\ (dog.pos.x = goal.x \/ dog.pos.y = goal.y)
    <2>1. dog.pos.x \in Int /\ dog.pos.y \in Int
        BY DEF Dogs, Points
    <2>2. \A v \in {-1, 0, 1}, k \in Int : v * k \in Int
        OBVIOUS
    <2>3. vector.x * n \in Int /\ vector.y * n \in Int
        BY <1>1, <1>2, <2>2
    <2> DEFINE dx == vector.x * n
               dy == vector.y * n
    <2>4. goal = [x |-> dog.pos.x + dx, y |-> dog.pos.y + dy]
        BY DEF Ahead
    <2>5. dx = 0 \/ dy = 0
        BY <1>1, <1>2
    <2>6. dx \in Int /\ dy \in Int
        BY <2>3
    <2> HIDE DEF dx, dy, goal
    <2> QED BY <2>1, <2>4, <2>5, <2>6 DEF Points
<1>4. end \in Points
    <2>1. dog.pos \in Points
        BY DEF Dogs
    <2> QED BY <1>1, <1>3, <2>1, ReachesAPoint
<1>5. Moved(dog, dt, nearest) =
        IF dog.moving THEN [dog EXCEPT !.pos = end, !.moving = (end = goal)] ELSE dog
    BY DEF Moved, n, vector
<1>6. (\E i \in DOMAIN map.roads : IsNearRoad(map.roads[i], dog.pos))
      => \E i \in DOMAIN map.roads : IsNearRoad(map.roads[i], end)
    <2>1. dog.pos \in Points
        BY DEF Dogs
    <2> HIDE DEF goal
    <2> QED BY <1>1, <1>3, <2>1, ReachesNearRoads
<1> HIDE DEF end, goal
<1>7. Moved(dog, dt, nearest).pos \in {end, dog.pos}
    BY <1>5 DEF Dogs
<1>8. /\ Moved(dog, dt, nearest) \in Dogs
      /\ Moved(dog, dt, nearest).bag = dog.bag /\ Moved(dog, dt, nearest).score = dog.score
    BY <1>4, <1>5 DEF Dogs
<1> QED BY <1>6, <1>7, <1>8

-----------------------------------------------------------------------------
(* Gathering.                                                              *)

\* What is true of the dogs, the loot on the map and already_collected_loot while the
\* events of a tick are handled, for dogs that have moved.
Keeps(state, moved) ==
    /\ state = [dogs |-> state.dogs, loots |-> state.loots, collected |-> state.collected]
    /\ state.dogs \in [DOMAIN moved -> Dogs]
    /\ DOMAIN state.loots \subseteq DOMAIN loots
    /\ \A l \in DOMAIN state.loots : state.loots[l] = loots[l]
    /\ state.collected = DOMAIN loots \ DOMAIN state.loots
    /\ \A d \in DOMAIN moved :
        /\ state.dogs[d].pos = moved[d].pos
        /\ state.dogs[d].bag \in BagsOf(map)
        /\ state.dogs[d].bag \cap DOMAIN state.loots = {}
        /\ \A c \in DOMAIN moved \ {d} : state.dogs[c].bag \cap state.dogs[d].bag = {}
        /\ state.dogs[d].score >= moved[d].score
    /\ Cardinality(DOMAIN state.loots) + OwnedBelow(state.dogs, dogCounter) =
       Cardinality(DOMAIN loots) + OwnedBelow(moved, dogCounter)

\* What the handling of one event does, from state to after.
Handles(state, event, after, moved) ==
    /\ \A d \in DOMAIN moved :
        /\ Owned(after.dogs, d) >= Owned(state.dogs, d)
        /\ \A l \in after.dogs[d].bag :
            l \in state.dogs[d].bag \/ (event.dog = d /\ event.item = l)
    /\ DOMAIN after.loots \subseteq DOMAIN state.loots
    /\ event.item # Office =>
        \/ event.item \notin DOMAIN after.loots
        \/ Owned(after.dogs, event.dog) >= map.bagCapacity + moved[event.dog].score
    /\ event.item = Office => after.dogs[event.dog].bag = {}

\* Bags and the loot on the map are finite.
LEMMA LootIsFinite ==
    ASSUME lootCounter \in Nat
    PROVE  \A S \in SUBSET Ids(lootCounter) : IsFiniteSet(S) /\ Cardinality(S) \in Nat
<1>1. IsFiniteSet(Ids(lootCounter))
    BY FS_Interval DEF Ids
<1> QED BY <1>1, FS_Subset, FS_CardinalityType

\* A dog is handled an event of its own: all the others keep what they have.
LEMMA OneOwnerChanges ==
    ASSUME dogCounter \in Nat, NEW D, D \subseteq Ids(dogCounter), NEW d \in D,
           NEW pack \in [D -> Dogs], NEW other \in [D -> Dogs],
           \A c \in D : Cardinality(pack[c].bag) \in Nat /\ Cardinality(other[c].bag) \in Nat,
           \A c \in D \ {d} : other[c] = pack[c]
    PROVE  /\ OwnedBelow(pack, dogCounter) \in Nat
           /\ OwnedBelow(other, dogCounter) \in Nat
           /\ \A c \in D \ {d} : Owned(other, c) = Owned(pack, c)
           /\ OwnedBelow(other, dogCounter) + Owned(pack, d) =
              OwnedBelow(pack, dogCounter) + Owned(other, d)
<1> DEFINE own(k) == Owned(pack, k)
           owns(k) == Owned(other, k)
<1>1. /\ \A c \in D : pack[c].score \in Nat /\ other[c].score \in Nat
      /\ \A c \in D : Cardinality(pack[c].bag) \in Nat /\ Cardinality(other[c].bag) \in Nat
    BY DEF Dogs
<1>2. /\ \A c \in D : own(c) \in Nat /\ owns(c) \in Nat
      /\ \A c \in D \ {d} : owns(c) = own(c)
    BY <1>1 DEF Owned
<1>3. \A k : k \notin D => own(k) = 0 /\ owns(k) = 0
    BY DEF Owned
<1> HIDE DEF own, owns
<1>4. \A k \in 0 .. dogCounter - 1 : own(k) \in Nat /\ owns(k) \in Nat
    BY <1>2, <1>3
<1>5. \A k \in 0 .. dogCounter - 1 : k # d => owns(k) = own(k)
    BY <1>2, <1>3
<1>6. d \in 0 .. dogCounter - 1
    BY DEF Ids
<1>7. /\ OwnedBelow(pack, dogCounter) \in Nat
      /\ OwnedBelow(other, dogCounter) + own(d) = OwnedBelow(pack, dogCounter) + owns(d)
    <2>1. \A k \in 0 .. dogCounter - 1 : Owned(pack, k) \in Nat /\ Owned(other, k) \in Nat
        BY <1>4 DEF own, owns
    <2>2. /\ OwnedBelow(pack, dogCounter) \in Nat
          /\ \A e \in 0 .. dogCounter - 1 :
                (\A k \in 0 .. dogCounter - 1 : k # e => Owned(other, k) = Owned(pack, k))
                => OwnedBelow(other, dogCounter) + Owned(pack, e) =
                   OwnedBelow(pack, dogCounter) + Owned(other, e)
        BY <2>1, OwnedBelowChanges
    <2> QED BY <1>5, <1>6, <2>2 DEF own, owns
<1>8. OwnedBelow(other, dogCounter) \in Nat
    <2>1. \A k \in 0 .. dogCounter - 1 : Owned(other, k) \in Nat /\ Owned(pack, k) \in Nat
        BY <1>4 DEF own, owns
    <2> QED BY <2>1, OwnedBelowChanges
<1> QED BY <1>2, <1>7, <1>8 DEF own, owns

\* Handle does what it is to do, whichever event comes.
LEMMA HandleKeeps ==
    ASSUME dogCounter \in Nat, lootCounter \in Nat, map.bagCapacity \in Nat,
           DOMAIN loots \subseteq Ids(lootCounter),
           NEW moved, moved \in [DOMAIN moved -> Dogs], DOMAIN moved \subseteq Ids(dogCounter),
           NEW state, Keeps(state, moved),
           NEW event, event.dog \in DOMAIN moved, event.item \in DOMAIN loots \cup {Office}
    PROVE  LET after == Handle(state, event)
           IN  Keeps(after, moved) /\ Handles(state, event, after, moved)
<1> DEFINE d == event.dog
           dog == state.dogs[d]
           l == event.item
           after == Handle(state, event)
           released == ReleaseLootBag(dog)
           laden == [dog EXCEPT !.bag = dog.bag \cup {l}]
<1>1. \A S \in SUBSET Ids(lootCounter) : IsFiniteSet(S) /\ Cardinality(S) \in Nat
    BY LootIsFinite
<1>2. /\ state = [dogs |-> state.dogs, loots |-> state.loots, collected |-> state.collected]
      /\ state.dogs \in [DOMAIN moved -> Dogs]
      /\ DOMAIN state.loots \subseteq DOMAIN loots
      /\ \A m \in DOMAIN state.loots : state.loots[m] = loots[m]
      /\ state.collected = DOMAIN loots \ DOMAIN state.loots
      /\ Cardinality(DOMAIN state.loots) + OwnedBelow(state.dogs, dogCounter) =
         Cardinality(DOMAIN loots) + OwnedBelow(moved, dogCounter)
    BY DEF Keeps
<1>3. \A c \in DOMAIN moved :
        /\ state.dogs[c].pos = moved[c].pos
        /\ state.dogs[c].bag \in BagsOf(map)
        /\ state.dogs[c].bag \cap DOMAIN state.loots = {}
        /\ \A e \in DOMAIN moved \ {c} : state.dogs[e].bag \cap state.dogs[c].bag = {}
        /\ state.dogs[c].score >= moved[c].score
        /\ state.dogs[c].score \in Nat /\ moved[c].score \in Nat
        /\ state.dogs[c] \in Dogs
    BY <1>2 DEF Keeps, Dogs
<1>4. \A c \in DOMAIN moved :
        /\ state.dogs[c].bag \subseteq Ids(lootCounter)
        /\ Cardinality(state.dogs[c].bag) \in Nat
        /\ Cardinality(state.dogs[c].bag) <= map.bagCapacity
        /\ Owned(state.dogs, c) = Cardinality(state.dogs[c].bag) + state.dogs[c].score
    BY <1>1, <1>2, <1>3 DEF BagsOf, Owned
<1>5. CASE l = Office
    <2>1. after = [state EXCEPT !.dogs = [state.dogs EXCEPT ![d] = released]]
        BY <1>5 DEF Handle
    <2>2. /\ after.dogs = [state.dogs EXCEPT ![d] = released]
          /\ after.loots = state.loots /\ after.collected = state.collected
          /\ after = [dogs |-> after.dogs, loots |-> state.loots,
                      collected |-> state.collected]
        BY <1>2, <2>1
    <2>3. /\ released \in Dogs /\ released.pos = dog.pos /\ released.bag = {}
          /\ released.score = dog.score + Cardinality(dog.bag)
        <3> DEFINE n == Cardinality(dog.bag)
        <3>1. n \in Nat /\ dog \in Dogs
            BY <1>3, <1>4
        <3>2. released = [dog EXCEPT !.score = dog.score + n, !.bag = {}]
            BY DEF ReleaseLootBag
        <3> HIDE DEF n, released, dog
        <3>3. dog.score + n \in Nat
            BY <3>1 DEF Dogs
        <3>4. \A k \in Nat : /\ [dog EXCEPT !.score = k, !.bag = {}] \in Dogs
                             /\ [dog EXCEPT !.score = k, !.bag = {}].pos = dog.pos
                             /\ [dog EXCEPT !.score = k, !.bag = {}].bag = {}
                             /\ [dog EXCEPT !.score = k, !.bag = {}].score = k
            BY <3>1 DEF Dogs
        <3> QED BY <3>2, <3>3, <3>4 DEF n
    <2>4. {} \in BagsOf(map) /\ Cardinality({}) = 0
        BY FS_EmptySet DEF BagsOf
    <2> HIDE DEF after, released
    <2>5. /\ after.dogs \in [DOMAIN moved -> Dogs]
          /\ OwnedBelow(state.dogs, dogCounter) \in Nat
          /\ OwnedBelow(after.dogs, dogCounter) \in Nat
          /\ Owned(after.dogs, d) = Owned(state.dogs, d)
          /\ \A c \in DOMAIN moved \ {d} : Owned(after.dogs, c) = Owned(state.dogs, c)
          /\ OwnedBelow(after.dogs, dogCounter) = OwnedBelow(state.dogs, dogCounter)
        <3> DEFINE D == DOMAIN moved
        <3>1. /\ state.dogs \in [D -> Dogs] /\ after.dogs \in [D -> Dogs]
              /\ d \in D /\ D \subseteq Ids(dogCounter)
            BY <1>2, <2>2, <2>3
        <3>2. \A c \in D \ {d} : after.dogs[c] = state.dogs[c]
            BY <1>2, <2>2, <2>3
        <3>3. \A c \in D :
                Cardinality(state.dogs[c].bag) \in Nat /\ Cardinality(after.dogs[c].bag) \in Nat
            <4>1. Cardinality(released.bag) \in Nat /\ after.dogs[d] = released
                BY <1>2, <2>2, <2>3, <2>4
            <4> QED BY <1>4, <3>2, <4>1
        <3>4. /\ OwnedBelow(state.dogs, dogCounter) \in Nat
              /\ OwnedBelow(after.dogs, dogCounter) \in Nat
              /\ \A c \in D \ {d} : Owned(after.dogs, c) = Owned(state.dogs, c)
              /\ OwnedBelow(after.dogs, dogCounter) + Owned(state.dogs, d) =
                 OwnedBelow(state.dogs, dogCounter) + Owned(after.dogs, d)
            <4> DEFINE pack == state.dogs
                       other == after.dogs
            <4>1. /\ pack \in [D -> Dogs] /\ other \in [D -> Dogs]
                  /\ \A c \in D \ {d} : other[c] = pack[c]
                  /\ \A c \in D :
                        Cardinality(pack[c].bag) \in Nat /\ Cardinality(other[c].bag) \in Nat
                BY <3>1, <3>2, <3>3
            <4> HIDE DEF D, d, pack, other
            <4>2. /\ OwnedBelow(pack, dogCounter) \in Nat
                  /\ OwnedBelow(other, dogCounter) \in Nat
                  /\ \A c \in D \ {d} : Owned(other, c) = Owned(pack, c)
                  /\ OwnedBelow(other, dogCounter) + Owned(pack, d) =
                     OwnedBelow(pack, dogCounter) + Owned(other, d)
                BY <3>1, <4>1, OneOwnerChanges, SMTT(25)
            <4> QED BY <4>2 DEF pack, other
        <3>5. Owned(after.dogs, d) = Owned(state.dogs, d)
            <4>1. d \in DOMAIN after.dogs /\ after.dogs[d] = released
                BY <1>2, <2>2
            <4>2. Owned(after.dogs, d) = Cardinality(released.bag) + released.score
                BY <4>1 DEF Owned
            <4> QED BY <1>3, <1>4, <2>3, <2>4, <4>2
        <3>6. OwnedBelow(after.dogs, dogCounter) = OwnedBelow(state.dogs, dogCounter)
            BY <1>3, <1>4, <3>4, <3>5
        <3>7. after.dogs \in [DOMAIN moved -> Dogs]
            BY <1>2, <2>2, <2>3
        <3> QED BY <3>4, <3>5, <3>6, <3>7
    <2>6. after.dogs[d] = released /\ \A c \in DOMAIN moved \ {d} : after.dogs[c] = state.dogs[c]
        BY <1>2, <2>2
    <2>7. \A c \in DOMAIN moved :
            /\ after.dogs[c].pos = moved[c].pos
            /\ after.dogs[c].bag \in BagsOf(map)
            /\ after.dogs[c].bag \cap DOMAIN state.loots = {}
            /\ \A e \in DOMAIN moved \ {c} : after.dogs[e].bag \cap after.dogs[c].bag = {}
        BY <1>3, <2>3, <2>4, <2>6
    <2>8. \A c \in DOMAIN moved : after.dogs[c].score >= moved[c].score
        <3> SUFFICES ASSUME NEW c \in DOMAIN moved PROVE after.dogs[c].score >= moved[c].score
            OBVIOUS
        <3>1. CASE c = d
            BY <1>3, <1>4, <2>3, <2>6, <3>1
        <3>2. CASE c # d
            BY <1>3, <2>6, <3>2
        <3> QED BY <3>1, <3>2
    <2>9. Keeps(after, moved)
        BY <1>2, <2>2, <2>5, <2>7, <2>8 DEF Keeps
    <2>10. Handles(state, event, after, moved)
        <3>1. \A c \in DOMAIN moved : Owned(state.dogs, c) \in Nat
            BY <1>3, <1>4
        <3>2. \A c \in DOMAIN moved : Owned(after.dogs, c) >= Owned(state.dogs, c)
            BY <2>5, <3>1
        <3>3. \A c \in DOMAIN moved : after.dogs[c].bag \subseteq state.dogs[c].bag
            BY <2>3, <2>6
        <3> QED BY <1>5, <2>2, <2>3, <2>6, <3>2, <3>3 DEF Handles
    <2> QED BY <2>9, <2>10 DEF after
<1>6. CASE l # Office /\ (l \in state.collected \/ IsFull(dog))
    <2>1. after = state
        BY <1>6 DEF Handle
    <2>2. \A c \in DOMAIN moved : Owned(state.dogs, c) \in Nat
        BY <1>3, <1>4
    <2>3. \/ l \notin DOMAIN state.loots
          \/ Owned(state.dogs, d) >= map.bagCapacity + moved[d].score
        <3>1. CASE l \in state.collected
            BY <1>2, <3>1
        <3>2. CASE IsFull(dog)
            BY <1>3, <1>4, <3>2 DEF IsFull
        <3> QED BY <1>6, <3>1, <3>2
    <2>4. Handles(state, event, state, moved)
        BY <1>6, <2>2, <2>3 DEF Handles
    <2> QED BY <2>1, <2>4
<1>7. CASE l # Office /\ ~(l \in state.collected \/ IsFull(dog))
    <2>1. after = [dogs |-> [state.dogs EXCEPT ![d].bag = dog.bag \cup {l}],
                   loots |-> [m \in DOMAIN state.loots \ {l} |-> state.loots[m]],
                   collected |-> state.collected \cup {l}]
        BY <1>7 DEF Handle
    <2>2. /\ after.dogs = [state.dogs EXCEPT ![d] = laden]
          /\ after.loots = [m \in DOMAIN state.loots \ {l} |-> state.loots[m]]
          /\ after.collected = state.collected \cup {l}
          /\ after = [dogs |-> after.dogs, loots |-> after.loots,
                      collected |-> after.collected]
        BY <1>2, <2>1
    <2>3. l \in DOMAIN state.loots /\ l \in DOMAIN loots /\ l \in Ids(lootCounter) /\ l \in Nat
        BY <1>2, <1>7 DEF Ids
    <2>4. /\ laden \in Dogs /\ laden.pos = dog.pos /\ laden.bag = dog.bag \cup {l}
          /\ laden.score = dog.score
        BY <1>3, <2>3 DEF Dogs
    <2>5. Cardinality(laden.bag) = Cardinality(dog.bag) + 1
        <3>1. l \notin dog.bag /\ IsFiniteSet(dog.bag)
            BY <1>1, <1>3, <1>4, <2>3
        <3> QED BY <2>4, <3>1, FS_AddElement
    <2>6. Cardinality(DOMAIN state.loots \ {l}) = Cardinality(DOMAIN state.loots) - 1
        <3>1. IsFiniteSet(DOMAIN state.loots)
            BY <1>1, <1>2
        <3> QED BY <2>3, <3>1, FS_RemoveElement
    <2>7. laden.bag \in BagsOf(map)
        <3>1. Cardinality(dog.bag) < map.bagCapacity
            BY <1>4, <1>7 DEF IsFull
        <3>2. Cardinality(laden.bag) <= map.bagCapacity
            BY <1>4, <2>5, <3>1
        <3>3. laden.bag \subseteq Ids(lootCounter)
            BY <1>4, <2>3, <2>4
        <3> QED BY <3>2, <3>3 DEF BagsOf
    <2>8. DOMAIN after.loots = DOMAIN state.loots \ {l}
        BY <2>2
    <2> HIDE DEF after, laden
    <2>9. /\ after.dogs \in [DOMAIN moved -> Dogs]
          /\ Owned(after.dogs, d) = Owned(state.dogs, d) + 1
          /\ \A c \in DOMAIN moved \ {d} : Owned(after.dogs, c) = Owned(state.dogs, c)
          /\ OwnedBelow(state.dogs, dogCounter) \in Nat
          /\ OwnedBelow(after.dogs, dogCounter) = OwnedBelow(state.dogs, dogCounter) + 1
        <3> DEFINE D == DOMAIN moved
        <3>1. /\ state.dogs \in [D -> Dogs] /\ after.dogs \in [D -> Dogs]
              /\ d \in D /\ D \subseteq Ids(dogCounter)
            BY <1>2, <2>2, <2>4
        <3>2. \A c \in D \ {d} : after.dogs[c] = state.dogs[c]
            BY <1>2, <2>2, <2>4
        <3>3. \A c \in D :
                Cardinality(state.dogs[c].bag) \in Nat /\ Cardinality(after.dogs[c].bag) \in Nat
            <4>1. Cardinality(after.dogs[d].bag) \in Nat
                BY <1>2, <1>4, <2>2, <2>5
            <4> QED BY <1>4, <3>2, <4>1
        <3>4. /\ OwnedBelow(state.dogs, dogCounter) \in Nat
              /\ OwnedBelow(after.dogs, dogCounter) \in Nat
              /\ \A c \in D \ {d} : Owned(after.dogs, c) = Owned(state.dogs, c)
              /\ OwnedBelow(after.dogs, dogCounter) + Owned(state.dogs, d) =
                 OwnedBelow(state.dogs, dogCounter) + Owned(after.dogs, d)
            <4> DEFINE pack == state.dogs
                       other == after.dogs
            <4>1. /\ pack \in [D -> Dogs] /\ other \in [D -> Dogs]
                  /\ \A c \in D \ {d} : other[c] = pack[c]
                  /\ \A c \in D :
                        Cardinality(pack[c].bag) \in Nat /\ Cardinality(other[c].bag) \in Nat
                BY <3>1, <3>2, <3>3
            <4> HIDE DEF D, d, pack, other
            <4>2. /\ OwnedBelow(pack, dogCounter) \in Nat
                  /\ OwnedBelow(other, dogCounter) \in Nat
                  /\ \A c \in D \ {d} : Owned(other, c) = Owned(pack, c)
                  /\ OwnedBelow(other, dogCounter) + Owned(pack, d) =
                     OwnedBelow(pack, dogCounter) + Owned(other, d)
                BY <3>1, <4>1, OneOwnerChanges, SMTT(25)
            <4> QED BY <4>2 DEF pack, other
        <3>5. Owned(after.dogs, d) = Owned(state.dogs, d) + 1
            <4>1. d \in DOMAIN after.dogs /\ after.dogs[d] = laden
                BY <1>2, <2>2
            <4>2. Owned(after.dogs, d) = Cardinality(laden.bag) + laden.score
                BY <4>1 DEF Owned
            <4> QED BY <1>3, <1>4, <2>4, <2>5, <4>2
        <3>6. OwnedBelow(after.dogs, dogCounter) = OwnedBelow(state.dogs, dogCounter) + 1
            BY <1>3, <1>4, <3>4, <3>5
        <3>7. after.dogs \in [DOMAIN moved -> Dogs]
            BY <1>2, <2>2, <2>4
        <3> QED BY <3>4, <3>5, <3>6, <3>7
    <2>10. after.dogs[d] = laden /\ \A c \in DOMAIN moved \ {d} : after.dogs[c] = state.dogs[c]
        BY <1>2, <2>2
    <2>11. \A c \in DOMAIN moved :
            /\ after.dogs[c].pos = moved[c].pos
            /\ after.dogs[c].bag \in BagsOf(map)
            /\ after.dogs[c].score >= moved[c].score
        BY <1>3, <2>4, <2>7, <2>10
    <2>12. \A c \in DOMAIN moved :
            after.dogs[c].bag = IF c = d THEN state.dogs[c].bag \cup {l} ELSE state.dogs[c].bag
        BY <2>4, <2>10
    <2>13. \A c \in DOMAIN moved :
            /\ after.dogs[c].bag \cap DOMAIN after.loots = {}
            /\ \A e \in DOMAIN moved \ {c} : after.dogs[e].bag \cap after.dogs[c].bag = {}
        <3>1. \A c \in DOMAIN moved : l \notin state.dogs[c].bag
            BY <1>3, <2>3
        <3>2. \A c \in DOMAIN moved :
                /\ state.dogs[c].bag \cap DOMAIN state.loots = {}
                /\ \A e \in DOMAIN moved \ {c} : state.dogs[e].bag \cap state.dogs[c].bag = {}
            BY <1>3
        <3>3. ASSUME NEW c \in DOMAIN moved PROVE after.dogs[c].bag \cap DOMAIN after.loots = {}
            <4>1. after.dogs[c].bag \subseteq state.dogs[c].bag \cup {l}
                BY <2>12
            <4> QED BY <2>8, <3>2, <4>1
        <3>4. ASSUME NEW c \in DOMAIN moved, NEW e \in DOMAIN moved \ {c}
              PROVE  after.dogs[e].bag \cap after.dogs[c].bag = {}
            <4>1. state.dogs[e].bag \cap state.dogs[c].bag = {}
                BY <3>2
            <4>2. l \notin state.dogs[e].bag /\ l \notin state.dogs[c].bag
                BY <3>1
            <4>3. CASE c = d
                BY <2>12, <4>1, <4>2, <4>3
            <4>4. CASE c # d
                BY <2>12, <4>1, <4>2, <4>4
            <4> QED BY <4>3, <4>4
        <3> QED BY <3>3, <3>4
    <2>14. Cardinality(DOMAIN after.loots) + OwnedBelow(after.dogs, dogCounter) =
           Cardinality(DOMAIN loots) + OwnedBelow(moved, dogCounter)
        <3>1. Cardinality(DOMAIN state.loots) \in Nat
            BY <1>1, <1>2
        <3>2. (Cardinality(DOMAIN state.loots) - 1) + (OwnedBelow(state.dogs, dogCounter) + 1) =
              Cardinality(DOMAIN state.loots) + OwnedBelow(state.dogs, dogCounter)
            BY <2>9, <3>1
        <3> QED BY <1>2, <2>6, <2>8, <2>9, <3>2
    <2>15. Keeps(after, moved)
        <3>1. /\ DOMAIN after.loots \subseteq DOMAIN loots
              /\ \A m \in DOMAIN after.loots : after.loots[m] = loots[m]
            BY <1>2, <2>2
        <3>2. after.collected = DOMAIN loots \ DOMAIN after.loots
            BY <1>2, <2>2, <2>3, <2>8
        <3> QED BY <2>2, <2>9, <2>11, <2>13, <2>14, <3>1, <3>2 DEF Keeps
    <2>16. Handles(state, event, after, moved)
        <3>1. \A c \in DOMAIN moved : Owned(state.dogs, c) \in Nat
            BY <1>3, <1>4
        <3>2. \A c \in DOMAIN moved : Owned(after.dogs, c) >= Owned(state.dogs, c)
            BY <2>9, <3>1
        <3>3. \A c \in DOMAIN moved : \A m \in after.dogs[c].bag :
                m \in state.dogs[c].bag \/ (d = c /\ l = m)
            BY <2>12
        <3> QED BY <1>7, <2>8, <3>2, <3>3 DEF Handles
    <2> QED BY <2>15, <2>16 DEF after
<1> QED BY <1>5, <1>6, <1>7

\* What the handling of the first n events has done, which has led to state.
Handled(state, order, n, moved) ==
    /\ Keeps(state, moved)
    /\ \A i \in 1 .. n :
        LET d == order[i].dog
        IN  /\ order[i].item # Office =>
                \/ order[i].item \notin DOMAIN state.loots
                \/ Owned(state.dogs, d) >= map.bagCapacity + moved[d].score
            /\ order[i].item = Office =>
                \A l \in state.dogs[d].bag :
                    \E j \in i + 1 .. n : order[j].dog = d /\ order[j].item = l

\* One event after the other is handled.
LEMMA HandledOneMore ==
    ASSUME dogCounter \in Nat, lootCounter \in Nat, map.bagCapacity \in Nat,
           DOMAIN loots \subseteq Ids(lootCounter),
           NEW moved, moved \in [DOMAIN moved -> Dogs], DOMAIN moved \subseteq Ids(dogCounter),
           NEW order, NEW n \in Nat,
           \A i \in 1 .. n + 1 :
               order[i].dog \in DOMAIN moved /\ order[i].item \in DOMAIN loots \cup {Office},
           NEW state, Handled(state, order, n, moved)
    PROVE  Handled(Handle(state, order[n + 1]), order, n + 1, moved)
<1> DEFINE event == order[n + 1]
           after == Handle(state, event)
<1>1. event.dog \in DOMAIN moved /\ event.item \in DOMAIN loots \cup {Office}
    OBVIOUS
<1>2. Keeps(state, moved)
    BY DEF Handled
<1> HIDE DEF event
<1>3. Keeps(after, moved) /\ Handles(state, event, after, moved)
    BY <1>1, <1>2, HandleKeeps
<1> HIDE DEF after
<1>4. \A d \in DOMAIN moved :
        /\ Owned(state.dogs, d) \in Nat /\ Owned(after.dogs, d) \in Nat
        /\ moved[d].score \in Nat
    <2> SUFFICES ASSUME NEW d \in DOMAIN moved
                 PROVE  /\ Owned(state.dogs, d) \in Nat /\ Owned(after.dogs, d) \in Nat
                        /\ moved[d].score \in Nat
        OBVIOUS
    <2>1. moved[d].score \in Nat
        BY DEF Dogs
    <2>2. ASSUME NEW s, Keeps(s, moved) PROVE Owned(s.dogs, d) \in Nat
        <3>1. s.dogs[d].bag \in SUBSET Ids(lootCounter)
            BY <2>2 DEF Keeps, BagsOf
        <3>2. Cardinality(s.dogs[d].bag) \in Nat
            BY <3>1, LootIsFinite
        <3>3. s.dogs[d].score \in Nat /\ d \in DOMAIN s.dogs
            BY <2>2 DEF Keeps, Dogs
        <3> QED BY <3>2, <3>3 DEF Owned
    <2> QED BY <1>2, <1>3, <2>1, <2>2
<1>5. ASSUME NEW i \in 1 .. n + 1, order[i].item # Office
      PROVE  \/ order[i].item \notin DOMAIN after.loots
             \/ Owned(after.dogs, order[i].dog) >= map.bagCapacity + moved[order[i].dog].score
    <2>1. CASE i = n + 1
        BY <1>3, <1>5, <2>1 DEF Handles, event
    <2>2. CASE i # n + 1
        <3>1. i \in 1 .. n
            BY <2>2
        <3>2. \/ order[i].item \notin DOMAIN state.loots
              \/ Owned(state.dogs, order[i].dog) >= map.bagCapacity + moved[order[i].dog].score
            BY <1>5, <3>1 DEF Handled
        <3>3. /\ order[i].dog \in DOMAIN moved /\ DOMAIN after.loots \subseteq DOMAIN state.loots
              /\ Owned(after.dogs, order[i].dog) >= Owned(state.dogs, order[i].dog)
            BY <1>3 DEF Handles
        <3>4. \A a, b, c, e \in Nat : a >= b /\ b >= c + e => a >= c + e
            OBVIOUS
        <3> QED BY <1>4, <3>2, <3>3, <3>4
    <2> QED BY <2>1, <2>2
<1>6. ASSUME NEW i \in 1 .. n + 1, order[i].item = Office, NEW l \in after.dogs[order[i].dog].bag
      PROVE  \E j \in i + 1 .. n + 1 : order[j].dog = order[i].dog /\ order[j].item = l
    <2>1. CASE i = n + 1
        BY <1>3, <1>6, <2>1 DEF Handles, event
    <2>2. CASE i # n + 1
        <3>1. i \in 1 .. n /\ n + 1 \in i + 1 .. n + 1
            BY <2>2
        <3>2. \/ l \in state.dogs[order[i].dog].bag
              \/ event.dog = order[i].dog /\ event.item = l
            BY <1>3, <1>6 DEF Handles
        <3>3. CASE l \in state.dogs[order[i].dog].bag
            <4>1. PICK j \in i + 1 .. n : order[j].dog = order[i].dog /\ order[j].item = l
                BY <1>6, <3>1, <3>3 DEF Handled
            <4> QED BY <4>1
        <3>4. CASE event.dog = order[i].dog /\ event.item = l
            BY <3>1, <3>4 DEF event
        <3> QED BY <3>2, <3>3, <3>4
    <2> QED BY <2>1, <2>2
<1>7. Handled(after, order, n + 1, moved)
    BY <1>3, <1>5, <1>6 DEF Handled
<1> QED BY <1>7 DEF after, event

\* In the end all events are handled.
LEMMA AllHandled ==
    ASSUME dogCounter \in Nat, lootCounter \in Nat, map.bagCapacity \in Nat,
           DOMAIN loots \subseteq Ids(lootCounter),
           NEW moved, moved \in [DOMAIN moved -> Dogs], DOMAIN moved \subseteq Ids(dogCounter),
           \A d \in DOMAIN moved :
               /\ moved[d].bag \in BagsOf(map)
               /\ moved[d].bag \cap DOMAIN loots = {}
               /\ \A c \in DOMAIN moved \ {d} : moved[c].bag \cap moved[d].bag = {},
           NEW order, Len(order) \in Nat,
           \A i \in 1 .. Len(order) :
               order[i].dog \in DOMAIN moved /\ order[i].item \in DOMAIN loots \cup {Office}
    PROVE  Handled(HandleAll(moved, order), order, Len(order), moved)
<1> DEFINE start == [dogs |-> moved, loots |-> loots, collected |-> {}]
<1>1. PICK after :
        /\ after[0] = start
        /\ \A n \in 1 .. Len(order) : after[n] = Handle(after[n - 1], order[n])
        /\ HandleAll(moved, order) = after[Len(order)]
    BY HandleAllUnfolds
<1>2. Keeps(start, moved)
    <2>1. \A d \in DOMAIN moved : moved[d].score \in Nat
        BY DEF Dogs
    <2> QED BY <2>1 DEF Keeps
<1>3. Handled(start, order, 0, moved)
    BY <1>2 DEF Handled
<1> HIDE DEF start
<1> DEFINE Done == {n \in Nat : n <= Len(order) => Handled(after[n], order, n, moved)}
<1>4. 0 \in Done
    BY <1>1, <1>3
<1>5. ASSUME NEW n \in Nat, n \in Done PROVE n + 1 \in Done
    <2> SUFFICES ASSUME n + 1 <= Len(order) PROVE Handled(after[n + 1], order, n + 1, moved)
        OBVIOUS
    <2>1. Handled(after[n], order, n, moved)
        BY <1>5
    <2>2. after[n + 1] = Handle(after[n], order[n + 1])
        <3>1. n + 1 \in 1 .. Len(order) /\ (n + 1) - 1 = n
            OBVIOUS
        <3> QED BY <1>1, <3>1
    <2>3. \A i \in 1 .. n + 1 :
            order[i].dog \in DOMAIN moved /\ order[i].item \in DOMAIN loots \cup {Office}
        OBVIOUS
    <2> QED BY <2>1, <2>2, <2>3, HandledOneMore
<1> HIDE DEF Done
<1>6. \A n \in Nat : n \in Done
    BY <1>4, <1>5, Induction
<1>7. Handled(after[Len(order)], order, Len(order), moved)
    BY <1>6 DEF Done
<1> QED BY <1>1, <1>7

-----------------------------------------------------------------------------
(* The events of a tick.                                                   *)

\* Every event is that of a dog that has moved, with a loot on the map or with an office;
\* and such a dog has an event with each of them that it meets.
LEMMA EventsAreMeetings ==
    ASSUME NEW moved
    PROVE  LET way(d, i, c) == Event(d, i, dogs[d].pos, moved[d].pos, c)
               events == GatherEvents(dogs, moved)
           IN  /\ \A e \in events :
                    /\ e.dog \in DOMAIN dogs
                    /\ \/ e.item \in DOMAIN loots /\ e = way(e.dog, e.item, loots[e.item])
                       \/ \E o \in map.offices : e.item = Office /\ e = way(e.dog, Office, o)
               /\ \A d \in DOMAIN dogs : dogs[d].pos # moved[d].pos =>
                    /\ \A l \in DOMAIN loots :
                        IsCollected(dogs[d].pos, moved[d].pos, loots[l], GathererWidth)
                        => way(d, l, loots[l]) \in events
                    /\ \A o \in map.offices :
                        IsCollected(dogs[d].pos, moved[d].pos, o, GathererWidth + OfficeWidth)
                        => way(d, Office, o) \in events
<1> DEFINE way(d, i, c) == Event(d, i, dogs[d].pos, moved[d].pos, c)
           events == GatherEvents(dogs, moved)
           walkers == {d \in DOMAIN dogs : dogs[d].pos # moved[d].pos}
           met(d) == {m \in DOMAIN loots :
                        IsCollected(dogs[d].pos, moved[d].pos, loots[m], GathererWidth)}
           visited(d) == {c \in map.offices :
                        IsCollected(dogs[d].pos, moved[d].pos, c, GathererWidth + OfficeWidth)}
           of(d) == {way(d, l, loots[l]) : l \in met(d)} \cup
                    {way(d, Office, o) : o \in visited(d)}
<1>1. events = UNION {of(d) : d \in walkers}
    BY DEF GatherEvents
<1>2. \A d, i, c : way(d, i, c).dog = d /\ way(d, i, c).item = i
    BY DEF Event
<1> HIDE DEF events, way
<1>3. ASSUME NEW e \in events
      PROVE  /\ e.dog \in DOMAIN dogs
             /\ \/ e.item \in DOMAIN loots /\ e = way(e.dog, e.item, loots[e.item])
                \/ \E o \in map.offices : e.item = Office /\ e = way(e.dog, Office, o)
    <2>1. PICK d \in walkers : e \in of(d)
        BY <1>1
    <2>2. CASE e \in {way(d, l, loots[l]) : l \in met(d)}
        <3>1. PICK l \in met(d) : e = way(d, l, loots[l])
            BY <2>2
        <3>2. e.dog = d /\ e.item = l
            BY <1>2, <3>1
        <3> QED BY <3>1, <3>2
    <2>3. CASE e \in {way(d, Office, o) : o \in visited(d)}
        <3>1. PICK o \in visited(d) : e = way(d, Office, o)
            BY <2>3
        <3>2. e.dog = d /\ e.item = Office
            BY <1>2, <3>1
        <3> QED BY <3>1, <3>2
    <2> QED BY <2>1, <2>2, <2>3
<1>4. ASSUME NEW d \in DOMAIN dogs, dogs[d].pos # moved[d].pos
      PROVE  /\ \A l \in met(d) : way(d, l, loots[l]) \in events
             /\ \A o \in visited(d) : way(d, Office, o) \in events
    <2>1. of(d) \subseteq events
        BY <1>1, <1>4
    <2> QED BY <2>1
<1> QED BY <1>3, <1>4 DEF events, way

\* There are finitely many of them.
LEMMA EventsAreFinite ==
    ASSUME NEW moved, IsFiniteSet(DOMAIN dogs), IsFiniteSet(DOMAIN loots),
           IsFiniteSet(map.offices)
    PROVE  IsFiniteSet(GatherEvents(dogs, moved))
<1> DEFINE way(d, i, c) == Event(d, i, dogs[d].pos, moved[d].pos, c)
           events == GatherEvents(dogs, moved)
           Loot(e) == e.item \in DOMAIN loots /\ e = way(e.dog, e.item, loots[e.item])
           Visit(e) == \E o \in map.offices : e.item = Office /\ e = way(e.dog, Office, o)
           loot == [p \in (DOMAIN dogs) \X (DOMAIN loots) |-> way(p[1], p[2], loots[p[2]])]
           visit == [p \in (DOMAIN dogs) \X map.offices |-> way(p[1], Office, p[2])]
           Image(f) == {f[p] : p \in DOMAIN f}
<1>1. \A e \in events : e.dog \in DOMAIN dogs /\ (Loot(e) \/ Visit(e))
    BY EventsAreMeetings
<1> HIDE DEF way, events
<1>2. ASSUME NEW f, IsFiniteSet(DOMAIN f), f = [p \in DOMAIN f |-> f[p]]
      PROVE  IsFiniteSet(Image(f))
    <2>1. f \in Surjection(DOMAIN f, Image(f))
        BY <1>2 DEF Surjection
    <2> HIDE DEF Image
    <2> QED BY <1>2, <2>1, FS_Surjection
<1>3. IsFiniteSet(Image(loot)) /\ IsFiniteSet(Image(visit))
    <2>1. IsFiniteSet(DOMAIN loot) /\ IsFiniteSet(DOMAIN visit)
        BY FS_Product
    <2>2. loot = [p \in DOMAIN loot |-> loot[p]] /\ visit = [p \in DOMAIN visit |-> visit[p]]
        OBVIOUS
    <2> HIDE DEF loot, visit, Image
    <2> QED BY <1>2, <2>1, <2>2
<1>4. events \subseteq Image(loot) \cup Image(visit)
    <2> SUFFICES ASSUME NEW e \in events PROVE e \in Image(loot) \cup Image(visit)
        OBVIOUS
    <2>1. CASE Loot(e)
        <3>1. /\ <<e.dog, e.item>> \in DOMAIN loot
              /\ loot[<<e.dog, e.item>>] = e
            BY <1>1, <2>1
        <3> HIDE DEF loot
        <3> QED BY <3>1
    <2>2. CASE Visit(e)
        <3>1. PICK o \in map.offices : e = way(e.dog, Office, o)
            BY <2>2
        <3>2. <<e.dog, o>> \in DOMAIN visit /\ visit[<<e.dog, o>>] = e
            BY <1>1, <3>1
        <3> HIDE DEF visit
        <3> QED BY <3>2
    <2> QED BY <1>1, <2>1, <2>2
<1>5. IsFiniteSet(Image(loot) \cup Image(visit))
    BY <1>3, FS_Union
<1> HIDE DEF Image, loot, visit
<1> QED BY <1>4, <1>5, FS_Subset DEF events

\* Of two shares of one way the greater is farther along it.
LEMMA LaterIsFarther ==
    ASSUME NEW a \in Int, NEW b \in Int, NEW n \in Int, n > 0, a * n <= b * n
    PROVE  a <= b
<1>1. \A k, m \in Int : m > 0 /\ k < 0 => k * m < 0
    OBVIOUS
<1>2. (b - a) * n = b * n - a * n
    OBVIOUS
<1>3. b - a \in Int /\ a * n \in Int /\ b * n \in Int
    OBVIOUS
<1> QED BY <1>1, <1>2, <1>3

-----------------------------------------------------------------------------
(* The invariant.                                                          *)

\* Types, and where the loot is.  Each needs the other: the scores are bounded by the loot
\* there is, and bags are sets of loot that has been made.
IInv == TypeOK /\ LootIsConserved

\* Dogs and loot are placed at points.
LEMMA SpawnPointsArePoints ==
    ASSUME NEW roads \in Seq(Road), NEW p \in SpawnPoints(roads)
    PROVE  p \in Points
<1> DEFINE xs(r) == Min({r.x0, r.x1}) .. Max({r.x0, r.x1})
           ys(r) == Min({r.y0, r.y1}) .. Max({r.y0, r.y1})
           spots(r) == {[x |-> Unit * x, y |-> Unit * y] : x \in xs(r), y \in ys(r)}
<1>1. SpawnPoints(roads) = UNION {spots(r) : r \in ToSet(roads)}
    BY DEF SpawnPoints
<1>2. PICK r \in ToSet(roads) : p \in spots(r)
    <2> HIDE DEF spots
    <2> QED BY <1>1
<1>3. \A x \in xs(r), y \in ys(r) : x \in Int /\ y \in Int
    OBVIOUS
<1> HIDE DEF xs, ys
<1>4. PICK x \in xs(r) : \E y \in ys(r) : p = [x |-> Unit * x, y |-> Unit * y]
    BY <1>2
<1>5. PICK y \in ys(r) : p = [x |-> Unit * x, y |-> Unit * y]
    BY <1>4
<1> QED BY <1>3, <1>4, <1>5 DEF Points, Unit

\* What the invariant says of dogs, loot and the map.
LEMMA InvariantFacts ==
    ASSUME IInv
    PROVE  /\ map \in Scenarios /\ map.bagCapacity \in Nat /\ map.loots \in Nat
           /\ map.roads \in Seq(Road) /\ IsFiniteSet(map.offices) /\ map.offices \subseteq Points
           /\ dogCounter \in Nat /\ lootCounter \in Nat /\ lost \in Nat
           /\ DOMAIN dogs \subseteq Ids(dogCounter) /\ IsFiniteSet(DOMAIN dogs)
           /\ DOMAIN loots \subseteq Ids(lootCounter) /\ IsFiniteSet(DOMAIN loots)
           /\ Cardinality(DOMAIN loots) \in Nat /\ Cardinality(DOMAIN dogs) \in Nat
           /\ \A l \in DOMAIN loots : loots[l] \in Points
           /\ \A d \in DOMAIN dogs :
                /\ dogs[d] \in Dogs /\ dogs[d].bag \in BagsOf(map)
                /\ Cardinality(dogs[d].bag) \in Nat
                /\ Owned(dogs, d) = Cardinality(dogs[d].bag) + dogs[d].score
           /\ \A k \in Nat : Owned(dogs, k) \in Nat
<1>1. /\ map \in Scenarios /\ map.bagCapacity \in Nat /\ map.loots \in Nat
      /\ map.roads \in Seq(Road) /\ IsFiniteSet(map.offices) /\ map.offices \subseteq Points
      /\ map.dogs \in Nat
    BY WorldAssumption DEF IInv, TypeOK
<1>2. /\ dogCounter \in Nat /\ lootCounter \in Nat /\ lost \in Nat
      /\ DOMAIN dogs \subseteq Ids(dogCounter) /\ DOMAIN loots \subseteq Ids(lootCounter)
      /\ \A l \in DOMAIN loots : loots[l] \in SpawnPoints(map.roads)
    <2>1. /\ dogCounter \in 0 .. map.dogs /\ lootCounter \in 0 .. map.loots
          /\ lost \in 0 .. lootCounter
          /\ DOMAIN dogs \subseteq Ids(dogCounter) /\ DOMAIN loots \subseteq Ids(lootCounter)
          /\ \A l \in DOMAIN loots : loots[l] \in SpawnPoints(map.roads)
        BY DEF IInv, TypeOK
    <2> QED BY <1>1, <2>1
<1>3. \A S : /\ S \subseteq Ids(lootCounter) => IsFiniteSet(S) /\ Cardinality(S) \in Nat
             /\ S \subseteq Ids(dogCounter) => IsFiniteSet(S) /\ Cardinality(S) \in Nat
    <2>1. IsFiniteSet(Ids(lootCounter)) /\ IsFiniteSet(Ids(dogCounter))
        BY <1>2, FS_Interval DEF Ids
    <2> QED BY <2>1, FS_Subset, FS_CardinalityType
<1>4. \A l \in DOMAIN loots : loots[l] \in Points
    BY <1>1, <1>2, SpawnPointsArePoints
<1>5. \A d \in DOMAIN dogs :
        /\ dogs[d] \in Dogs /\ dogs[d].bag \in BagsOf(map) /\ dogs[d].score \in Nat
        /\ Cardinality(dogs[d].bag) \in Nat
    <2> SUFFICES ASSUME NEW d \in DOMAIN dogs
                 PROVE  /\ dogs[d] \in Dogs /\ dogs[d].bag \in BagsOf(map)
                        /\ dogs[d].score \in Nat /\ Cardinality(dogs[d].bag) \in Nat
        OBVIOUS
    <2>1. dogs[d] \in [pos : Points, dir : {"U", "D", "L", "R", ""}, moving : BOOLEAN,
                       bag : BagsOf(map), score : 0 .. lootCounter]
        BY DEF IInv, TypeOK
    <2>2. dogs[d].bag \in BagsOf(map) /\ dogs[d].bag \subseteq Ids(lootCounter)
        BY <2>1 DEF BagsOf
    <2>3. dogs[d].score \in Nat
        <3>1. dogs[d].score \in 0 .. lootCounter
            BY <2>1
        <3> QED BY <1>2, <3>1
    <2>4. dogs[d].bag \in SUBSET Nat
        BY <1>2, <2>2 DEF Ids
    <2> HIDE DEF BagsOf
    <2>5. dogs[d] \in Dogs
        BY <2>1, <2>3, <2>4 DEF Dogs, Directions
    <2> QED BY <1>3, <2>2, <2>3, <2>5
<1>6. \A d \in DOMAIN dogs : Owned(dogs, d) = Cardinality(dogs[d].bag) + dogs[d].score
    BY DEF Owned
<1>7. \A k \in Nat : Owned(dogs, k) \in Nat
    BY <1>5 DEF Owned
<1> QED BY <1>1, <1>2, <1>3, <1>4, <1>5, <1>6, <1>7

\* What the dogs have when they have moved and all events are handled.
LEMMA Gathered ==
    ASSUME IInv, NEW dt \in map.ticks, NEW nearest \in BOOLEAN,
           NEW moved, moved = [d \in DOMAIN dogs |-> Moved(dogs[d], dt, nearest)],
           NEW order \in Orders(GatherEvents(dogs, moved)),
           NEW end, end = HandleAll(moved, order)
    PROVE  /\ Keeps(end, moved) /\ DOMAIN moved = DOMAIN dogs
           /\ \A d \in DOMAIN dogs : moved[d].score = dogs[d].score /\ end.dogs[d].pos \in Points
           /\ OwnedBelow(moved, dogCounter) = OwnedBelow(dogs, dogCounter)
           /\ OwnedBelow(end.dogs, dogCounter) \in Nat
           /\ \A d \in DOMAIN dogs : dogs[d].pos # end.dogs[d].pos =>
                /\ \A l \in DOMAIN end.loots :
                    IsCollected(dogs[d].pos, end.dogs[d].pos, loots[l], GathererWidth)
                    => Owned(end.dogs, d) >= map.bagCapacity + dogs[d].score
                /\ \A o \in map.offices :
                    IsCollected(dogs[d].pos, end.dogs[d].pos, o, GathererWidth + OfficeWidth)
                    => \A l \in end.dogs[d].bag :
                        /\ l \in DOMAIN loots
                        /\ Along(dogs[d].pos, end.dogs[d].pos, loots[l]) >=
                                Along(dogs[d].pos, end.dogs[d].pos, o)
<1> DEFINE events == GatherEvents(dogs, moved)
           way(d, i, c) == Event(d, i, dogs[d].pos, moved[d].pos, c)
<1>1. /\ map \in Scenarios /\ map.bagCapacity \in Nat /\ IsFiniteSet(map.offices)
      /\ map.offices \subseteq Points
      /\ dogCounter \in Nat /\ lootCounter \in Nat
      /\ DOMAIN dogs \subseteq Ids(dogCounter) /\ IsFiniteSet(DOMAIN dogs)
      /\ DOMAIN loots \subseteq Ids(lootCounter) /\ IsFiniteSet(DOMAIN loots)
      /\ \A l \in DOMAIN loots : loots[l] \in Points
      /\ \A d \in DOMAIN dogs : dogs[d] \in Dogs /\ dogs[d].bag \in BagsOf(map)
      /\ \A k \in Nat : Owned(dogs, k) \in Nat
    BY InvariantFacts
<1>2. \A d \in DOMAIN dogs :
        /\ dogs[d].bag \cap DOMAIN loots = {}
        /\ \A c \in DOMAIN dogs \ {d} : dogs[c].bag \cap dogs[d].bag = {}
    BY DEF IInv, LootIsConserved
<1>3. DOMAIN moved = DOMAIN dogs /\ moved \in [DOMAIN dogs -> Dogs]
      /\ \A d \in DOMAIN dogs : moved[d].bag = dogs[d].bag /\ moved[d].score = dogs[d].score
    <2>1. ASSUME NEW d \in DOMAIN dogs
          PROVE  /\ moved[d] \in Dogs
                 /\ moved[d].bag = dogs[d].bag /\ moved[d].score = dogs[d].score
        <3>1. moved[d] = Moved(dogs[d], dt, nearest) /\ dogs[d] \in Dogs
            BY <1>1
        <3> QED BY <1>1, <3>1, MovedIsADog
    <2> QED BY <2>1
<1>4. \A k \in Nat : Owned(moved, k) = Owned(dogs, k)
    BY <1>3 DEF Owned
<1>5. OwnedBelow(moved, dogCounter) = OwnedBelow(dogs, dogCounter)
    <2>1. \A k \in 0 .. dogCounter - 1 : Owned(moved, k) = Owned(dogs, k)
        BY <1>4
    <2>2. \A k \in 0 .. dogCounter - 1 : Owned(dogs, k) \in Nat /\ Owned(moved, k) \in Nat
        BY <1>1, <1>4
    <2> QED BY <1>1, <2>1, <2>2, OwnedBelowChanges
<1>6. IsFiniteSet(events)
    BY <1>1, EventsAreFinite
<1>7. /\ \A e \in events :
            /\ e.dog \in DOMAIN dogs
            /\ \/ e.item \in DOMAIN loots /\ e = way(e.dog, e.item, loots[e.item])
               \/ \E o \in map.offices : e.item = Office /\ e = way(e.dog, Office, o)
      /\ \A d \in DOMAIN dogs : dogs[d].pos # moved[d].pos =>
            /\ \A l \in DOMAIN loots :
                IsCollected(dogs[d].pos, moved[d].pos, loots[l], GathererWidth)
                => way(d, l, loots[l]) \in events
            /\ \A o \in map.offices :
                IsCollected(dogs[d].pos, moved[d].pos, o, GathererWidth + OfficeWidth)
                => way(d, Office, o) \in events
    BY EventsAreMeetings
<1>8. \A d, i, c : way(d, i, c).dog = d /\ way(d, i, c).item = i
    BY DEF Event
<1> HIDE DEF events, way
<1>9. /\ order \in Seq(events) /\ Len(order) \in Nat
      /\ \A e \in events : \E i \in 1 .. Len(order) : order[i] = e
      /\ \A i, j \in 1 .. Len(order) : i < j => NotLater(order[i], order[j])
    <2>1. order \in Orders(events)
        BY DEF events
    <2> QED BY <1>6, <2>1, OrdersAreSorted
<1>10. \A i \in 1 .. Len(order) : order[i] \in events
    BY <1>9, ElementOfSeq
<1>11. \A i \in 1 .. Len(order) :
        order[i].dog \in DOMAIN moved /\ order[i].item \in DOMAIN loots \cup {Office}
    BY <1>3, <1>7, <1>10
<1>12. Handled(end, order, Len(order), moved)
    <2>1. \A d \in DOMAIN moved :
            /\ moved[d].bag \in BagsOf(map)
            /\ moved[d].bag \cap DOMAIN loots = {}
            /\ \A c \in DOMAIN moved \ {d} : moved[c].bag \cap moved[d].bag = {}
        BY <1>1, <1>2, <1>3
    <2>2. moved \in [DOMAIN moved -> Dogs] /\ DOMAIN moved \subseteq Ids(dogCounter)
        BY <1>1, <1>3
    <2>3. Handled(HandleAll(moved, order), order, Len(order), moved)
        BY <1>1, <1>9, <1>11, <2>1, <2>2, AllHandled
    <2> QED BY <2>3
<1>13. Keeps(end, moved)
    BY <1>12 DEF Handled
<1>14. \A d \in DOMAIN dogs : end.dogs[d].pos = moved[d].pos /\ moved[d].pos \in Points
    BY <1>3, <1>13 DEF Keeps, Dogs
<1>15. ASSUME NEW d \in DOMAIN dogs, dogs[d].pos # end.dogs[d].pos, NEW l \in DOMAIN end.loots,
              IsCollected(dogs[d].pos, end.dogs[d].pos, loots[l], GathererWidth)
       PROVE  Owned(end.dogs, d) >= map.bagCapacity + dogs[d].score
    <2>1. l \in DOMAIN loots /\ l # Office
        BY <1>1, <1>13 DEF Keeps, Ids, Office
    <2>2. way(d, l, loots[l]) \in events
        BY <1>7, <1>14, <1>15, <2>1
    <2>3. PICK i \in 1 .. Len(order) : order[i] = way(d, l, loots[l])
        BY <1>9, <2>2
    <2>4. order[i].dog = d /\ order[i].item = l
        BY <1>8, <2>3
    <2> QED BY <1>3, <1>12, <1>15, <2>1, <2>4 DEF Handled
<1>16. ASSUME NEW d \in DOMAIN dogs, dogs[d].pos # end.dogs[d].pos, NEW o \in map.offices,
              IsCollected(dogs[d].pos, end.dogs[d].pos, o, GathererWidth + OfficeWidth),
              NEW l \in end.dogs[d].bag
       PROVE  /\ l \in DOMAIN loots
              /\ Along(dogs[d].pos, end.dogs[d].pos, loots[l]) >=
                        Along(dogs[d].pos, end.dogs[d].pos, o)
    <2>1. way(d, Office, o) \in events
        BY <1>7, <1>14, <1>16
    <2>2. PICK i \in 1 .. Len(order) : order[i] = way(d, Office, o)
        BY <1>9, <2>1
    <2>3. order[i].dog = d /\ order[i].item = Office
        BY <1>8, <2>2
    <2>4. PICK j \in i + 1 .. Len(order) : order[j].dog = d /\ order[j].item = l
        BY <1>12, <2>3 DEF Handled
    <2>5. l \in Ids(lootCounter) /\ l # Office
        <3>1. end.dogs[d].bag \in BagsOf(map)
            BY <1>3, <1>13 DEF Keeps
        <3>2. l \in Ids(lootCounter)
            BY <3>1 DEF BagsOf
        <3> QED BY <1>1, <3>2 DEF Ids, Office
    <2>6. l \in DOMAIN loots /\ order[j] = way(d, l, loots[l])
        BY <1>7, <1>10, <2>4, <2>5
    <2>7. NotLater(order[i], order[j])
        BY <1>9, <2>4
    <2> DEFINE a == Along(dogs[d].pos, moved[d].pos, o)
               b == Along(dogs[d].pos, moved[d].pos, loots[l])
               n == Distance(dogs[d].pos, moved[d].pos)
    <2>8. a * n <= b * n
        <3>1. way(d, Office, o).along = a /\ way(d, Office, o).length = n
            BY DEF way, Event
        <3>2. way(d, l, loots[l]).along = b /\ way(d, l, loots[l]).length = n
            BY DEF way, Event
        <3>3. NotLater(way(d, Office, o), way(d, l, loots[l]))
            BY <2>2, <2>6, <2>7
        <3> HIDE DEF a, b, n
        <3> QED BY <3>1, <3>2, <3>3 DEF NotLater
    <2>9. a \in Int /\ b \in Int /\ n \in Int /\ n > 0
        <3> DEFINE p == dogs[d].pos
                   q == moved[d].pos
        <3>1. p \in Points /\ q \in Points /\ p # q /\ o \in Points /\ loots[l] \in Points
            BY <1>1, <1>14, <1>16, <2>6 DEF Dogs
        <3> HIDE DEF p, q
        <3>2. \A c \in Points : Along(p, q, c) \in Int
            <4>1. \A s \in {-1, 0, 1}, k \in Int : k * s \in Int
                OBVIOUS
            <4>2. \A u, v \in Int : Toward(u, v, 1) \in {-1, 0, 1}
                BY DEF Toward
            <4> QED BY <3>1, <4>1, <4>2, SMTT(25) DEF Along, Points
        <3>3. Distance(p, q) \in Int /\ Distance(p, q) > 0
            <4>1. p.x # q.x \/ p.y # q.y
                BY <3>1 DEF Points
            <4> QED BY <3>1, <4>1 DEF Distance, Abs, Points
        <3> QED BY <3>1, <3>2, <3>3 DEF p, q
    <2> HIDE DEF a, b, n
    <2>10. a <= b
        BY <2>8, <2>9, LaterIsFarther
    <2> QED BY <1>14, <2>6, <2>9, <2>10 DEF a, b
<1>17. OwnedBelow(end.dogs, dogCounter) \in Nat
    <2>1. \A k \in 0 .. dogCounter - 1 : Owned(end.dogs, k) \in Nat
        <3> SUFFICES ASSUME NEW k \in DOMAIN moved PROVE Owned(end.dogs, k) \in Nat
            BY <1>13 DEF Keeps, Owned
        <3>1. end.dogs[k].bag \in SUBSET Ids(lootCounter) /\ k \in DOMAIN end.dogs
            BY <1>13 DEF Keeps, BagsOf
        <3>2. end.dogs[k].score \in Nat
            BY <1>13 DEF Keeps, Dogs
        <3> QED BY <1>1, <3>1, <3>2, LootIsFinite DEF Owned
    <2> DEFINE pack == end.dogs
    <2> HIDE DEF pack
    <2>2. \A k \in 0 .. dogCounter - 1 : Owned(pack, k) \in Nat /\ Owned(pack, k) \in Nat
        BY <2>1 DEF pack
    <2>3. OwnedBelow(pack, dogCounter) \in Nat
        BY <1>1, <2>2, OwnedBelowChanges
    <2> QED BY <2>3 DEF pack
<1> QED BY <1>3, <1>5, <1>13, <1>14, <1>15, <1>16, <1>17

-----------------------------------------------------------------------------
(* The invariant and the steps.                                            *)

\* A session starts with no dogs and no loot.
LEMMA InvariantHoldsInitially == Init => IInv
<1> SUFFICES ASSUME Init PROVE IInv
    OBVIOUS
<1>1. DOMAIN dogs = {} /\ DOMAIN loots = {}
    BY DEF Init
<1>2. map \in Scenarios /\ map.dogs \in Nat /\ map.loots \in Nat
    BY WorldAssumption DEF Init
<1>3. TypeOK
    BY <1>1, <1>2 DEF Init, TypeOK, Ids
<1>4. LootIsConserved
    <2>1. OwnedBelow(dogs, 0) = 0 /\ Cardinality(DOMAIN loots) = 0
        BY <1>1, OwnedBelowUnfolds, FS_EmptySet
    <2>2. lootCounter = 0 /\ lost = 0 /\ dogCounter = 0
        BY DEF Init
    <2> QED BY <1>1, <2>1, <2>2 DEF LootIsConserved
<1> QED BY <1>3, <1>4 DEF IInv

\* Ids are given in order.
LEMMA IdsGrow ==
    ASSUME NEW n \in Nat
    PROVE  Ids(n + 1) = Ids(n) \cup {n}
<1>1. (n + 1) - 1 = n
    OBVIOUS
<1>2. 0 .. n = (0 .. n - 1) \cup {n}
    OBVIOUS
<1> QED BY <1>1, <1>2 DEF Ids

\* A new dog has an empty bag and no score.
LEMMA AddDogKeepsInvariant ==
    ASSUME IInv, AddDogToSession
    PROVE  IInv'
<1>1. /\ map \in Scenarios /\ map.bagCapacity \in Nat /\ map.loots \in Nat
      /\ map.roads \in Seq(Road) /\ dogCounter \in Nat /\ lootCounter \in Nat
      /\ DOMAIN dogs \subseteq Ids(dogCounter) /\ DOMAIN loots \subseteq Ids(lootCounter)
      /\ \A k \in Nat : Owned(dogs, k) \in Nat
    BY InvariantFacts
<1>2. PICK p \in Points :
        dogs' = [d \in DOMAIN dogs \cup {dogCounter} |->
                    IF d \in DOMAIN dogs THEN dogs[d]
                    ELSE [pos |-> p, dir |-> "U", moving |-> FALSE, bag |-> {}, score |-> 0]]
    <2>1. ASSUME ~map.randomizeSpawnPoints
          PROVE  [x |-> Unit * map.roads[1].x0, y |-> Unit * map.roads[1].y0] \in Points
        <3>1. map.roads # <<>>
            BY <1>1, WorldAssumption
        <3>2. map.roads[1] \in Road
            BY <1>1, <3>1
        <3> QED BY <3>2 DEF Road, Points, Unit
    <2>2. \A q \in SpawnPoints(map.roads) : q \in Points
        BY <1>1, SpawnPointsArePoints
    <2>3. PICK q \in IF map.randomizeSpawnPoints THEN SpawnPoints(map.roads)
                    ELSE {[x |-> Unit * map.roads[1].x0, y |-> Unit * map.roads[1].y0]} :
            dogs' = [d \in DOMAIN dogs \cup {dogCounter} |->
                        IF d \in DOMAIN dogs THEN dogs[d]
                        ELSE [pos |-> q, dir |-> "U", moving |-> FALSE, bag |-> {}, score |-> 0]]
        BY DEF AddDogToSession
    <2>4. q \in Points
        BY <2>1, <2>2, <2>3
    <2> QED BY <2>3, <2>4
<1> DEFINE dog == [pos |-> p, dir |-> "U", moving |-> FALSE, bag |-> {}, score |-> 0]
<1>3. /\ DOMAIN dogs' = DOMAIN dogs \cup {dogCounter} /\ dogs'[dogCounter] = dog
      /\ \A d \in DOMAIN dogs : d # dogCounter /\ dogs'[d] = dogs[d]
    <2>1. dogCounter \notin DOMAIN dogs
        BY <1>1 DEF Ids
    <2> QED BY <1>2, <2>1
<1>4. /\ dogCounter < map.dogs /\ dogCounter' = dogCounter + 1
      /\ UNCHANGED <<map, loots, lootCounter, lost>>
    BY DEF AddDogToSession
<1>5. Cardinality({}) = 0 /\ {} \in BagsOf(map)
    BY <1>1, FS_EmptySet DEF BagsOf
<1>6. TypeOK'
    <2>1. /\ dogCounter' \in 0 .. map'.dogs /\ DOMAIN dogs' \subseteq Ids(dogCounter')
        <3>1. dogCounter' \in 0 .. map.dogs
            <4>1. map.dogs \in Nat
                BY <1>1, WorldAssumption
            <4> QED BY <1>1, <1>4, <4>1
        <3>2. Ids(dogCounter + 1) = Ids(dogCounter) \cup {dogCounter}
            BY <1>1, IdsGrow, Zenon
        <3> QED BY <1>1, <1>3, <1>4, <3>1, <3>2
    <2>2. BagsOf(map)' = BagsOf(map)
        BY <1>4 DEF BagsOf, Ids
    <2> DEFINE Dog == [pos : Points, dir : {"U", "D", "L", "R", ""}, moving : BOOLEAN,
                       bag : BagsOf(map), score : 0 .. lootCounter]
    <2>3. dog \in Dog
        BY <1>1, <1>5
    <2>4. \A d \in DOMAIN dogs : dogs[d] \in Dog
        BY DEF IInv, TypeOK
    <2>5. \A d \in DOMAIN dogs' : dogs'[d] \in Dog
        <3> HIDE DEF Dog, dog
        <3> QED BY <1>3, <2>3, <2>4
    <2> QED BY <1>4, <2>1, <2>2, <2>5 DEF IInv, TypeOK, Ids
<1>7. LootIsConserved'
    <2>1. \A d \in DOMAIN dogs :
            /\ dogs[d].bag \cap DOMAIN loots = {}
            /\ \A c \in DOMAIN dogs \ {d} : dogs[c].bag \cap dogs[d].bag = {}
        BY DEF IInv, LootIsConserved
    <2>2. \A d \in DOMAIN dogs' :
            /\ dogs'[d].bag \cap DOMAIN loots' = {}
            /\ \A c \in DOMAIN dogs' \ {d} : dogs'[c].bag \cap dogs'[d].bag = {}
        <3>1. dogs'[dogCounter].bag = {}
            BY <1>3
        <3> HIDE DEF dog
        <3> QED BY <1>3, <1>4, <2>1, <3>1
    <2>3. Owned(dogs', dogCounter) = 0
        BY <1>3, <1>5 DEF Owned
    <2>4. \A k \in 0 .. dogCounter - 1 : Owned(dogs', k) = Owned(dogs, k)
        <3> HIDE DEF dog
        <3> QED BY <1>1, <1>3 DEF Owned
    <2>5. OwnedBelow(dogs', dogCounter) = OwnedBelow(dogs, dogCounter)
          /\ OwnedBelow(dogs, dogCounter) \in Nat
        <3>1. \A k \in 0 .. dogCounter - 1 : Owned(dogs, k) \in Nat /\ Owned(dogs', k) \in Nat
            BY <1>1, <2>4, SMTT(25)
        <3> QED BY <1>1, <2>4, <3>1, OwnedBelowChanges
    <2>6. OwnedBelow(dogs', dogCounter + 1) = OwnedBelow(dogs, dogCounter)
        <3>1. OwnedBelow(dogs', dogCounter + 1) = OwnedBelow(dogs', dogCounter) + Owned(dogs', dogCounter)
            BY <1>1, OwnedBelowUnfolds
        <3> QED BY <2>3, <2>5, <3>1
    <2>7. lootCounter' = Cardinality(DOMAIN loots') + lost' + OwnedBelow(dogs', dogCounter')
        <3>1. lootCounter = Cardinality(DOMAIN loots) + lost + OwnedBelow(dogs, dogCounter)
            BY DEF IInv, LootIsConserved
        <3> QED BY <1>4, <2>6, <3>1
    <2> QED BY <2>2, <2>7 DEF LootIsConserved
<1> QED BY <1>6, <1>7 DEF IInv

\* A dog that turns keeps what it owns.
LEMMA DoActionKeepsInvariant ==
    ASSUME IInv, NEW d \in DOMAIN dogs, NEW dir \in map.directions, DoAction(d, dir)
    PROVE  IInv'
<1>1. /\ map \in Scenarios /\ dogCounter \in Nat
      /\ \A k \in Nat : Owned(dogs, k) \in Nat
    BY InvariantFacts
<1>2. /\ dogs' = [dogs EXCEPT ![d].dir = dir, ![d].moving = (dir # "")]
      /\ UNCHANGED <<map, loots, dogCounter, lootCounter, lost>>
    BY DEF DoAction
<1> DEFINE Dog == [pos : Points, dir : {"U", "D", "L", "R", ""}, moving : BOOLEAN,
                   bag : BagsOf(map), score : 0 .. lootCounter]
<1>3. \A c \in DOMAIN dogs : dogs[c] \in Dog
    BY DEF IInv, TypeOK
<1>4. dir \in {"U", "D", "L", "R", ""}
    BY <1>1, WorldAssumption
<1>5. DOMAIN dogs' = DOMAIN dogs /\ \A c \in DOMAIN dogs :
        /\ dogs'[c] \in Dog
        /\ dogs'[c].bag = dogs[c].bag /\ dogs'[c].score = dogs[c].score
    <2> HIDE DEF BagsOf
    <2>1. DOMAIN dogs' = DOMAIN dogs
        BY <1>2
    <2>2. ASSUME NEW c \in DOMAIN dogs
          PROVE  /\ dogs'[c] \in Dog
                 /\ dogs'[c].bag = dogs[c].bag /\ dogs'[c].score = dogs[c].score
        <3>1. CASE c = d
            <4>1. dogs'[d] = [dogs[d] EXCEPT !.dir = dir, !.moving = (dir # "")]
                BY <1>2
            <4>2. (dir # "") \in BOOLEAN
                OBVIOUS
            <4> QED BY <1>3, <1>4, <3>1, <4>1, <4>2
        <3>2. CASE c # d
            <4>1. dogs'[c] = dogs[c]
                BY <1>2, <3>2
            <4> QED BY <1>3, <4>1
        <3> QED BY <3>1, <3>2
    <2> QED BY <2>1, <2>2
<1>6. TypeOK'
    <2>1. BagsOf(map)' = BagsOf(map)
        BY <1>2 DEF BagsOf, Ids
    <2> QED BY <1>2, <1>5, <2>1 DEF IInv, TypeOK, Ids
<1> HIDE DEF Dog
<1>7. LootIsConserved'
    <2>1. \A k \in 0 .. dogCounter - 1 : Owned(dogs', k) = Owned(dogs, k)
        BY <1>5 DEF Owned
    <2>2. \A k \in 0 .. dogCounter - 1 : Owned(dogs, k) \in Nat /\ Owned(dogs', k) \in Nat
        BY <1>1, <2>1
    <2>3. OwnedBelow(dogs', dogCounter) = OwnedBelow(dogs, dogCounter)
        BY <1>1, <2>1, <2>2, OwnedBelowChanges
    <2> QED BY <1>2, <1>5, <2>3 DEF IInv, LootIsConserved
<1> QED BY <1>6, <1>7 DEF IInv

\* A retired dog takes with it what it owns.
LEMMA RemoveDogKeepsInvariant ==
    ASSUME IInv, NEW d \in DOMAIN dogs, RemoveDog(d)
    PROVE  IInv'
<1>1. /\ dogCounter \in Nat /\ lost \in Nat /\ lootCounter \in Nat
      /\ DOMAIN dogs \subseteq Ids(dogCounter)
      /\ Cardinality(DOMAIN loots) \in Nat
      /\ \A k \in Nat : Owned(dogs, k) \in Nat
      /\ Owned(dogs, d) = Cardinality(dogs[d].bag) + dogs[d].score
      /\ Cardinality(dogs[d].bag) \in Nat /\ dogs[d].score \in Nat
    <2>1. dogs[d] \in Dogs
        BY InvariantFacts
    <2>2. dogs[d].score \in Nat
        BY <2>1 DEF Dogs
    <2> QED BY <2>2, InvariantFacts
<1>2. /\ dogs' = [c \in DOMAIN dogs \ {d} |-> dogs[c]]
      /\ lost' = lost + Cardinality(dogs[d].bag) + dogs[d].score
      /\ UNCHANGED <<map, loots, dogCounter, lootCounter>>
    BY DEF RemoveDog
<1>3. DOMAIN dogs' = DOMAIN dogs \ {d} /\ \A c \in DOMAIN dogs \ {d} : dogs'[c] = dogs[c]
    BY <1>2
<1>4. lootCounter' = Cardinality(DOMAIN loots') + lost' + OwnedBelow(dogs', dogCounter')
    <2>1. Owned(dogs', d) = 0 /\ d \in 0 .. dogCounter - 1
        BY <1>1, <1>3 DEF Owned, Ids
    <2>2. \A k \in 0 .. dogCounter - 1 : k # d => Owned(dogs', k) = Owned(dogs, k)
        BY <1>3 DEF Owned
    <2>3. \A k \in 0 .. dogCounter - 1 : Owned(dogs, k) \in Nat /\ Owned(dogs', k) \in Nat
        BY <1>1, <2>1, <2>2
    <2>4. OwnedBelow(dogs', dogCounter) + Owned(dogs, d) = OwnedBelow(dogs, dogCounter)
          /\ OwnedBelow(dogs, dogCounter) \in Nat
        <3>1. OwnedBelow(dogs', dogCounter) + Owned(dogs, d) =
              OwnedBelow(dogs, dogCounter) + Owned(dogs', d)
            BY <1>1, <2>1, <2>2, <2>3, OwnedBelowChanges
        <3>2. OwnedBelow(dogs, dogCounter) \in Nat
            BY <1>1, <2>3, OwnedBelowChanges
        <3> QED BY <2>1, <3>1, <3>2
    <2>5. OwnedBelow(dogs', dogCounter) \in Nat
        <3>1. \A k \in 0 .. dogCounter - 1 : Owned(dogs', k) \in Nat /\ Owned(dogs, k) \in Nat
            BY <2>3
        <3> QED BY <1>1, <3>1, OwnedBelowChanges
    <2>6. lootCounter = Cardinality(DOMAIN loots) + lost + OwnedBelow(dogs, dogCounter)
        BY DEF IInv, LootIsConserved
    <2> QED BY <1>1, <1>2, <2>4, <2>5, <2>6
<1>5. OwnedBelow(dogs', dogCounter') \in Nat
    <2>1. \A k \in 0 .. dogCounter - 1 : Owned(dogs', k) \in Nat /\ Owned(dogs, k) \in Nat
        BY <1>1, <1>3 DEF Owned
    <2> QED BY <1>1, <1>2, <2>1, OwnedBelowChanges
<1>6. TypeOK'
    <2>1. BagsOf(map)' = BagsOf(map)
        BY <1>2 DEF BagsOf, Ids
    <2>2. lost' \in 0 .. lootCounter'
        BY <1>1, <1>2, <1>4, <1>5
    <2> QED BY <1>2, <1>3, <2>1, <2>2 DEF IInv, TypeOK, Ids
<1>7. LootIsConserved'
    BY <1>2, <1>3, <1>4 DEF IInv, LootIsConserved
<1> QED BY <1>6, <1>7 DEF IInv

\* A tick, with what Gathered says of it: left are the loots that stay on the map, and
\* count new ones come to them.
LEMMA TickGathers ==
    ASSUME IInv, NEW dt \in map.ticks, Tick(dt)
    PROVE  /\ UNCHANGED <<map, dogCounter, lost>>
           /\ DOMAIN dogs' = DOMAIN dogs
           /\ \A d \in DOMAIN dogs :
                /\ dogs'[d] \in Dogs /\ dogs'[d].bag \in BagsOf(map)
                /\ dogs'[d].score >= dogs[d].score
                /\ \A c \in DOMAIN dogs \ {d} : dogs'[c].bag \cap dogs'[d].bag = {}
           /\ OwnedBelow(dogs', dogCounter) \in Nat
           /\ \E nearest \in BOOLEAN : \A d \in DOMAIN dogs :
                dogs'[d].pos = Moved(dogs[d], dt, nearest).pos
           /\ \E left \in SUBSET DOMAIN loots :
                /\ \A d \in DOMAIN dogs : dogs'[d].bag \cap left = {}
                /\ Cardinality(left) + OwnedBelow(dogs', dogCounter) =
                   Cardinality(DOMAIN loots) + OwnedBelow(dogs, dogCounter)
                /\ \E count \in 0 .. Shortage(Cardinality(left), Cardinality(DOMAIN dogs)) :
                    /\ lootCounter' = lootCounter + count /\ lootCounter' <= map.loots
                    /\ DOMAIN loots' = left \cup (lootCounter .. lootCounter + count - 1)
                /\ \A l \in left : loots'[l] = loots[l]
                /\ \A l \in DOMAIN loots' \ left : loots'[l] \in SpawnPoints(map.roads)
                /\ \A d \in DOMAIN dogs : dogs[d].pos # dogs'[d].pos =>
                    /\ \A l \in left :
                        IsCollected(dogs[d].pos, dogs'[d].pos, loots[l], GathererWidth)
                        => Owned(dogs', d) >= map.bagCapacity + dogs[d].score
                    /\ \A o \in map.offices :
                        IsCollected(dogs[d].pos, dogs'[d].pos, o, GathererWidth + OfficeWidth)
                        => \A l \in dogs'[d].bag :
                            /\ l \in DOMAIN loots
                            /\ Along(dogs[d].pos, dogs'[d].pos, loots[l]) >=
                                    Along(dogs[d].pos, dogs'[d].pos, o)
<1>1. /\ map \in Scenarios /\ map.loots \in Nat /\ lootCounter \in Nat
      /\ DOMAIN loots \subseteq Ids(lootCounter) /\ IsFiniteSet(DOMAIN loots)
      /\ Cardinality(DOMAIN dogs) \in Nat
    BY InvariantFacts
<1>2. lootCounter <= map.loots /\ dt \in DOMAIN Probability
    <2>1. lootCounter \in 0 .. map.loots
        BY DEF IInv, TypeOK
    <2>2. map.ticks \subseteq DOMAIN Probability
        BY <1>1, WorldAssumption
    <2>3. dt \in DOMAIN Probability
        BY <2>2
    <2> QED BY <1>1, <2>1, <2>3
<1> DEFINE
        movedBy(nearest) == [d \in DOMAIN dogs |-> Moved(dogs[d], dt, nearest)]
        dueFrom(end) == Generate(dt, Cardinality(DOMAIN end.loots), Cardinality(DOMAIN dogs))
        countFrom(end) == Min({dueFrom(end), map.loots - lootCounter})
        Effect(end) ==
            /\ dogs' = end.dogs
            /\ \E new \in [lootCounter .. lootCounter + countFrom(end) - 1 ->
                            SpawnPoints(map.roads)] :
                loots' = [l \in DOMAIN end.loots \cup DOMAIN new |->
                            IF l \in DOMAIN new THEN new[l] ELSE end.loots[l]]
            /\ lootCounter' = lootCounter + countFrom(end)
            /\ UNCHANGED <<map, dogCounter, lost>>
<1>3. PICK nearest \in BOOLEAN : \E order \in Orders(GatherEvents(dogs, movedBy(nearest))) :
        Effect(HandleAll(movedBy(nearest), order))
    BY DEF Tick
<1>4. PICK order \in Orders(GatherEvents(dogs, movedBy(nearest))) :
        Effect(HandleAll(movedBy(nearest), order))
    <2> HIDE DEF Effect
    <2> QED BY <1>3
<1> HIDE DEF Effect, dueFrom, countFrom, movedBy
<1>5. PICK moved : moved = movedBy(nearest)
    OBVIOUS
<1>6. PICK end : end = HandleAll(moved, order)
    OBVIOUS
<1> DEFINE left == DOMAIN end.loots
           count == countFrom(end)
<1>7. Effect(end) /\ order \in Orders(GatherEvents(dogs, moved))
    BY <1>4, <1>5, <1>6
<1>8. /\ Keeps(end, moved) /\ DOMAIN moved = DOMAIN dogs
      /\ \A d \in DOMAIN dogs : moved[d].score = dogs[d].score /\ end.dogs[d].pos \in Points
      /\ OwnedBelow(moved, dogCounter) = OwnedBelow(dogs, dogCounter)
      /\ OwnedBelow(end.dogs, dogCounter) \in Nat
      /\ \A d \in DOMAIN dogs : dogs[d].pos # end.dogs[d].pos =>
            /\ \A l \in DOMAIN end.loots :
                IsCollected(dogs[d].pos, end.dogs[d].pos, loots[l], GathererWidth)
                => Owned(end.dogs, d) >= map.bagCapacity + dogs[d].score
            /\ \A o \in map.offices :
                IsCollected(dogs[d].pos, end.dogs[d].pos, o, GathererWidth + OfficeWidth)
                => \A l \in end.dogs[d].bag :
                    /\ l \in DOMAIN loots
                    /\ Along(dogs[d].pos, end.dogs[d].pos, loots[l]) >=
                            Along(dogs[d].pos, end.dogs[d].pos, o)
    <2>1. moved = [d \in DOMAIN dogs |-> Moved(dogs[d], dt, nearest)]
        BY <1>5 DEF movedBy
    <2> QED BY <1>6, <1>7, <2>1, Gathered
<1>9. dogs' = end.dogs /\ lootCounter' = lootCounter + count /\ UNCHANGED <<map, dogCounter, lost>>
    BY <1>7 DEF Effect
<1>10. left \in SUBSET DOMAIN loots /\ Cardinality(left) \in Nat
    <2>1. left \in SUBSET DOMAIN loots
        BY <1>8 DEF Keeps
    <2> QED BY <1>1, <2>1, FS_Subset, FS_CardinalityType
<1> HIDE DEF left
<1>11. count \in 0 .. Shortage(Cardinality(left), Cardinality(DOMAIN dogs))
       /\ count \in Nat /\ lootCounter + count <= map.loots
    <2> DEFINE due == dueFrom(end)
               room == map.loots - lootCounter
               short == Shortage(Cardinality(left), Cardinality(DOMAIN dogs))
    <2>1. due \in 0 .. short
        BY <1>1, <1>2, <1>10, GeneratesWithinShortage DEF dueFrom, left
    <2>2. short \in Nat
        BY <1>1, <1>10 DEF Shortage
    <2>3. room \in Nat
        BY <1>1, <1>2
    <2>4. count = Min({due, room})
        BY DEF countFrom
    <2> HIDE DEF due, room, short
    <2>5. due \in Int /\ room \in Int
        BY <2>1, <2>3
    <2>6. Min({due, room}) \in {due, room} /\ Min({due, room}) <= due /\ Min({due, room}) <= room
        BY <2>5, ExtremesOfTwo, MinMaxOfTwo, Zenon
    <2>7. count \in 0 .. short /\ count <= room
        <3> HIDE DEF count
        <3> QED BY <2>1, <2>2, <2>3, <2>4, <2>6
    <2> HIDE DEF count
    <2>8. count \in 0 .. short /\ count \in Nat
        BY <2>2, <2>7
    <2>9. lootCounter + count <= map.loots
        BY <1>1, <2>7, <2>8 DEF room
    <2> QED BY <2>8, <2>9 DEF short
<1> HIDE DEF count
<1>12. PICK new \in [lootCounter .. lootCounter + count - 1 -> SpawnPoints(map.roads)] :
        loots' = [l \in left \cup DOMAIN new |-> IF l \in DOMAIN new THEN new[l] ELSE end.loots[l]]
    BY <1>7 DEF Effect, left, count
<1>13. /\ DOMAIN loots' = left \cup (lootCounter .. lootCounter + count - 1)
       /\ \A l \in left : loots'[l] = loots[l]
       /\ \A l \in DOMAIN loots' \ left : loots'[l] \in SpawnPoints(map.roads)
    <2>1. \A l \in left : l \notin lootCounter .. lootCounter + count - 1 /\ end.loots[l] = loots[l]
        BY <1>1, <1>8, <1>10, <1>11 DEF Keeps, Ids, left
    <2> QED BY <1>12, <2>1
<1>14. /\ DOMAIN dogs' = DOMAIN dogs
       /\ \A d \in DOMAIN dogs :
            /\ dogs'[d] \in Dogs /\ dogs'[d].bag \in BagsOf(map)
            /\ dogs'[d].score >= dogs[d].score
            /\ \A c \in DOMAIN dogs \ {d} : dogs'[c].bag \cap dogs'[d].bag = {}
            /\ dogs'[d].bag \cap left = {}
       /\ Cardinality(left) + OwnedBelow(dogs', dogCounter) =
          Cardinality(DOMAIN loots) + OwnedBelow(dogs, dogCounter)
    <2>1. /\ end.dogs \in [DOMAIN dogs -> Dogs]
          /\ \A d \in DOMAIN dogs :
                /\ end.dogs[d].bag \in BagsOf(map)
                /\ end.dogs[d].bag \cap left = {}
                /\ \A c \in DOMAIN dogs \ {d} : end.dogs[c].bag \cap end.dogs[d].bag = {}
                /\ end.dogs[d].score >= dogs[d].score
          /\ Cardinality(left) + OwnedBelow(end.dogs, dogCounter) =
             Cardinality(DOMAIN loots) + OwnedBelow(dogs, dogCounter)
        <3> HIDE DEF BagsOf, Dogs
        <3> QED BY <1>8 DEF Keeps, left
    <2> DEFINE pack == end.dogs
    <2> HIDE DEF pack
    <2>2. dogs' = pack
        BY <1>9 DEF pack
    <2>3. /\ pack \in [DOMAIN dogs -> Dogs]
          /\ \A d \in DOMAIN dogs :
                /\ pack[d].bag \in BagsOf(map)
                /\ pack[d].bag \cap left = {}
                /\ \A c \in DOMAIN dogs \ {d} : pack[c].bag \cap pack[d].bag = {}
                /\ pack[d].score >= dogs[d].score
          /\ Cardinality(left) + OwnedBelow(pack, dogCounter) =
             Cardinality(DOMAIN loots) + OwnedBelow(dogs, dogCounter)
        BY <2>1 DEF pack
    <2>4. DOMAIN pack = DOMAIN dogs /\ \A d \in DOMAIN dogs : pack[d] \in Dogs
        BY <2>3
    <2> QED BY <2>2, <2>3, <2>4
<1>15. \A d \in DOMAIN dogs : dogs[d].pos # dogs'[d].pos =>
            /\ \A l \in left :
                IsCollected(dogs[d].pos, dogs'[d].pos, loots[l], GathererWidth)
                => Owned(dogs', d) >= map.bagCapacity + dogs[d].score
            /\ \A o \in map.offices :
                IsCollected(dogs[d].pos, dogs'[d].pos, o, GathererWidth + OfficeWidth)
                => \A l \in dogs'[d].bag :
                    /\ l \in DOMAIN loots
                    /\ Along(dogs[d].pos, dogs'[d].pos, loots[l]) >=
                            Along(dogs[d].pos, dogs'[d].pos, o)
    BY <1>8, <1>9 DEF left
<1>16. OwnedBelow(dogs', dogCounter) \in Nat
    BY <1>8, <1>9
<1>17. \A d \in DOMAIN dogs : dogs'[d].pos = Moved(dogs[d], dt, nearest).pos
    <2>1. \A d \in DOMAIN dogs : end.dogs[d].pos = moved[d].pos
        BY <1>8 DEF Keeps
    <2>2. \A d \in DOMAIN dogs : moved[d] = Moved(dogs[d], dt, nearest)
        BY <1>5 DEF movedBy
    <2> QED BY <1>9, <2>1, <2>2
<1> QED BY <1>9, <1>10, <1>11, <1>13, <1>14, <1>15, <1>16, <1>17

\* A tick keeps the types and the loot.
LEMMA TickKeepsInvariant ==
    ASSUME IInv, NEW dt \in map.ticks, Tick(dt)
    PROVE  IInv'
<1>1. /\ map \in Scenarios /\ map.loots \in Nat /\ map.bagCapacity \in Nat
      /\ dogCounter \in Nat /\ lootCounter \in Nat /\ lost \in Nat
      /\ DOMAIN dogs \subseteq Ids(dogCounter)
      /\ DOMAIN loots \subseteq Ids(lootCounter) /\ IsFiniteSet(DOMAIN loots)
      /\ Cardinality(DOMAIN dogs) \in Nat
    BY InvariantFacts
<1>2. /\ UNCHANGED <<map, dogCounter, lost>>
      /\ DOMAIN dogs' = DOMAIN dogs
      /\ \A d \in DOMAIN dogs :
            /\ dogs'[d] \in Dogs /\ dogs'[d].bag \in BagsOf(map)
            /\ \A c \in DOMAIN dogs \ {d} : dogs'[c].bag \cap dogs'[d].bag = {}
      /\ OwnedBelow(dogs', dogCounter) \in Nat
    BY TickGathers
<1>3. PICK left \in SUBSET DOMAIN loots :
        /\ \A d \in DOMAIN dogs : dogs'[d].bag \cap left = {}
        /\ Cardinality(left) + OwnedBelow(dogs', dogCounter) =
           Cardinality(DOMAIN loots) + OwnedBelow(dogs, dogCounter)
        /\ \E count \in 0 .. Shortage(Cardinality(left), Cardinality(DOMAIN dogs)) :
            /\ lootCounter' = lootCounter + count /\ lootCounter' <= map.loots
            /\ DOMAIN loots' = left \cup (lootCounter .. lootCounter + count - 1)
        /\ \A l \in left : loots'[l] = loots[l]
        /\ \A l \in DOMAIN loots' \ left : loots'[l] \in SpawnPoints(map.roads)
    BY TickGathers
<1>4. PICK count \in 0 .. Shortage(Cardinality(left), Cardinality(DOMAIN dogs)) :
        /\ lootCounter' = lootCounter + count /\ lootCounter' <= map.loots
        /\ DOMAIN loots' = left \cup (lootCounter .. lootCounter + count - 1)
    BY <1>3
<1> DEFINE new == lootCounter .. lootCounter + count - 1
<1>5. IsFiniteSet(left) /\ Cardinality(left) \in Nat
    BY <1>1, <1>3, FS_Subset, FS_CardinalityType
<1>6. count \in Nat
    <2>1. Shortage(Cardinality(left), Cardinality(DOMAIN dogs)) \in Nat
        BY <1>1, <1>5 DEF Shortage
    <2> QED BY <1>4, <2>1
<1>7. Cardinality(DOMAIN loots') = Cardinality(left) + count
    <2>1. IsFiniteSet(new) /\ Cardinality(new) = count
        <3> DEFINE last == lootCounter + count - 1
        <3>1. last \in Int /\ lootCounter \in Int
            BY <1>1, <1>6
        <3>2. IF lootCounter > last THEN count = 0 ELSE last - lootCounter + 1 = count
            BY <1>1, <1>6
        <3>3. new = lootCounter .. last
            OBVIOUS
        <3> HIDE DEF last, new
        <3>4. /\ IsFiniteSet(lootCounter .. last)
              /\ Cardinality(lootCounter .. last) =
                    IF lootCounter > last THEN 0 ELSE last - lootCounter + 1
            BY <3>1, FS_Interval, Zenon
        <3> QED BY <3>2, <3>3, <3>4
    <2>2. left \cap new = {}
        BY <1>1, <1>3, <1>6 DEF Ids
    <2> HIDE DEF new
    <2>3. Cardinality(left \cup new) = Cardinality(left) + Cardinality(new) - Cardinality(left \cap new)
        BY <1>5, <2>1, FS_Union
    <2>4. Cardinality(left \cap new) = 0
        BY <2>2, FS_EmptySet
    <2>5. DOMAIN loots' = left \cup new
        BY <1>4 DEF new
    <2> QED BY <1>5, <1>6, <2>1, <2>3, <2>4, <2>5
<1>8. Ids(lootCounter) \cup new = Ids(lootCounter + count)
    BY <1>1, <1>6 DEF Ids
<1>9. lootCounter' = Cardinality(DOMAIN loots') + lost' + OwnedBelow(dogs', dogCounter')
    <2> DEFINE before == OwnedBelow(dogs, dogCounter)
               after == OwnedBelow(dogs', dogCounter)
    <2>1. lootCounter = Cardinality(DOMAIN loots) + lost + before
        BY DEF IInv, LootIsConserved
    <2>2. OwnedBelow(dogs', dogCounter') = after /\ lost' = lost /\ lootCounter' = lootCounter + count
        BY <1>2, <1>4
    <2>3. after \in Nat /\ before \in Nat
        <3>1. \A k \in 0 .. dogCounter - 1 : Owned(dogs, k) \in Nat /\ Owned(dogs, k) \in Nat
            BY InvariantFacts
        <3> QED BY <1>1, <1>2, <3>1, OwnedBelowChanges
    <2>4. Cardinality(left) + after = Cardinality(DOMAIN loots) + before
        BY <1>3
    <2>5. Cardinality(DOMAIN loots) \in Nat
        BY <1>1, FS_CardinalityType
    <2> HIDE DEF before, after
    <2> QED BY <1>1, <1>5, <1>6, <1>7, <2>1, <2>2, <2>3, <2>4, <2>5
<1>10. \A d \in DOMAIN dogs : dogs'[d].score \in 0 .. lootCounter'
    <2> SUFFICES ASSUME NEW d \in DOMAIN dogs PROVE dogs'[d].score \in 0 .. lootCounter'
        OBVIOUS
    <2>1. \A k \in 0 .. dogCounter - 1 : Owned(dogs', k) \in Nat /\ Owned(dogs', k) \in Nat
        <3> SUFFICES ASSUME NEW k \in DOMAIN dogs PROVE Owned(dogs', k) \in Nat
            BY <1>2 DEF Owned
        <3>1. dogs'[k].bag \in SUBSET Ids(lootCounter) /\ dogs'[k].score \in Nat
            BY <1>2 DEF BagsOf, Dogs
        <3>2. Cardinality(dogs'[k].bag) \in Nat
            BY <1>1, <3>1, LootIsFinite
        <3> QED BY <1>2, <3>1, <3>2 DEF Owned
    <2>2. d \in 0 .. dogCounter - 1
        BY <1>1 DEF Ids
    <2>3. Owned(dogs', d) <= OwnedBelow(dogs', dogCounter)
        BY <1>1, <2>1, <2>2, OwnedBelowChanges
    <2>4. OwnedBelow(dogs', dogCounter) <= lootCounter'
        BY <1>1, <1>2, <1>5, <1>6, <1>7, <1>9
    <2>5. Cardinality(dogs'[d].bag) \in Nat /\ dogs'[d].score \in Nat
        <3>1. dogs'[d].bag \in SUBSET Ids(lootCounter) /\ dogs'[d].score \in Nat
            BY <1>2 DEF BagsOf, Dogs
        <3> QED BY <1>1, <3>1, LootIsFinite
    <2>6. Owned(dogs', d) = Cardinality(dogs'[d].bag) + dogs'[d].score
        BY <1>2 DEF Owned
    <2>7. lootCounter' \in Nat
        BY <1>1, <1>4, <1>6
    <2> QED BY <1>2, <2>3, <2>4, <2>5, <2>6, <2>7
<1>11. TypeOK'
    <2>1. lootCounter' \in 0 .. map.loots /\ lost' \in 0 .. lootCounter'
        <3>1. lost \in 0 .. lootCounter
            BY DEF IInv, TypeOK
        <3> QED BY <1>1, <1>2, <1>4, <1>6, <3>1
    <2>2. DOMAIN loots' \subseteq Ids(lootCounter')
        BY <1>1, <1>4, <1>8
    <2>3. \A l \in DOMAIN loots' : loots'[l] \in SpawnPoints(map.roads)
        <3>1. \A l \in DOMAIN loots : loots[l] \in SpawnPoints(map.roads)
            BY DEF IInv, TypeOK
        <3> QED BY <1>3, <3>1
    <2>4. \A bag \in BagsOf(map) : bag \in BagsOf(map)'
        BY <1>2, <1>4, <1>8 DEF BagsOf
    <2> DEFINE Dog == [pos : Points, dir : {"U", "D", "L", "R", ""}, moving : BOOLEAN,
                       bag : BagsOf(map)', score : 0 .. lootCounter']
    <2>5. \A d \in DOMAIN dogs : dogs'[d] \in Dog
        <3> SUFFICES ASSUME NEW d \in DOMAIN dogs PROVE dogs'[d] \in Dog
            OBVIOUS
        <3>1. dogs'[d] \in Dogs /\ dogs'[d].bag \in BagsOf(map)' /\ dogs'[d].score \in 0 .. lootCounter'
            BY <1>2, <1>10, <2>4
        <3> HIDE DEF BagsOf
        <3> QED BY <3>1 DEF Dogs, Directions
    <2>6. dogCounter' \in 0 .. map'.dogs /\ DOMAIN dogs' \subseteq Ids(dogCounter')
        BY <1>2 DEF IInv, TypeOK, Ids
    <2> QED BY <1>1, <1>2, <2>1, <2>2, <2>3, <2>5, <2>6 DEF TypeOK
<1>12. LootIsConserved'
    <2>1. \A d \in DOMAIN dogs : dogs'[d].bag \cap DOMAIN loots' = {}
        <3> SUFFICES ASSUME NEW d \in DOMAIN dogs, NEW l \in dogs'[d].bag
                     PROVE  l \notin DOMAIN loots'
            OBVIOUS
        <3>1. l \in Ids(lootCounter) /\ l \notin left
            BY <1>2, <1>3 DEF BagsOf
        <3> QED BY <1>1, <1>4, <1>6, <3>1 DEF Ids
    <2> QED BY <1>2, <1>9, <2>1 DEF LootIsConserved
<1> QED BY <1>11, <1>12 DEF IInv

\* Every step of the session keeps the invariant.
LEMMA StepKeepsInvariant ==
    ASSUME IInv, [Next]_vars
    PROVE  IInv'
<1>1. CASE AddDogToSession
    BY <1>1, AddDogKeepsInvariant
<1>2. ASSUME NEW d \in DOMAIN dogs, NEW dir \in map.directions, DoAction(d, dir)
      PROVE  IInv'
    BY <1>2, DoActionKeepsInvariant
<1>3. ASSUME NEW d \in DOMAIN dogs, RemoveDog(d)
      PROVE  IInv'
    BY <1>3, RemoveDogKeepsInvariant
<1>4. ASSUME NEW dt \in map.ticks, Tick(dt)
      PROVE  IInv'
    BY <1>4, TickKeepsInvariant
<1>5. CASE UNCHANGED vars
    <2>1. UNCHANGED <<map, dogs, loots, dogCounter, lootCounter, lost>>
        BY <1>5 DEF vars
    <2> QED BY <2>1 DEF IInv, TypeOK, LootIsConserved, BagsOf, Ids
<1> QED BY <1>1, <1>2, <1>3, <1>4, <1>5 DEF Next

LEMMA InvariantHolds == Spec => []IInv
BY InvariantHoldsInitially, StepKeepsInvariant, PTL DEF Spec

\* Only ticks move dogs, take loot off the map or bring it there.
LEMMA OnlyTicksWalk ==
    ASSUME IInv, [Next]_vars
    PROVE  \/ \E dt \in map.ticks : Tick(dt)
           \/ UNCHANGED loots /\ \A d : Stays(d) => Walked(d) = 0
<1>1. \A d \in DOMAIN dogs : dogs[d].pos.x \in Int /\ dogs[d].pos.y \in Int
    <2>1. \A d \in DOMAIN dogs : dogs[d] \in Dogs
        BY InvariantFacts
    <2> QED BY <2>1 DEF Dogs, Points
<1>2. ASSUME NEW d, Stays(d), dogs'[d].pos = dogs[d].pos PROVE Walked(d) = 0
    BY <1>1, <1>2 DEF Stays, Walked, Distance, Abs
<1>3. CASE AddDogToSession
    <2>1. PICK p : dogs' = [d \in DOMAIN dogs \cup {dogCounter} |->
                    IF d \in DOMAIN dogs THEN dogs[d]
                    ELSE [pos |-> p, dir |-> "U", moving |-> FALSE, bag |-> {}, score |-> 0]]
        BY <1>3 DEF AddDogToSession
    <2>2. \A d \in DOMAIN dogs : dogs'[d] = dogs[d]
        BY <2>1
    <2> QED BY <1>2, <1>3, <2>2 DEF AddDogToSession, Stays
<1>4. ASSUME NEW c \in DOMAIN dogs, NEW dir \in map.directions, DoAction(c, dir)
      PROVE  UNCHANGED loots /\ \A d : Stays(d) => Walked(d) = 0
    <2>1. \A d \in DOMAIN dogs : dogs'[d].pos = dogs[d].pos
        <3>1. dogs' = [dogs EXCEPT ![c].dir = dir, ![c].moving = (dir # "")]
            BY <1>4 DEF DoAction
        <3>2. dogs[c] \in Dogs
            BY InvariantFacts
        <3> QED BY <3>1, <3>2 DEF Dogs
    <2> QED BY <1>2, <1>4, <2>1 DEF DoAction, Stays
<1>5. ASSUME NEW c \in DOMAIN dogs, RemoveDog(c)
      PROVE  UNCHANGED loots /\ \A d : Stays(d) => Walked(d) = 0
    BY <1>2, <1>5 DEF RemoveDog, Stays
<1>6. CASE UNCHANGED vars
    <2>1. UNCHANGED <<dogs, loots>>
        BY <1>6 DEF vars
    <2> QED BY <1>2, <2>1 DEF Stays
<1> QED BY <1>3, <1>4, <1>5, <1>6 DEF Next

-----------------------------------------------------------------------------
(* The theorems.                                                           *)

\* Dogs stand on points and carry no more than their bags hold, the ids given so far name
\* everything there is, and no dog has scored more than there was.
THEOREM TypeCorrect == Spec => []TypeOK
<1>1. IInv => TypeOK
    BY DEF IInv
<1> QED BY <1>1, InvariantHolds, PTL

\* Every loot is on the map, in one bag, scored once, or gone with a retired dog, on any
\* map, with any number of dogs that meet any number of loots and offices in a tick.
THEOREM LootIsConservedHolds == Spec => []LootIsConserved
<1>1. IInv => LootIsConserved
    BY DEF IInv
<1> QED BY <1>1, InvariantHolds, PTL

\* Loot that dogs meet stays on the map only for want of room: each of them has had as
\* many loots as a bag holds.
THEOREM NothingLeftBehindHolds == Spec => NothingLeftBehind
<1>1. ASSUME IInv, [Next]_vars
      PROVE  \A l \in DOMAIN loots : l \in DOMAIN loots' =>
                \A d \in DOMAIN dogs : Meets(d, loots[l], GathererWidth) =>
                    Cardinality(dogs'[d].bag) + dogs'[d].score - dogs[d].score >= map.bagCapacity
    <2> SUFFICES ASSUME NEW l \in DOMAIN loots, l \in DOMAIN loots',
                        NEW d \in DOMAIN dogs, Meets(d, loots[l], GathererWidth)
                 PROVE  Cardinality(dogs'[d].bag) + dogs'[d].score - dogs[d].score >= map.bagCapacity
        OBVIOUS
    <2>1. PICK dt \in map.ticks : Tick(dt)
        BY <1>1, OnlyTicksWalk DEF Meets
    <2>2. /\ lootCounter \in Nat /\ map.bagCapacity \in Nat
          /\ dogs[d].score \in Nat /\ l \in Ids(lootCounter)
        <3>1. /\ dogs[d] \in Dogs /\ lootCounter \in Nat /\ map.bagCapacity \in Nat
              /\ DOMAIN loots \subseteq Ids(lootCounter)
            BY <1>1, InvariantFacts
        <3> QED BY <3>1 DEF Dogs
    <2>3. /\ DOMAIN dogs' = DOMAIN dogs /\ dogs'[d] \in Dogs
          /\ dogs'[d].bag \in BagsOf(map)
        BY <1>1, <2>1, TickGathers
    <2>4. PICK left \in SUBSET DOMAIN loots :
            /\ \E count \in 0 .. Shortage(Cardinality(left), Cardinality(DOMAIN dogs)) :
                    DOMAIN loots' = left \cup (lootCounter .. lootCounter + count - 1)
            /\ \A c \in DOMAIN dogs : dogs[c].pos # dogs'[c].pos =>
                \A m \in left :
                    IsCollected(dogs[c].pos, dogs'[c].pos, loots[m], GathererWidth)
                    => Owned(dogs', c) >= map.bagCapacity + dogs[c].score
        BY <1>1, <2>1, TickGathers
    <2>5. l \in left
        BY <2>2, <2>4 DEF Ids
    <2>6. dogs[d].pos # dogs'[d].pos
        <3>1. dogs[d].pos.x \in Int /\ dogs[d].pos.y \in Int
            BY <1>1, InvariantFacts DEF Dogs, Points
        <3> QED BY <3>1 DEF Meets, Walked, Distance, Abs
    <2>7. Owned(dogs', d) >= map.bagCapacity + dogs[d].score
        BY <2>4, <2>5, <2>6 DEF Meets
    <2>8. Owned(dogs', d) = Cardinality(dogs'[d].bag) + dogs'[d].score
        BY <2>3 DEF Owned
    <2>9. Cardinality(dogs'[d].bag) \in Nat /\ dogs'[d].score \in Nat
        <3>1. dogs'[d].bag \in SUBSET Ids(lootCounter) /\ dogs'[d].score \in Nat
            BY <2>3 DEF BagsOf, Dogs
        <3> QED BY <2>2, <3>1, LootIsFinite
    <2> QED BY <2>2, <2>7, <2>8, <2>9
<1>2. IInv /\ [Next]_vars =>
        [\A l \in DOMAIN loots : l \in DOMAIN loots' =>
            \A d \in DOMAIN dogs : Meets(d, loots[l], GathererWidth) =>
                Cardinality(dogs'[d].bag) + dogs'[d].score - dogs[d].score >= map.bagCapacity]_vars
    BY <1>1
<1> QED BY <1>2, InvariantHolds, PTL DEF Spec, NothingLeftBehind

\* After an office, a bag holds only what the dog met not before the office.
THEOREM OfficesEmptyBagsHolds == Spec => OfficesEmptyBags
<1>1. ASSUME IInv, [Next]_vars
      PROVE  \A d \in DOMAIN dogs, o \in map.offices : Meets(d, o, GathererWidth + OfficeWidth) =>
                \A l \in dogs'[d].bag :
                    /\ l \in DOMAIN loots
                    /\ Along(dogs[d].pos, dogs'[d].pos, loots[l]) >=
                            Along(dogs[d].pos, dogs'[d].pos, o)
    <2> SUFFICES ASSUME NEW d \in DOMAIN dogs, NEW o \in map.offices,
                        Meets(d, o, GathererWidth + OfficeWidth), NEW l \in dogs'[d].bag
                 PROVE  /\ l \in DOMAIN loots
                        /\ Along(dogs[d].pos, dogs'[d].pos, loots[l]) >=
                                Along(dogs[d].pos, dogs'[d].pos, o)
        OBVIOUS
    <2>1. PICK dt \in map.ticks : Tick(dt)
        BY <1>1, OnlyTicksWalk DEF Meets
    <2>2. dogs[d].pos # dogs'[d].pos
        <3>1. dogs[d].pos.x \in Int /\ dogs[d].pos.y \in Int
            BY <1>1, InvariantFacts DEF Dogs, Points
        <3> QED BY <3>1 DEF Meets, Walked, Distance, Abs
    <2>3. \A c \in DOMAIN dogs : dogs[c].pos # dogs'[c].pos =>
            \A q \in map.offices :
                IsCollected(dogs[c].pos, dogs'[c].pos, q, GathererWidth + OfficeWidth)
                => \A m \in dogs'[c].bag :
                    /\ m \in DOMAIN loots
                    /\ Along(dogs[c].pos, dogs'[c].pos, loots[m]) >=
                            Along(dogs[c].pos, dogs'[c].pos, q)
        BY <1>1, <2>1, TickGathers
    <2> QED BY <2>2, <2>3 DEF Meets
<1>2. IInv /\ [Next]_vars =>
        [\A d \in DOMAIN dogs, o \in map.offices : Meets(d, o, GathererWidth + OfficeWidth) =>
            \A l \in dogs'[d].bag :
                /\ l \in DOMAIN loots
                /\ Along(dogs[d].pos, dogs'[d].pos, loots[l]) >=
                        Along(dogs[d].pos, dogs'[d].pos, o)]_vars
    BY <1>1
<1> QED BY <1>2, InvariantHolds, PTL DEF Spec, OfficesEmptyBags

\* When loot is generated, there is not more of it afterwards than there are dogs.
THEOREM LootNeverExceedsLootersHolds == Spec => LootNeverExceedsLooters
<1>1. ASSUME IInv, [Next]_vars
      PROVE  \/ (DOMAIN loots') \subseteq DOMAIN loots
             \/ Cardinality(DOMAIN loots') <= Cardinality(DOMAIN dogs)
    <2>1. CASE UNCHANGED loots
        BY <2>1
    <2>2. ASSUME NEW dt \in map.ticks, Tick(dt)
          PROVE  \/ (DOMAIN loots') \subseteq DOMAIN loots
                 \/ Cardinality(DOMAIN loots') <= Cardinality(DOMAIN dogs)
        <3>1. /\ lootCounter \in Nat /\ IsFiniteSet(DOMAIN loots)
              /\ Cardinality(DOMAIN dogs) \in Nat
            BY <1>1, InvariantFacts
        <3>2. PICK left \in SUBSET DOMAIN loots :
                \E count \in 0 .. Shortage(Cardinality(left), Cardinality(DOMAIN dogs)) :
                    DOMAIN loots' = left \cup (lootCounter .. lootCounter + count - 1)
            BY <1>1, <2>2, TickGathers
        <3>3. PICK count \in 0 .. Shortage(Cardinality(left), Cardinality(DOMAIN dogs)) :
                DOMAIN loots' = left \cup (lootCounter .. lootCounter + count - 1)
            BY <3>2
        <3> DEFINE new == lootCounter .. lootCounter + count - 1
        <3>4. IsFiniteSet(left) /\ Cardinality(left) \in Nat
            BY <3>1, FS_Subset, FS_CardinalityType
        <3>5. /\ count \in Nat
              /\ count = 0 \/ count <= Cardinality(DOMAIN dogs) - Cardinality(left)
            BY <3>1, <3>3, <3>4 DEF Shortage
        <3>6. CASE count = 0
            BY <3>1, <3>3, <3>6
        <3>7. CASE count <= Cardinality(DOMAIN dogs) - Cardinality(left)
            <4>1. IsFiniteSet(new) /\ Cardinality(new) = count
                <5> DEFINE last == lootCounter + count - 1
                <5>1. last \in Int /\ lootCounter \in Int
                    BY <3>1, <3>5
                <5>2. IF lootCounter > last THEN count = 0 ELSE last - lootCounter + 1 = count
                    BY <3>1, <3>5
                <5>3. new = lootCounter .. last
                    OBVIOUS
                <5> HIDE DEF last, new
                <5>4. /\ IsFiniteSet(lootCounter .. last)
                      /\ Cardinality(lootCounter .. last) =
                            IF lootCounter > last THEN 0 ELSE last - lootCounter + 1
                    BY <5>1, FS_Interval, Zenon
                <5> QED BY <5>2, <5>3, <5>4
            <4> HIDE DEF new
            <4>2. Cardinality(left \cup new) =
                    Cardinality(left) + Cardinality(new) - Cardinality(left \cap new)
                BY <3>4, <4>1, FS_Union
            <4>3. Cardinality(left \cap new) \in Nat
                BY <3>4, FS_Intersection, FS_CardinalityType
            <4>4. DOMAIN loots' = left \cup new
                BY <3>3 DEF new
            <4> QED BY <3>1, <3>4, <3>5, <3>7, <4>1, <4>2, <4>3, <4>4
        <3> QED BY <3>5, <3>6, <3>7
    <2> QED BY <1>1, <2>1, <2>2, OnlyTicksWalk
<1>2. IInv /\ [Next]_vars =>
        [\/ (DOMAIN loots') \subseteq DOMAIN loots
         \/ Cardinality(DOMAIN loots') <= Cardinality(DOMAIN dogs)]_vars
    BY <1>1
<1> QED BY <1>2, InvariantHolds, PTL DEF Spec, LootNeverExceedsLooters

\* Wherever a dog is put on a road, it is near one.
LEMMA SpawnPointsAreNear ==
    ASSUME NEW roads \in Seq(Road), NEW road \in Road, \E i \in DOMAIN roads : roads[i] = road,
           NEW x \in Int, NEW y \in Int,
           Min({road.x0, road.x1}) <= x, x <= Max({road.x0, road.x1}),
           Min({road.y0, road.y1}) <= y, y <= Max({road.y0, road.y1})
    PROVE  \E i \in DOMAIN roads : IsNearRoad(roads[i], [x |-> Unit * x, y |-> Unit * y])
<1> DEFINE p == [x |-> Unit * x, y |-> Unit * y]
           area == Area(road)
           x1 == Min({road.x0, road.x1})
           x2 == Max({road.x0, road.x1})
           y1 == Min({road.y0, road.y1})
           y2 == Max({road.y0, road.y1})
<1>1. x1 \in Int /\ x2 \in Int /\ y1 \in Int /\ y2 \in Int
    <2>1. road.x0 \in Int /\ road.x1 \in Int /\ road.y0 \in Int /\ road.y1 \in Int
        BY DEF Road
    <2> QED BY <2>1, MinMaxOfTwo, Zenon
<1>2. /\ area.left = Unit * x1 - RoadRadius /\ area.right = Unit * x2 + RoadRadius
      /\ area.top = Unit * y1 - RoadRadius /\ area.bottom = Unit * y2 + RoadRadius
    BY DEF Area
<1>3. x1 <= x /\ x <= x2 /\ y1 <= y /\ y <= y2
    OBVIOUS
<1>4. p.x = Unit * x /\ p.y = Unit * y
    OBVIOUS
<1> HIDE DEF p, area, x1, x2, y1, y2
<1>5. IsNearRoad(road, p)
    BY <1>1, <1>2, <1>3, <1>4 DEF IsNearRoad, area, Unit, RoadRadius, Unsampled
<1> QED BY <1>5 DEF p

\* No dog ever stands farther beside the roads than the last piece of a way, whatever the
\* roads, the speed and the lengths of the ticks.
THEOREM NearRoadsHolds == Spec => []NearRoads
<1> DEFINE Near(c) == \E i \in DOMAIN map.roads : IsNearRoad(map.roads[i], c)
<1>1. Init => NearRoads
    BY DEF Init, NearRoads
<1>2. ASSUME IInv, NearRoads, [Next]_vars PROVE NearRoads'
    <2>0. map \in Scenarios /\ map.roads \in Seq(Road)
        BY <1>2, InvariantFacts
    <2>1. CASE AddDogToSession
        <3>1. \A p \in SpawnPoints(map.roads) : Near(p)
            <4> DEFINE xs(r) == Min({r.x0, r.x1}) .. Max({r.x0, r.x1})
                       ys(r) == Min({r.y0, r.y1}) .. Max({r.y0, r.y1})
                       spots(r) == {[x |-> Unit * x, y |-> Unit * y] : x \in xs(r), y \in ys(r)}
            <4> SUFFICES ASSUME NEW p \in SpawnPoints(map.roads) PROVE Near(p)
                OBVIOUS
            <4>1. SpawnPoints(map.roads) = UNION {spots(r) : r \in ToSet(map.roads)}
                BY DEF SpawnPoints
            <4>2. PICK r \in ToSet(map.roads) : p \in spots(r)
                <5> HIDE DEF spots
                <5> QED BY <4>1
            <4>3. r \in Road /\ \E i \in DOMAIN map.roads : map.roads[i] = r
                BY <2>0 DEF ToSet
            <4>4. \A x \in xs(r), y \in ys(r) :
                    /\ x \in Int /\ y \in Int
                    /\ Min({r.x0, r.x1}) <= x /\ x <= Max({r.x0, r.x1})
                    /\ Min({r.y0, r.y1}) <= y /\ y <= Max({r.y0, r.y1})
                <5>1. r.x0 \in Int /\ r.x1 \in Int /\ r.y0 \in Int /\ r.y1 \in Int
                    BY <4>3 DEF Road
                <5>2. /\ Min({r.x0, r.x1}) \in Int /\ Max({r.x0, r.x1}) \in Int
                      /\ Min({r.y0, r.y1}) \in Int /\ Max({r.y0, r.y1}) \in Int
                    BY <5>1, MinMaxOfTwo, Zenon
                <5> QED BY <5>2
            <4> HIDE DEF xs, ys
            <4>5. PICK x \in xs(r) : \E y \in ys(r) : p = [x |-> Unit * x, y |-> Unit * y]
                BY <4>2
            <4>6. PICK y \in ys(r) : p = [x |-> Unit * x, y |-> Unit * y]
                BY <4>5
            <4> HIDE DEF Near
            <4>7. Near([x |-> Unit * x, y |-> Unit * y])
                BY <2>0, <4>3, <4>4, SpawnPointsAreNear DEF Near
            <4> QED BY <4>6, <4>7
        <3>2. Near([x |-> Unit * map.roads[1].x0, y |-> Unit * map.roads[1].y0])
            <4> DEFINE r == map.roads[1]
            <4>1. map.roads # <<>>
                BY <2>0, WorldAssumption
            <4>2. r \in Road /\ \E i \in DOMAIN map.roads : map.roads[i] = r
                BY <2>0, <4>1
            <4> HIDE DEF r
            <4>3. r.x0 \in Int /\ r.x1 \in Int /\ r.y0 \in Int /\ r.y1 \in Int
                BY <4>2 DEF Road
            <4>4. /\ Min({r.x0, r.x1}) <= r.x0 /\ r.x0 <= Max({r.x0, r.x1})
                  /\ Min({r.y0, r.y1}) <= r.y0 /\ r.y0 <= Max({r.y0, r.y1})
                BY <4>3, MinMaxOfTwo, Zenon
            <4>5. Near([x |-> Unit * r.x0, y |-> Unit * r.y0])
                BY <2>0, <4>2, <4>3, <4>4, SpawnPointsAreNear
            <4> QED BY <4>5 DEF r
        <3> HIDE DEF Near
        <3>3. PICK p \in IF map.randomizeSpawnPoints THEN SpawnPoints(map.roads)
                         ELSE {[x |-> Unit * map.roads[1].x0, y |-> Unit * map.roads[1].y0]} :
                dogs' = [d \in DOMAIN dogs \cup {dogCounter} |->
                            IF d \in DOMAIN dogs THEN dogs[d]
                            ELSE [pos |-> p, dir |-> "U", moving |-> FALSE, bag |-> {}, score |-> 0]]
            BY <2>1 DEF AddDogToSession
        <3>4. Near(p)
            BY <3>1, <3>2, <3>3
        <3>5. \A d \in DOMAIN dogs' : dogs'[d].pos = p \/ (d \in DOMAIN dogs /\ dogs'[d] = dogs[d])
            BY <3>3
        <3> QED BY <1>2, <2>1, <3>4, <3>5 DEF AddDogToSession, NearRoads, Near
    <2>2. ASSUME NEW c \in DOMAIN dogs, NEW dir \in map.directions, DoAction(c, dir)
          PROVE  NearRoads'
        <3>1. DOMAIN dogs' = DOMAIN dogs /\ \A d \in DOMAIN dogs : dogs'[d].pos = dogs[d].pos
            <4>1. dogs' = [dogs EXCEPT ![c].dir = dir, ![c].moving = (dir # "")]
                BY <2>2 DEF DoAction
            <4>2. dogs[c] \in Dogs
                BY <1>2, InvariantFacts
            <4> QED BY <4>1, <4>2 DEF Dogs
        <3> QED BY <1>2, <2>2, <3>1 DEF DoAction, NearRoads
    <2>3. ASSUME NEW c \in DOMAIN dogs, RemoveDog(c)
          PROVE  NearRoads'
        BY <1>2, <2>3 DEF RemoveDog, NearRoads
    <2>4. ASSUME NEW dt \in map.ticks, Tick(dt)
          PROVE  NearRoads'
        <3>1. /\ UNCHANGED map /\ DOMAIN dogs' = DOMAIN dogs
              /\ \E nearest \in BOOLEAN : \A d \in DOMAIN dogs :
                    dogs'[d].pos = Moved(dogs[d], dt, nearest).pos
            BY <1>2, <2>4, TickGathers
        <3>2. PICK nearest \in BOOLEAN : \A d \in DOMAIN dogs :
                dogs'[d].pos = Moved(dogs[d], dt, nearest).pos
            BY <3>1
        <3>3. ASSUME NEW d \in DOMAIN dogs PROVE Near(Moved(dogs[d], dt, nearest).pos)
            <4>1. dogs[d] \in Dogs /\ Near(dogs[d].pos)
                BY <1>2, InvariantFacts DEF NearRoads
            <4> QED BY <2>0, <4>1, MovedIsADog
        <3> QED BY <3>1, <3>2, <3>3 DEF NearRoads
    <2>5. CASE UNCHANGED vars
        BY <1>2, <2>5 DEF vars, NearRoads
    <2> QED BY <1>2, <2>1, <2>2, <2>3, <2>4, <2>5 DEF Next
<1> QED BY <1>1, <1>2, InvariantHolds, PTL DEF Spec
=============================================================================
