-------------------------- MODULE InductionLemmas ---------------------------
(***************************************************************************)
(* Induction as a fact about sets: what is proved of the numbers n with    *)
(* some property P is stated for the set {n \in Nat : P(n)}.  It rests on  *)
(* the numbers being well-founded.                                         *)
(***************************************************************************)
EXTENDS FiniteSetTheorems, TLAPS

\* Numbers have a least one among them.
LEMMA LeastNumber ==
    ASSUME NEW T, T \subseteq Nat, T # {}
    PROVE  \E n \in T : \A m \in T : n <= m
<1> DEFINE R == OpToRel(<, Nat)
<1>1. PICK x \in T : \A y \in T : ~(<<y, x>> \in R)
    BY NatLessThanWellFounded, WFMin, Zenon
<1>2. \A n, m \in Nat : m < n => <<m, n>> \in R
    BY DEF OpToRel
<1> HIDE DEF R
<1>3. ASSUME NEW y \in T PROVE x <= y
    <2>1. x \in Nat /\ y \in Nat
        OBVIOUS
    <2>2. ~(y < x)
        BY <1>1, <1>2, <2>1
    <2> QED BY <2>1, <2>2
<1> QED BY <1>3

\* A set of numbers that has 0, and with every number the next, has them all.
LEMMA Induction ==
    ASSUME NEW T, 0 \in T, \A n \in Nat : n \in T => n + 1 \in T
    PROVE  \A n \in Nat : n \in T
<1> SUFFICES ASSUME Nat \ T # {} PROVE FALSE
    OBVIOUS
<1>1. PICK n \in Nat \ T : \A m \in Nat \ T : n <= m
    BY LeastNumber
<1>2. n # 0 /\ n - 1 \in Nat /\ ~(n <= n - 1)
    BY <1>1
<1>3. n - 1 \in T
    BY <1>1, <1>2
<1>4. (n - 1) + 1 = n
    BY <1>1
<1> QED BY <1>1, <1>2, <1>3, <1>4

\* Of finitely many things with numbers one has the greatest.
LEMMA GreatestOfFinite ==
    ASSUME NEW S, IsFiniteSet(S), S # {}, NEW f, \A x \in S : f[x] \in Int
    PROVE  \E x \in S : \A y \in S : f[y] <= f[x]
<1> DEFINE Has(R) == \E x \in R : \A y \in R : f[y] <= f[x]
           T == {n \in Nat : \A R \in SUBSET S : Cardinality(R) = n + 1 => Has(R)}
<1>1. 0 \in T
    <2> SUFFICES ASSUME NEW R \in SUBSET S, Cardinality(R) = 0 + 1 PROVE Has(R)
        OBVIOUS
    <2>1. IsFiniteSet(R)
        BY FS_Subset
    <2>2. Cardinality(R) = 1
        OBVIOUS
    <2>3. PICK x : R = {x}
        <3> HIDE DEF T, Has
        <3> QED BY <2>1, <2>2, FS_Singleton, Zenon
    <2>4. f[x] \in Int
        BY <2>3
    <2> QED BY <2>3, <2>4
<1>2. ASSUME NEW n \in Nat, n \in T PROVE n + 1 \in T
    <2> SUFFICES ASSUME NEW R \in SUBSET S, Cardinality(R) = (n + 1) + 1 PROVE Has(R)
        OBVIOUS
    <2>1. IsFiniteSet(R)
        BY FS_Subset
    <2>2. R # {}
        BY <2>1, FS_EmptySet
    <2>3. PICK x \in R : TRUE
        BY <2>2
    <2>4. Cardinality(R \ {x}) = n + 1
        <3>1. Cardinality(R \ {x}) = Cardinality(R) - 1
            BY <2>1, <2>3, FS_RemoveElement, Zenon
        <3>2. (n + 1) + 1 - 1 = n + 1
            OBVIOUS
        <3> QED BY <3>1, <3>2
    <2>5. PICK z \in R \ {x} : \A y \in R \ {x} : f[y] <= f[z]
        BY <1>2, <2>4
    <2>6. CASE f[x] <= f[z]
        BY <2>3, <2>5, <2>6
    <2>7. CASE f[z] < f[x]
        <3>1. \A y \in R : f[y] \in Int
            OBVIOUS
        <3>2. \A y \in R : f[y] <= f[x]
            BY <2>3, <2>5, <2>7, <3>1
        <3> QED BY <2>3, <3>2
    <2> QED BY <2>5, <2>6, <2>7
<1> HIDE DEF T
<1>3. \A n \in Nat : n \in T
    BY <1>1, <1>2, Induction
<1>4. Cardinality(S) \in Nat /\ Cardinality(S) # 0
    BY FS_CardinalityType, FS_EmptySet
<1>5. Cardinality(S) - 1 \in T /\ Cardinality(S) = (Cardinality(S) - 1) + 1
    BY <1>3, <1>4
<1> QED BY <1>5 DEF T
=============================================================================
