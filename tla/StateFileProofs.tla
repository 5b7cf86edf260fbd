-------------------------- MODULE StateFileProofs --------------------------
(***************************************************************************)
(* The state file for any maps, any number of players, loots and starts:   *)
(* types, and what a save that leaves no doubt about its ids is made into. *)
(***************************************************************************)
EXTENDS StateFile, SequenceTheorems, InductionLemmas

-----------------------------------------------------------------------------
(* Sequences.                                                              *)

LEMMA FunctionIsSequence ==
    ASSUME NEW S, NEW n \in Nat, NEW f, f = [k \in 1 .. n |-> f[k]],
           \A k \in 1 .. n : f[k] \in S
    PROVE  f \in Seq(S) /\ Len(f) = n
OBVIOUS

\* How FlattenSeq gets from one sequence to the next.
LEMMA FlattenSeqUnfolds ==
    ASSUME NEW seqs, Len(seqs) \in Nat, Len(seqs) # 0
    PROVE  \E flat :
            /\ flat[1] = seqs[1]
            /\ \A n \in 2 .. Len(seqs) : flat[n] = flat[n - 1] \o seqs[n]
            /\ FlattenSeq(seqs) = flat[Len(seqs)]
<1> DEFINE More(s, n) == s \o seqs[n]
           Is(f, n) == f = [k \in 1 .. n |-> IF k = 1 THEN seqs[k] ELSE More(f[k - 1], k)]
           Exist == {n \in Nat : \E f : Is(f, n)}
<1>1. FlattenSeq(seqs) = (CHOOSE f : Is(f, Len(seqs)))[Len(seqs)]
    BY DEF FlattenSeq
<1> HIDE DEF More
<1>2. 0 \in Exist
    <2>1. Is([k \in 1 .. 0 |-> 0], 0)
        OBVIOUS
    <2> QED BY <2>1
<1>3. ASSUME NEW n \in Nat, n \in Exist PROVE n + 1 \in Exist
    <2>1. PICK f : Is(f, n)
        BY <1>3
    <2> DEFINE last == IF n + 1 = 1 THEN seqs[n + 1] ELSE More(f[n], n + 1)
               g == [k \in 1 .. n + 1 |-> IF k = n + 1 THEN last ELSE f[k]]
    <2>2. ASSUME NEW k \in 1 .. n + 1
          PROVE  g[k] = IF k = 1 THEN seqs[k] ELSE More(g[k - 1], k)
        <3>1. CASE k = n + 1
            BY <3>1
        <3>2. CASE k # n + 1
            BY <2>1, <3>2
        <3> QED BY <3>1, <3>2
    <2>3. g = [k \in 1 .. n + 1 |-> g[k]]
        OBVIOUS
    <2> HIDE DEF g
    <2>4. Is(g, n + 1)
        BY <2>2, <2>3
    <2> QED BY <2>4
<1> HIDE DEF Exist
<1>4. \A n \in Nat : n \in Exist
    BY <1>2, <1>3, Induction
<1>5. Is(CHOOSE f : Is(f, Len(seqs)), Len(seqs))
    BY <1>4 DEF Exist
<1> DEFINE flat == CHOOSE f : Is(f, Len(seqs))
<1>6. Is(flat, Len(seqs))
    BY <1>5
<1> HIDE DEF flat
<1>7. flat[1] = seqs[1] /\ \A n \in 2 .. Len(seqs) : flat[n] = More(flat[n - 1], n)
    BY <1>6
<1> QED BY <1>1, <1>7 DEF flat, More

\* No member of one of the sequences is a member at another place.
Apart(seqs) ==
    \A i, j \in DOMAIN seqs : \A a \in DOMAIN seqs[i], b \in DOMAIN seqs[j] :
        seqs[i][a] = seqs[j][b] => i = j /\ a = b

\* The first n of the sequences are flat.
FlatUpTo(s, seqs, n) ==
    /\ \A k \in DOMAIN s : \E i \in 1 .. n : s[k] \in ToSet(seqs[i])
    /\ \A i \in 1 .. n : ToSet(seqs[i]) \subseteq ToSet(s)
    /\ Apart(seqs) => \A k, l \in DOMAIN s : s[k] = s[l] => k = l

\* A flat sequence has the members of the sequences, and each as often as they have it.
LEMMA FlattenSeqProperties ==
    ASSUME NEW S, NEW seqs \in Seq(Seq(S))
    PROVE  FlattenSeq(seqs) \in Seq(S) /\ FlatUpTo(FlattenSeq(seqs), seqs, Len(seqs))
<1>1. Len(seqs) \in Nat /\ DOMAIN seqs = 1 .. Len(seqs) /\ \A i \in 1 .. Len(seqs) : seqs[i] \in Seq(S)
    BY LenProperties, ElementOfSeq
<1>2. CASE Len(seqs) = 0
    <2>1. FlattenSeq(seqs) = seqs /\ seqs = <<>>
        BY <1>2, EmptySeq DEF FlattenSeq
    <2>2. <<>> \in Seq(S) /\ DOMAIN <<>> = {}
        BY EmptySeq
    <2> QED BY <1>2, <2>1, <2>2 DEF FlatUpTo
<1>3. CASE Len(seqs) # 0
    <2>1. PICK flat :
            /\ flat[1] = seqs[1]
            /\ \A n \in 2 .. Len(seqs) : flat[n] = flat[n - 1] \o seqs[n]
            /\ FlattenSeq(seqs) = flat[Len(seqs)]
        BY <1>1, <1>3, FlattenSeqUnfolds
    <2> DEFINE Done == {n \in Nat : n + 1 <= Len(seqs) =>
                            flat[n + 1] \in Seq(S) /\ FlatUpTo(flat[n + 1], seqs, n + 1)}
    <2>2. 0 \in Done
        <3>1. seqs[1] \in Seq(S) /\ 1 \in DOMAIN seqs
            BY <1>1, <1>3
        <3>2. FlatUpTo(seqs[1], seqs, 1)
            <4>1. \A k \in DOMAIN seqs[1] : seqs[1][k] \in ToSet(seqs[1])
                BY DEF ToSet
            <4> QED BY <3>1, <4>1 DEF FlatUpTo, Apart
        <3> QED BY <2>1, <3>1, <3>2
    <2>3. ASSUME NEW n \in Nat, n \in Done PROVE n + 1 \in Done
        <3> SUFFICES ASSUME n + 1 + 1 <= Len(seqs)
                     PROVE  flat[n + 1 + 1] \in Seq(S) /\ FlatUpTo(flat[n + 1 + 1], seqs, n + 1 + 1)
            OBVIOUS
        <3> DEFINE old == flat[n + 1]
                   add == seqs[n + 2]
                   all == flat[n + 2]
        <3>1. old \in Seq(S) /\ FlatUpTo(old, seqs, n + 1)
            BY <2>3
        <3>2. n + 2 \in 1 .. Len(seqs) /\ n + 2 \in 2 .. Len(seqs) /\ (n + 2) - 1 = n + 1
            BY <1>1
        <3>3. all = old \o add /\ add \in Seq(S)
            <4>1. flat[n + 2] = flat[(n + 2) - 1] \o seqs[n + 2]
                BY <2>1, <3>2
            <4>2. seqs[n + 2] \in Seq(S)
                BY <1>1, <3>2
            <4> QED BY <3>2, <4>1, <4>2
        <3>4. /\ \A i \in 1 .. n + 2 : i \in 1 .. n + 1 \/ i = n + 2
              /\ 1 .. n + 1 \subseteq 1 .. n + 2 /\ n + 2 \in 1 .. n + 2
              /\ 1 .. n + 2 \subseteq DOMAIN seqs /\ n + 2 \notin 1 .. n + 1
            BY <1>1
        <3> HIDE DEF old, add, all
        <3>5. FlatUpTo(all, seqs, n + 2) /\ all \in Seq(S)
            <4>1. Len(old) \in Nat /\ Len(add) \in Nat /\ DOMAIN old = 1 .. Len(old)
                  /\ DOMAIN add = 1 .. Len(add)
                BY <3>1, <3>3, LenProperties
            <4>2. /\ all \in Seq(S) /\ Len(all) = Len(old) + Len(add)
                  /\ \A k \in 1 .. Len(old) + Len(add) :
                        all[k] = IF k <= Len(old) THEN old[k] ELSE add[k - Len(old)]
                BY <3>1, <3>3, ConcatProperties
            <4>3. DOMAIN all = 1 .. Len(old) + Len(add)
                BY <4>2, LenProperties
            <4>4. ASSUME NEW k \in DOMAIN all
                  PROVE  \/ k \in DOMAIN old /\ all[k] = old[k]
                         \/ k - Len(old) \in DOMAIN add /\ all[k] = add[k - Len(old)]
                BY <4>1, <4>2, <4>3
            <4>5. \A k \in DOMAIN old : k \in DOMAIN all /\ all[k] = old[k]
                BY <4>1, <4>2, <4>3
            <4>6. ASSUME NEW k \in DOMAIN add
                  PROVE  k + Len(old) \in DOMAIN all /\ all[k + Len(old)] = add[k]
                <5>1. k + Len(old) \in 1 .. Len(old) + Len(add) /\ ~(k + Len(old) <= Len(old))
                      /\ (k + Len(old)) - Len(old) = k
                    BY <4>1
                <5> QED BY <4>2, <4>3, <5>1
            <4>7. \A k \in DOMAIN all : \E i \in 1 .. n + 2 : all[k] \in ToSet(seqs[i])
                <5>1. \A k \in DOMAIN old : \E i \in 1 .. n + 1 : old[k] \in ToSet(seqs[i])
                    BY <3>1 DEF FlatUpTo
                <5>2. \A k \in DOMAIN add : add[k] \in ToSet(seqs[n + 2])
                    BY DEF ToSet, add
                <5> QED BY <3>4, <4>4, <5>1, <5>2
            <4>8. ASSUME NEW i \in 1 .. n + 2 PROVE ToSet(seqs[i]) \subseteq ToSet(all)
                <5>1. ToSet(old) \subseteq ToSet(all)
                    BY <4>5 DEF ToSet
                <5>2. ToSet(add) \subseteq ToSet(all)
                    BY <4>6 DEF ToSet
                <5>3. CASE i \in 1 .. n + 1
                    BY <3>1, <5>1, <5>3 DEF FlatUpTo
                <5>4. CASE i = n + 2
                    BY <5>2, <5>4 DEF add
                <5> QED BY <3>4, <5>3, <5>4
            <4>9. ASSUME Apart(seqs), NEW k \in DOMAIN all, NEW l \in DOMAIN all, all[k] = all[l]
                  PROVE  k = l
                <5>1. ASSUME NEW a \in DOMAIN old, NEW b \in DOMAIN add PROVE old[a] # add[b]
                    <6>1. PICK i \in 1 .. n + 1 : old[a] \in ToSet(seqs[i])
                        BY <3>1 DEF FlatUpTo
                    <6>2. PICK c \in DOMAIN seqs[i] : old[a] = seqs[i][c]
                        BY <6>1 DEF ToSet
                    <6>3. i \in DOMAIN seqs /\ n + 2 \in DOMAIN seqs /\ i # n + 2
                        BY <3>4, <6>1
                    <6> QED BY <4>9, <6>2, <6>3 DEF Apart, add
                <5>2. \A a, b \in DOMAIN old : old[a] = old[b] => a = b
                    BY <3>1, <4>9 DEF FlatUpTo
                <5>3. \A a, b \in DOMAIN add : add[a] = add[b] => a = b
                    BY <3>4, <4>9 DEF Apart, add
                <5>4. k \in Int /\ l \in Int /\ Len(old) \in Int
                    BY <4>1, <4>3
                <5>5. k - Len(old) = l - Len(old) => k = l
                    BY <5>4
                <5>6. CASE k \in DOMAIN old /\ all[k] = old[k]
                    BY <4>4, <4>9, <5>1, <5>2, <5>6
                <5>7. CASE k - Len(old) \in DOMAIN add /\ all[k] = add[k - Len(old)]
                    BY <4>4, <4>9, <5>1, <5>3, <5>5, <5>7
                <5> QED BY <4>4, <5>6, <5>7
            <4> QED BY <4>2, <4>7, <4>8, <4>9 DEF FlatUpTo
        <3>6. n + 1 + 1 = n + 2
            OBVIOUS
        <3> QED BY <3>5, <3>6 DEF all
    <2> HIDE DEF Done
    <2>4. \A n \in Nat : n \in Done
        BY <2>2, <2>3, Induction
    <2>5. Len(seqs) - 1 \in Nat /\ (Len(seqs) - 1) + 1 = Len(seqs)
        BY <1>1, <1>3
    <2>6. flat[Len(seqs)] \in Seq(S) /\ FlatUpTo(flat[Len(seqs)], seqs, Len(seqs))
        <3>1. Len(seqs) - 1 \in Done
            BY <2>4, <2>5
        <3> QED BY <1>1, <2>5, <3>1 DEF Done
    <2> QED BY <2>1, <2>6
<1> QED BY <1>2, <1>3

\* A sequence without its i-th member.
LEMMA RemoveAtProperties ==
    ASSUME NEW R, NEW q \in Seq(R), NEW i \in 1 .. Len(q)
    PROVE  /\ RemoveAt(q, i) \in Seq(R)
           /\ Len(RemoveAt(q, i)) = Len(q) - 1
           /\ \A k \in 1 .. Len(q) - 1 :
                RemoveAt(q, i)[k] = IF k < i THEN q[k] ELSE q[k + 1]
<1> DEFINE before == SubSeq(q, 1, i - 1)
           after == SubSeq(q, i + 1, Len(q))
<1>1. Len(q) \in Nat /\ i \in Nat /\ \A k \in 1 .. Len(q) : q[k] \in R
    BY LenProperties, ElementOfSeq
<1>2. /\ before \in Seq(R) /\ Len(before) = i - 1
      /\ \A k \in 1 .. i - 1 : before[k] = q[k]
    <2>1. /\ before \in Seq(R)
          /\ Len(before) = IF 1 <= i - 1 THEN i - 1 - 1 + 1 ELSE 0
          /\ \A k \in 1 .. i - 1 - 1 + 1 : before[k] = q[1 + k - 1]
        BY <1>1, SubSeqProperties
    <2> QED BY <1>1, <2>1
<1>3. /\ after \in Seq(R) /\ Len(after) = Len(q) - i
      /\ \A k \in 1 .. Len(q) - i : after[k] = q[k + i]
    <2>1. \A k \in i + 1 .. Len(q) : q[k] \in R
        BY <1>1
    <2>2. /\ after \in Seq(R)
          /\ Len(after) = IF i + 1 <= Len(q) THEN Len(q) - (i + 1) + 1 ELSE 0
          /\ \A k \in 1 .. Len(q) - (i + 1) + 1 : after[k] = q[i + 1 + k - 1]
        BY <1>1, <2>1, SubSeqProperties
    <2> QED BY <1>1, <2>2
<1> HIDE DEF before, after
<1>4. RemoveAt(q, i) = before \o after
    BY DEF RemoveAt, before, after
<1>5. /\ RemoveAt(q, i) \in Seq(R)
      /\ Len(RemoveAt(q, i)) = (i - 1) + (Len(q) - i)
      /\ \A k \in 1 .. (i - 1) + (Len(q) - i) :
            RemoveAt(q, i)[k] = IF k <= i - 1 THEN before[k] ELSE after[k - (i - 1)]
    <2>1. /\ before \o after \in Seq(R)
          /\ Len(before \o after) = Len(before) + Len(after)
          /\ \A k \in 1 .. Len(before) + Len(after) :
                (before \o after)[k] =
                    IF k <= Len(before) THEN before[k] ELSE after[k - Len(before)]
        BY <1>2, <1>3, ConcatProperties
    <2> QED BY <1>2, <1>3, <1>4, <2>1
<1>6. ASSUME NEW k \in 1 .. Len(q) - 1
      PROVE  RemoveAt(q, i)[k] = IF k < i THEN q[k] ELSE q[k + 1]
    <2> DEFINE shorter == RemoveAt(q, i)
    <2>1. /\ Len(q) \in Nat /\ i \in Nat /\ i <= Len(q) /\ k \in Nat /\ 1 <= k
          /\ k \in 1 .. (i - 1) + (Len(q) - i)
        BY <1>1
    <2>2. shorter[k] = IF k <= i - 1 THEN before[k] ELSE after[k - (i - 1)]
        <3> HIDE DEF shorter
        <3> QED BY <1>5, <2>1, Zenon DEF shorter
    <2> HIDE DEF shorter
    <2>3. CASE k < i
        <3>1. k <= i - 1 /\ k \in 1 .. i - 1
            BY <2>1, <2>3
        <3>2. before[k] = q[k]
            BY <1>2, <3>1
        <3> QED BY <2>2, <2>3, <3>1, <3>2 DEF shorter
    <2>4. CASE ~(k < i)
        <3>1. ~(k <= i - 1) /\ k - (i - 1) \in 1 .. Len(q) - i /\ k - (i - 1) + i = k + 1
            BY <2>1, <2>4
        <3>2. after[k - (i - 1)] = q[k + 1]
            BY <1>3, <3>1
        <3> QED BY <2>2, <2>4, <3>1, <3>2 DEF shorter
    <2> QED BY <2>3, <2>4
<1> QED BY <1>1, <1>5, <1>6

-----------------------------------------------------------------------------
(* Numbers and ids.                                                        *)

LEMMA MinIsMember ==
    ASSUME NEW T, T \subseteq Nat, T # {}
    PROVE  Min(T) \in T
<1>1. \E n \in T : \A m \in T : n <= m
    BY LeastNumber
<1> QED BY <1>1 DEF Min

\* n ids that are 0, 1, ... n - 1 are different.
LEMMA NumberedOneByOne ==
    ASSUME NEW n \in Nat, NEW ids, ids = [i \in 1 .. n |-> ids[i]],
           ToSet(ids) = {i - 1 : i \in 1 .. n}
    PROVE  /\ \A i \in 1 .. n : ids[i] \in 0 .. n - 1
           /\ \A i, j \in 1 .. n : ids[i] = ids[j] => i = j
<1> DEFINE D == 1 .. n
           R == 0 .. n - 1
<1>1. \A i \in D : ids[i] \in R
    BY DEF ToSet
<1>2. \A r \in R : \E i \in D : ids[i] = r
    <2> SUFFICES ASSUME NEW r \in R PROVE \E i \in D : ids[i] = r
        OBVIOUS
    <2>1. r + 1 \in D /\ (r + 1) - 1 = r
        OBVIOUS
    <2>2. r \in ToSet(ids)
        BY <2>1
    <2> QED BY <2>2 DEF ToSet
<1>3. IsFiniteSet(D) /\ IsFiniteSet(R) /\ Cardinality(D) = n /\ Cardinality(R) = n
    <2>1. IsFiniteSet(D) /\ Cardinality(D) = IF 1 > n THEN 0 ELSE n - 1 + 1
        BY FS_Interval
    <2>2. IsFiniteSet(R) /\ Cardinality(R) = IF 0 > n - 1 THEN 0 ELSE (n - 1) - 0 + 1
        <3>1. 0 \in Int /\ n - 1 \in Int
            OBVIOUS
        <3> QED BY <3>1, FS_Interval
    <2> HIDE DEF D, R
    <2> QED BY <2>1, <2>2
<1> HIDE DEF D, R
<1>4. ids \in Surjection(D, R)
    <2>1. ids \in [D -> R]
        BY <1>1 DEF D
    <2> QED BY <1>2, <2>1 DEF Surjection
<1>5. ids \in Injection(D, R)
    BY <1>3, <1>4, FS_SurjSameCardinalityImpliesInj, Zenon
<1>6. \A i, j \in D : ids[i] = ids[j] => i = j
    <2>1. DOMAIN ids = D
        BY DEF D
    <2> QED BY <1>5, <2>1 DEF Injection, IsInjective
<1> QED BY <1>1, <1>6 DEF D, R

\* An id that a list names once.
LEMMA OneCopy ==
    ASSUME NEW list, NEW i \in DOMAIN list, \A j \in DOMAIN list : list[j] = list[i] => j = i
    PROVE  Copies(list[i], list) = 1
<1>1. {j \in DOMAIN list : list[j] = list[i]} = {i}
    OBVIOUS
<1> QED BY <1>1, FS_Singleton DEF Copies

LEMMA NoCopy ==
    ASSUME NEW list, NEW x, \A j \in DOMAIN list : list[j] # x
    PROVE  Copies(x, list) = 0
<1>1. {j \in DOMAIN list : list[j] = x} = {}
    OBVIOUS
<1> QED BY <1>1, FS_EmptySet DEF Copies

-----------------------------------------------------------------------------
(* The counter after a start.                                              *)

LEMMA RestoredCounterUnfolds ==
    ASSUME NEW text, Len(text.dogs) \in Nat
    PROVE  \E after :
            /\ after[0] = 0
            /\ \A n \in 1 .. Len(text.dogs) : after[n] =
                    IF text.dogs[n].id > after[n - 1] + 1 THEN text.dogs[n].id
                    ELSE after[n - 1] + 1
            /\ RestoredCounter(text) = after[Len(text.dogs)]
<1> DEFINE N == Len(text.dogs)
           More(c, n) == IF text.dogs[n].id > c + 1 THEN text.dogs[n].id ELSE c + 1
           Is(f, n) == f = [k \in 0 .. n |-> IF k = 0 THEN 0 ELSE More(f[k - 1], k)]
           Exist == {n \in Nat : \E f : Is(f, n)}
<1>1. RestoredCounter(text) = (CHOOSE f : Is(f, N))[N]
    BY DEF RestoredCounter
<1> HIDE DEF More
<1>2. 0 \in Exist
    <2>1. Is([k \in 0 .. 0 |-> 0], 0)
        OBVIOUS
    <2> QED BY <2>1
<1>3. ASSUME NEW n \in Nat, n \in Exist PROVE n + 1 \in Exist
    <2>1. PICK f : Is(f, n)
        BY <1>3
    <2> DEFINE g == [k \in 0 .. n + 1 |-> IF k = n + 1 THEN More(f[n], n + 1) ELSE f[k]]
    <2>2. ASSUME NEW k \in 0 .. n + 1
          PROVE  g[k] = IF k = 0 THEN 0 ELSE More(g[k - 1], k)
        <3>1. CASE k = n + 1
            BY <3>1
        <3>2. CASE k # n + 1
            BY <2>1, <3>2
        <3> QED BY <3>1, <3>2
    <2>3. g = [k \in 0 .. n + 1 |-> g[k]]
        OBVIOUS
    <2> HIDE DEF g
    <2>4. Is(g, n + 1)
        BY <2>2, <2>3
    <2> QED BY <2>4
<1> HIDE DEF Exist
<1>4. \A n \in Nat : n \in Exist
    BY <1>2, <1>3, Induction
<1>5. Is(CHOOSE f : Is(f, N), N)
    BY <1>4 DEF Exist
<1> DEFINE after == CHOOSE f : Is(f, N)
<1>6. Is(after, N)
    BY <1>5
<1> HIDE DEF after
<1>7. after[0] = 0 /\ \A n \in 1 .. N : after[n] = More(after[n - 1], n)
    <2> HIDE DEF N
    <2>1. N \in Nat
        BY DEF N
    <2>2. after[0] = 0
        BY <1>6, <2>1
    <2> QED BY <1>6, <2>1, <2>2
<1> QED BY <1>1, <1>7 DEF after, More

\* It is not below the number of the restored dogs.
LEMMA RestoredCounterCounts ==
    ASSUME NEW text, Len(text.dogs) \in Nat, \A n \in 1 .. Len(text.dogs) : text.dogs[n].id \in Nat
    PROVE  RestoredCounter(text) \in Nat /\ RestoredCounter(text) >= Len(text.dogs)
<1>1. PICK after :
            /\ after[0] = 0
            /\ \A n \in 1 .. Len(text.dogs) : after[n] =
                    IF text.dogs[n].id > after[n - 1] + 1 THEN text.dogs[n].id
                    ELSE after[n - 1] + 1
            /\ RestoredCounter(text) = after[Len(text.dogs)]
    BY RestoredCounterUnfolds
<1> DEFINE Done == {n \in Nat : n <= Len(text.dogs) => after[n] \in Nat /\ after[n] >= n}
<1>2. 0 \in Done
    BY <1>1
<1>3. ASSUME NEW n \in Nat, n \in Done PROVE n + 1 \in Done
    <2> SUFFICES ASSUME n + 1 <= Len(text.dogs)
                 PROVE  after[n + 1] \in Nat /\ after[n + 1] >= n + 1
        OBVIOUS
    <2>1. after[n] \in Nat /\ after[n] >= n
        BY <1>3
    <2>2. n + 1 \in 1 .. Len(text.dogs) /\ (n + 1) - 1 = n
        OBVIOUS
    <2>3. after[n + 1] = IF text.dogs[n + 1].id > after[n] + 1 THEN text.dogs[n + 1].id
                         ELSE after[n] + 1
        BY <1>1, <2>2
    <2> QED BY <2>1, <2>2, <2>3
<1> HIDE DEF Done
<1>4. \A n \in Nat : n \in Done
    BY <1>2, <1>3, Induction
<1> QED BY <1>1, <1>4 DEF Done

-----------------------------------------------------------------------------
(* Types.                                                                  *)

Dogs == [id : Nat, who : 0 .. MaxPlayers]
Sessions == [id : SessionIds, dogs : Seq(Dogs), loots : Seq(Nat)]
SavedSessions == [id : SessionIds, dogs : Seq(Nat), loots : Seq(Nat)]
SavedPlayers == [token : 0 .. MaxPlayers, dog : Nat, session : SessionIds]
OnMaps(S) == UNION {[D -> S] : D \in SUBSET Maps}
LootCounts == {n + Cardinality(D) : n \in Nat, D \in SUBSET Dogs}
Texts == [loot_count : LootCounts, loots : Seq(Nat), dogs : Seq(Dogs),
          sessions : OnMaps(SavedSessions), players : Seq(SavedPlayers)]
PlayersOf(ss) == [token : 0 .. MaxPlayers, session : DOMAIN ss, dog : Dogs]
AllFacts == [token : 0 .. MaxPlayers, dog : Nat, map : Maps]
Writings == [at : {"no", "open", "dogs", "sessions", "players", "done"}, text : Texts,
             alone : BOOLEAN, from : SUBSET AllFacts]
Files == [kind : {"missing", "torn", "text"}, text : Texts]

MemoryTyped ==
    /\ dog_counter \in Nat
    /\ loot_counter \in 0 .. MaxLoot
    /\ sessions \in OnMaps(Sessions)
    /\ players \in Seq(PlayersOf(sessions))
    /\ joining \subseteq PlayersOf(sessions)
    /\ bags \subseteq 0 .. MaxPlayers

\* A process that is not up saves nothing.
Types ==
    /\ process \in {"off", "up", "failed"}
    /\ runs \in 0 .. MaxRuns
    /\ doubts \subseteq {"dogs", "sessions", "loots"}
    /\ joined \in 0 .. MaxPlayers
    /\ MemoryTyped
    /\ {save_timer, need_to_save_state_} \subseteq BOOLEAN
    /\ writer \in [Writers -> Writings]
    /\ file \in Files
    /\ process # "up" => \A w \in Writers : ~IsWriting(w)

\* Where the update is; while it removes a player, there is one.
RemovalTyped ==
    /\ update \in {"idle", "tick", "remove", "spin", "halted"}
    /\ process # "up" => update = "idle"
    /\ update = "remove" => players # <<>>
    /\ parted \subseteq 0 .. MaxPlayers

LEMMA OnMapsValues ==
    ASSUME NEW S, NEW f \in OnMaps(S)
    PROVE  /\ DOMAIN f \subseteq Maps
           /\ \A m \in DOMAIN f : f[m] \in S
           /\ f = [m \in DOMAIN f |-> f[m]]
BY DEF OnMaps

LEMMA OnMapsFunction ==
    ASSUME NEW S, NEW f, DOMAIN f \subseteq Maps, f = [m \in DOMAIN f |-> f[m]],
           \A m \in DOMAIN f : f[m] \in S
    PROVE  f \in OnMaps(S)
BY DEF OnMaps

LEMMA NoMaps ==
    ASSUME NEW S
    PROVE  <<>> \in OnMaps(S) /\ DOMAIN <<>> = {}
<1>1. DOMAIN <<>> = {} /\ <<>> = [m \in DOMAIN <<>> |-> <<>>[m]]
    OBVIOUS
<1> QED BY <1>1, OnMapsFunction

LEMMA BlankTyped == Blank \in Texts
<1>1. 0 \in LootCounts
    <2>1. 0 = 0 + Cardinality({}) /\ {} \subseteq Dogs
        BY FS_EmptySet
    <2> QED BY <2>1 DEF LootCounts
<1>2. \A S : <<>> \in Seq(S)
    BY EmptySeq
<1> QED BY <1>1, <1>2, NoMaps DEF Blank, Texts

\* Players stay players when sessions are added.
LEMMA PlayersOfMore ==
    ASSUME NEW ss, NEW tt, DOMAIN ss \subseteq DOMAIN tt
    PROVE  /\ PlayersOf(ss) \subseteq PlayersOf(tt)
           /\ Seq(PlayersOf(ss)) \subseteq Seq(PlayersOf(tt))
<1>1. PlayersOf(ss) \subseteq PlayersOf(tt)
    BY DEF PlayersOf
<1> QED BY <1>1, SeqMonotonic

LEMMA FactsTyped ==
    ASSUME MemoryTyped
    PROVE  Facts \in SUBSET AllFacts
<1>1. \A p \in ToSet(players) : p \in PlayersOf(sessions)
    BY ElementOfSeq, LenProperties DEF MemoryTyped, ToSet
<1>2. DOMAIN sessions \subseteq Maps
    BY OnMapsValues DEF MemoryTyped
<1> QED BY <1>1, <1>2 DEF Facts, AllFacts, PlayersOf, Dogs

LEMMA InitTyped == Init => Types
<1> SUFFICES ASSUME Init PROVE Types
    OBVIOUS
<1>1. /\ sessions \in OnMaps(Sessions) /\ players \in Seq(PlayersOf(sessions))
      /\ Blank \in Texts
    BY NoMaps, EmptySeq, BlankTyped DEF Init
<1>2. MemoryTyped
    BY <1>1, StateFileAssumption DEF Init, MemoryTyped
<1>3. Idle \in Writings /\ writer \in [Writers -> Writings] /\ \A w \in Writers : writer[w].at = "no"
    BY <1>1 DEF Init, Idle, Writings
<1>4. file \in Files
    BY <1>1 DEF Init, Files, Written, NoFile
<1>5. \A w \in Writers : ~IsWriting(w)
    BY <1>3 DEF IsWriting
<1>6. /\ process = "off" /\ runs = 0 /\ doubts = {} /\ joined = 0
      /\ save_timer = FALSE /\ need_to_save_state_ = FALSE
    BY DEF Init
<1>7. MaxRuns \in Nat /\ MaxPlayers \in Nat
    BY StateFileAssumption
<1>8. {save_timer, need_to_save_state_} \subseteq BOOLEAN
    BY <1>6, Zenon
<1>9. runs \in 0 .. MaxRuns /\ joined \in 0 .. MaxPlayers
    BY <1>6, <1>7
<1> QED BY <1>2, <1>3, <1>4, <1>5, <1>6, <1>8, <1>9, Zenon DEF Types

-----------------------------------------------------------------------------
(* Requests and ticks keep the types.                                      *)

LEMMA AddDogTyped ==
    ASSUME Types, NEW m \in Maps, NEW id \in SessionIds, AddDogToSession(m, id)
    PROVE  Types'
<1> DEFINE dog == [id |-> dog_counter, who |-> joined]
<1>1. /\ joined' = joined + 1 /\ joined < MaxPlayers /\ dog_counter' = dog_counter + 1
      /\ sessions' = IF m \in DOMAIN sessions
                     THEN [sessions EXCEPT ![m].dogs = Append(@, dog)]
                     ELSE [n \in (DOMAIN sessions) \cup {m} |->
                             IF n = m THEN [id |-> id, dogs |-> <<dog>>, loots |-> <<>>]
                             ELSE sessions[n]]
      /\ joining' = {[token |-> joined, dog |-> dog, session |-> m]}
      /\ UNCHANGED <<process, runs, doubts, loot_counter, players, bags, timer, writer, disk>>
    BY DEF AddDogToSession
<1>2. dog \in Dogs /\ joined \in 0 .. MaxPlayers /\ joined' \in 0 .. MaxPlayers /\ dog_counter' \in Nat
    BY <1>1, StateFileAssumption DEF Types, MemoryTyped, Dogs
<1>3. /\ DOMAIN sessions \subseteq Maps /\ \A n \in DOMAIN sessions : sessions[n] \in Sessions
    BY OnMapsValues DEF Types, MemoryTyped
<1> HIDE DEF dog
<1>4. sessions' \in OnMaps(Sessions) /\ DOMAIN sessions' = DOMAIN sessions \cup {m}
    <2>1. CASE m \in DOMAIN sessions
        <3>1. Append(sessions[m].dogs, dog) \in Seq(Dogs)
            BY <1>2, <1>3, <2>1, AppendProperties DEF Sessions
        <3>2. sessions' = [n \in DOMAIN sessions |->
                    IF n = m THEN [sessions[m] EXCEPT !.dogs = Append(sessions[m].dogs, dog)]
                    ELSE sessions[n]]
            BY <1>1, <2>1
        <3>3. [sessions[m] EXCEPT !.dogs = Append(sessions[m].dogs, dog)] \in Sessions
            BY <1>3, <2>1, <3>1 DEF Sessions
        <3> QED BY <1>3, <2>1, <3>2, <3>3, OnMapsFunction
    <2>2. CASE m \notin DOMAIN sessions
        <3>1. [id |-> id, dogs |-> <<dog>>, loots |-> <<>>] \in Sessions
            BY <1>2, EmptySeq DEF Sessions
        <3> QED BY <1>1, <1>3, <2>2, <3>1, OnMapsFunction
    <2> QED BY <2>1, <2>2
<1>5. players' \in Seq(PlayersOf(sessions')) /\ joining' \subseteq PlayersOf(sessions')
    <2>1. players \in Seq(PlayersOf(sessions')) /\ joining \subseteq PlayersOf(sessions')
        BY <1>4, PlayersOfMore DEF Types, MemoryTyped
    <2>2. [token |-> joined, dog |-> dog, session |-> m] \in PlayersOf(sessions')
        BY <1>2, <1>4 DEF PlayersOf
    <2> QED BY <1>1, <2>1, <2>2
<1>6. MemoryTyped'
    BY <1>1, <1>2, <1>4, <1>5 DEF MemoryTyped, Types
<1> QED BY <1>1, <1>2, <1>6 DEF Types, IsWriting, timer, disk

LEMMA PushTyped ==
    ASSUME Types, PushPlayer
    PROVE  Types'
<1>1. /\ \E p \in joining : players' = Append(players, p)
      /\ joining' = {} /\ sessions' = sessions
      /\ UNCHANGED <<process, runs, doubts, joined, dog_counter, loot_counter, bags, timer, writer, disk>>
    BY DEF PushPlayer
<1>2. players' \in Seq(PlayersOf(sessions))
    BY <1>1, AppendProperties DEF Types, MemoryTyped
<1>3. MemoryTyped'
    BY <1>1, <1>2 DEF Types, MemoryTyped
<1> QED BY <1>1, <1>3 DEF Types, IsWriting, timer, disk

\* The first player's session loses its dog at one place.
LEMMA RemoveDogProperties ==
    ASSUME MemoryTyped, RemoveDog
    PROVE  /\ players # <<>>
           /\ Head(players) \in PlayersOf(sessions)
           /\ DOMAIN sessions' = DOMAIN sessions
           /\ \A m \in DOMAIN sessions \ {Head(players).session} : sessions'[m] = sessions[m]
           /\ LET old == sessions[Head(players).session]
                  new == sessions'[Head(players).session]
              IN  /\ new \in Sessions /\ new.id = old.id /\ new.loots = old.loots
                  /\ \E i \in 1 .. Len(old.dogs) :
                        /\ old.dogs[i].id = Head(players).dog.id
                        /\ Len(new.dogs) = Len(old.dogs) - 1
                        /\ \A k \in 1 .. Len(old.dogs) - 1 :
                              new.dogs[k] = IF k < i THEN old.dogs[k] ELSE old.dogs[k + 1]
<1> DEFINE p == Head(players)
           old == sessions[p.session]
           I == {k \in 1 .. Len(old.dogs) : old.dogs[k].id = p.dog.id}
           i == IF I # {} THEN Min(I) ELSE 0
<1>1. players # <<>>
    BY DEF RemoveDog
<1>2. p \in PlayersOf(sessions)
    BY <1>1, HeadTailProperties DEF MemoryTyped
<1>3. SelectInSeq(old.dogs, LAMBDA d : d.id = p.dog.id) = i
    BY DEF SelectInSeq
<1>4. i # 0 /\ sessions' = [sessions EXCEPT ![p.session].dogs = RemoveAt(@, i)]
    BY <1>3 DEF RemoveDog
<1>5. p.session \in DOMAIN sessions /\ old \in Sessions
    BY <1>2, OnMapsValues DEF MemoryTyped, PlayersOf
<1>6. old.dogs \in Seq(Dogs) /\ Len(old.dogs) \in Nat
    BY <1>5, LenProperties DEF Sessions
<1>7. i \in 1 .. Len(old.dogs) /\ old.dogs[i].id = p.dog.id
    <2>1. I \subseteq Nat
        OBVIOUS
    <2>2. I # {} /\ i = Min(I)
        BY <1>4
    <2>3. Min(I) \in I
        <3> HIDE DEF I
        <3> QED BY <2>1, <2>2, MinIsMember
    <2>4. i \in I
        BY <2>2, <2>3
    <2> QED BY <2>4
<1> HIDE DEF i, I
<1>8. /\ RemoveAt(old.dogs, i) \in Seq(Dogs)
      /\ Len(RemoveAt(old.dogs, i)) = Len(old.dogs) - 1
      /\ \A k \in 1 .. Len(old.dogs) - 1 :
            RemoveAt(old.dogs, i)[k] = IF k < i THEN old.dogs[k] ELSE old.dogs[k + 1]
    BY <1>6, <1>7, RemoveAtProperties
<1> DEFINE new == [old EXCEPT !.dogs = RemoveAt(old.dogs, i)]
<1>9. sessions' = [m \in DOMAIN sessions |-> IF m = p.session THEN new ELSE sessions[m]]
    <2>1. sessions = [m \in DOMAIN sessions |-> sessions[m]]
        BY OnMapsValues DEF MemoryTyped
    <2> QED BY <1>4, <1>5, <2>1
<1>10. new \in Sessions /\ new.id = old.id /\ new.loots = old.loots /\ new.dogs = RemoveAt(old.dogs, i)
    BY <1>5, <1>8 DEF Sessions
<1>11. sessions'[p.session] = new /\ DOMAIN sessions' = DOMAIN sessions
       /\ \A m \in DOMAIN sessions \ {p.session} : sessions'[m] = sessions[m]
    BY <1>5, <1>9
<1> HIDE DEF new, old, p
<1>12. /\ new \in Sessions /\ new.id = old.id /\ new.loots = old.loots
       /\ \E k \in 1 .. Len(old.dogs) :
            /\ old.dogs[k].id = p.dog.id
            /\ Len(new.dogs) = Len(old.dogs) - 1
            /\ \A j \in 1 .. Len(old.dogs) - 1 :
                  new.dogs[j] = IF j < k THEN old.dogs[j] ELSE old.dogs[j + 1]
    BY <1>7, <1>8, <1>10
<1> QED BY <1>1, <1>2, <1>11, <1>12 DEF old, p

\* What a tick does keeps the types, and the sessions their ids.
LEMMA TickTyped ==
    ASSUME MemoryTyped, TickEffect
    PROVE  /\ MemoryTyped' /\ dog_counter' = dog_counter /\ joining' = joining
           /\ DOMAIN sessions' = DOMAIN sessions
           /\ \A m \in DOMAIN sessions : sessions'[m].id = sessions[m].id
<1>1. /\ DOMAIN sessions \subseteq Maps /\ \A m \in DOMAIN sessions : sessions[m] \in Sessions
      /\ sessions = [m \in DOMAIN sessions |-> sessions[m]]
    BY OnMapsValues DEF MemoryTyped
<1>2. CASE NoEffect
    BY <1>2 DEF NoEffect, memory, MemoryTyped
<1>4. ASSUME NEW m \in DOMAIN sessions, NEW list \in Seq(Nat),
             sessions' = [sessions EXCEPT ![m].loots = list],
             UNCHANGED <<dog_counter, players, joining>>
      PROVE  /\ sessions' \in OnMaps(Sessions) /\ DOMAIN sessions' = DOMAIN sessions
             /\ \A n \in DOMAIN sessions : sessions'[n].id = sessions[n].id
             /\ players' \in Seq(PlayersOf(sessions')) /\ joining' \subseteq PlayersOf(sessions')
    <2> DEFINE new == [sessions[m] EXCEPT !.loots = list]
    <2>1. sessions' = [n \in DOMAIN sessions |-> IF n = m THEN new ELSE sessions[n]]
        BY <1>1, <1>4
    <2>2. new \in Sessions /\ new.id = sessions[m].id
        BY <1>1 DEF Sessions
    <2> HIDE DEF new
    <2>3. sessions' \in OnMaps(Sessions) /\ DOMAIN sessions' = DOMAIN sessions
        BY <1>1, <2>1, <2>2, OnMapsFunction
    <2>4. \A n \in DOMAIN sessions : sessions'[n].id = sessions[n].id
        BY <2>1, <2>2
    <2> QED BY <1>4, <2>3, <2>4 DEF MemoryTyped, PlayersOf
<1>5. ASSUME NEW m \in DOMAIN sessions, NewLoot(m) PROVE MemoryTyped'
    <2>1. Append(sessions[m].loots, loot_counter) \in Seq(Nat)
        BY <1>1, AppendProperties, StateFileAssumption DEF MemoryTyped, Sessions
    <2>2. sessions' = [sessions EXCEPT ![m].loots = Append(sessions[m].loots, loot_counter)]
        BY <1>5 DEF NewLoot
    <2>3. /\ loot_counter < MaxLoot /\ loot_counter' = loot_counter + 1
          /\ UNCHANGED <<dog_counter, players, bags, joining>>
        BY <1>5 DEF NewLoot
    <2>4. loot_counter' \in 0 .. MaxLoot
        BY <2>3, StateFileAssumption DEF MemoryTyped
    <2> QED BY <1>4, <2>1, <2>2, <2>3, <2>4 DEF MemoryTyped
<1>6. ASSUME NEW m \in DOMAIN sessions, NEW d \in ToSet(sessions[m].dogs)
      PROVE  d.who \in 0 .. MaxPlayers
    <2>1. sessions[m].dogs \in Seq(Dogs)
        BY <1>1 DEF Sessions
    <2>2. d \in Dogs
        BY <2>1, LenProperties, ElementOfSeq DEF ToSet
    <2> QED BY <2>2 DEF Dogs
<1>7. ASSUME NEW m \in DOMAIN sessions, NEW d \in ToSet(sessions[m].dogs), PickUp(m, d)
      PROVE  MemoryTyped'
    <2>1. /\ sessions[m].loots # <<>> /\ bags' = bags \cup {d.who}
          /\ sessions' = [sessions EXCEPT ![m].loots = Tail(sessions[m].loots)]
          /\ UNCHANGED <<dog_counter, loot_counter, players, joining>>
        BY <1>7 DEF PickUp
    <2>2. Tail(sessions[m].loots) \in Seq(Nat)
        BY <1>1, <2>1, HeadTailProperties DEF Sessions
    <2>3. bags' \subseteq 0 .. MaxPlayers
        BY <1>6, <2>1 DEF MemoryTyped
    <2> QED BY <1>4, <2>1, <2>2, <2>3 DEF MemoryTyped
<1>8. ASSUME NEW d, Deliver(d)
      PROVE  MemoryTyped' /\ sessions' = sessions
    BY <1>8 DEF Deliver, MemoryTyped
<1>9. ASSUME NEW m \in DOMAIN sessions, NewLoot(m) \/ \E d \in ToSet(sessions[m].dogs) : PickUp(m, d)
      PROVE  /\ dog_counter' = dog_counter /\ joining' = joining
             /\ \E list : sessions' = [sessions EXCEPT ![m].loots = list]
    BY <1>9 DEF NewLoot, PickUp
<1>10. ASSUME NEW m \in DOMAIN sessions, NewLoot(m) \/ \E d \in ToSet(sessions[m].dogs) : PickUp(m, d)
       PROVE  /\ DOMAIN sessions' = DOMAIN sessions
              /\ \A n \in DOMAIN sessions : sessions'[n].id = sessions[n].id
    <2>1. PICK list : sessions' = [sessions EXCEPT ![m].loots = list]
        BY <1>9, <1>10
    <2>2. [sessions[m] EXCEPT !.loots = list].id = sessions[m].id
        BY <1>1 DEF Sessions
    <2>3. sessions' = [n \in DOMAIN sessions |->
            IF n = m THEN [sessions[m] EXCEPT !.loots = list] ELSE sessions[n]]
        BY <1>1, <2>1
    <2> QED BY <2>2, <2>3
<1>11. CASE \E m \in DOMAIN sessions : NewLoot(m)
    BY <1>5, <1>9, <1>10, <1>11
<1>12. CASE \E m \in DOMAIN sessions : \E d \in ToSet(sessions[m].dogs) : PickUp(m, d)
    BY <1>7, <1>9, <1>10, <1>12
<1>13. CASE \E m \in DOMAIN sessions : \E d \in ToSet(sessions[m].dogs) : Deliver(d)
    BY <1>8, <1>13 DEF Deliver
<1> QED BY <1>2, <1>11, <1>12, <1>13 DEF TickEffect, NoEffect, memory

LEMMA OneWriterTyped ==
    ASSUME writer \in [Writers -> Writings], NEW w \in Writers, NEW new \in Writings,
           writer' = [writer EXCEPT ![w] = new]
    PROVE  writer' \in [Writers -> Writings] /\ writer'[w] = new
           /\ \A v \in Writers \ {w} : writer'[v] = writer[v]
OBVIOUS

LEMMA UpdateTyped ==
    ASSUME Types, Update
    PROVE  Types'
<1>1. MemoryTyped' /\ process = "up"
    BY TickTyped DEF Types, Update
<1>2. UNCHANGED <<process, runs, doubts, joined, timer, writer, disk>>
    BY DEF Update
<1> QED BY <1>1, <1>2 DEF Types, timer, disk

\* The removal of a dog keeps the types, and the sessions their ids.
LEMMA RemoveDogTyped ==
    ASSUME MemoryTyped, RemoveDog
    PROVE  /\ MemoryTyped' /\ dog_counter' = dog_counter /\ joining' = joining /\ players' = players
           /\ DOMAIN sessions' = DOMAIN sessions
           /\ \A m \in DOMAIN sessions : sessions'[m].id = sessions[m].id
<1> DEFINE p == Head(players)
<1>1. /\ DOMAIN sessions \subseteq Maps /\ \A m \in DOMAIN sessions : sessions[m] \in Sessions
      /\ sessions = [m \in DOMAIN sessions |-> sessions[m]]
    BY OnMapsValues DEF MemoryTyped
<1>2. /\ DOMAIN sessions' = DOMAIN sessions
      /\ \A m \in DOMAIN sessions \ {p.session} : sessions'[m] = sessions[m]
      /\ sessions'[p.session] \in Sessions /\ sessions'[p.session].id = sessions[p.session].id
    BY RemoveDogProperties
<1>3. p.session \in DOMAIN sessions
    BY RemoveDogProperties DEF PlayersOf
<1>4. PICK x : sessions' = [sessions EXCEPT ![p.session] = x]
    <2>1. \E x : sessions' = [sessions EXCEPT ![p.session] = x]
        BY DEF RemoveDog
    <2> QED BY <2>1
<1>5. /\ bags' = bags \ {p.dog.who}
      /\ UNCHANGED <<dog_counter, loot_counter, joining, players>>
    BY DEF RemoveDog
<1> HIDE DEF p
<1>6. sessions' = [m \in DOMAIN sessions' |-> sessions'[m]]
    BY <1>3, <1>4
<1>7. \A m \in DOMAIN sessions : sessions'[m] \in Sessions /\ sessions'[m].id = sessions[m].id
    BY <1>1, <1>2
<1>8. sessions' \in OnMaps(Sessions)
    BY <1>1, <1>2, <1>6, <1>7, OnMapsFunction
<1>9. PlayersOf(sessions') = PlayersOf(sessions)
    BY <1>2 DEF PlayersOf
<1> QED BY <1>2, <1>5, <1>7, <1>8, <1>9 DEF MemoryTyped

LEMMA EraseTyped ==
    ASSUME MemoryTyped, ErasePlayer, players # <<>>
    PROVE  MemoryTyped'
<1>1. Tail(players) \in Seq(PlayersOf(sessions))
    BY HeadTailProperties DEF MemoryTyped
<1> QED BY <1>1 DEF MemoryTyped, ErasePlayer

LEMMA UpdateStepTyped ==
    ASSUME Types, RemovalTyped, UpdateStep
    PROVE  Types'
<1>1. CASE RemoveDog
    <2>1. MemoryTyped'
        BY <1>1, RemoveDogTyped DEF Types
    <2>2. process = "up" /\ UNCHANGED <<process, runs, doubts, joined, timer, writer, disk>>
        BY <1>1 DEF RemoveDog
    <2> QED BY <2>1, <2>2 DEF Types, timer, disk
<1>2. CASE ErasePlayer
    <2>1. /\ update = "remove"
          /\ process = "up" /\ UNCHANGED <<process, runs, doubts, joined, timer, writer, disk>>
        BY <1>2 DEF ErasePlayer
    <2>2. MemoryTyped'
        BY <1>2, <2>1, EraseTyped DEF Types, RemovalTyped
    <2> QED BY <2>1, <2>2 DEF Types, timer, disk
<1>3. CASE RemovalSpins \/ RecordThrows
    <2>1. process = "up" /\ UNCHANGED <<process, runs, doubts, joined, memory, timer, writer, disk>>
        BY <1>3 DEF RemovalSpins, RecordThrows
    <2>2. MemoryTyped'
        BY <2>1 DEF Types, MemoryTyped, memory
    <2> QED BY <2>1, <2>2 DEF Types, timer, disk
<1>4. CASE FinishUpdate
    <2>1. process = "up" /\ UNCHANGED <<process, runs, doubts, joined, memory, save_timer, disk>>
        BY <1>4 DEF FinishUpdate
    <2>2. MemoryTyped'
        BY <2>1 DEF Types, MemoryTyped, memory
    <2>3. writer' \in [Writers -> Writings]
        <3> DEFINE new == [writer["update"] EXCEPT !.at = "open"]
        <3>1. CASE UNCHANGED writer
            BY <3>1 DEF Types
        <3>2. CASE writer' = [writer EXCEPT !["update"].at = "open"]
            <4>1. "update" \in Writers /\ writer' = [writer EXCEPT !["update"] = new]
                BY <3>2 DEF Writers
            <4>2. new \in Writings
                BY <4>1 DEF Types, Writings
            <4> QED BY <4>1, <4>2, OneWriterTyped DEF Types
        <3> QED BY <1>4, <3>1, <3>2 DEF FinishUpdate
    <2>4. need_to_save_state_' \in BOOLEAN
        BY <1>4 DEF FinishUpdate, Types
    <2> QED BY <2>1, <2>2, <2>3, <2>4 DEF Types, disk
<1> QED BY <1>1, <1>2, <1>3, <1>4 DEF UpdateStep

LEMMA TimerTyped ==
    ASSUME Types, TimerFires
    PROVE  Types'
<1>1. /\ save_timer' = FALSE /\ need_to_save_state_' = TRUE
      /\ UNCHANGED <<process, runs, doubts, joined, memory, writer, disk>>
    BY DEF TimerFires
<1>2. MemoryTyped'
    BY <1>1 DEF Types, MemoryTyped, memory
<1> QED BY <1>1, <1>2 DEF Types, IsWriting, disk

-----------------------------------------------------------------------------
(* Saves keep the types.                                                   *)

\* An order of finitely many maps has each of them once.
LEMMA OrderProperties ==
    ASSUME NEW D, D \subseteq Maps, NEW order \in SetToSeqs(D)
    PROVE  /\ Cardinality(D) \in Nat
           /\ order = [i \in 1 .. Cardinality(D) |-> order[i]]
           /\ \A i \in 1 .. Cardinality(D) : order[i] \in D
           /\ \A i, j \in 1 .. Cardinality(D) : order[i] = order[j] => i = j
           /\ \A m \in D : \E i \in 1 .. Cardinality(D) : order[i] = m
<1> DEFINE N == 1 .. Cardinality(D)
<1>1. IsFiniteSet(D) /\ Cardinality(D) \in Nat
    BY StateFileAssumption, FS_Subset, FS_CardinalityType
<1>2. order \in [N -> D] /\ \A i, j \in N : order[i] = order[j] => i = j
    BY DEF SetToSeqs
<1>3. IsFiniteSet(N) /\ Cardinality(N) = Cardinality(D)
    <2>1. IsFiniteSet(N) /\ Cardinality(N) = IF 1 > Cardinality(D) THEN 0 ELSE Cardinality(D) - 1 + 1
        BY <1>1, FS_Interval
    <2> HIDE DEF N
    <2> QED BY <1>1, <2>1
<1> HIDE DEF N
<1>4. order \in Injection(N, D)
    BY <1>2 DEF Injection, IsInjective
<1>5. order \in Surjection(N, D)
    BY <1>1, <1>3, <1>4, FS_Injection, Zenon
<1>6. \A m \in D : \E i \in N : order[i] = m
    BY <1>5 DEF Surjection
<1> QED BY <1>1, <1>2, <1>6 DEF N

\* The flat sequence of what sessions hold in an order of theirs.
LEMMA FlatSessions ==
    ASSUME NEW S, NEW ss, DOMAIN ss \subseteq Maps, \A m \in DOMAIN ss : ss[m] \in Seq(S),
           NEW order \in SetToSeqs(DOMAIN ss)
    PROVE  FlattenSeq([i \in DOMAIN order |-> ss[order[i]]]) \in Seq(S)
           /\ ToSet(FlattenSeq([i \in DOMAIN order |-> ss[order[i]]])) =
                UNION {ToSet(ss[m]) : m \in DOMAIN ss}
<1> DEFINE n == Cardinality(DOMAIN ss)
           seqs == [i \in DOMAIN order |-> ss[order[i]]]
<1>1. /\ n \in Nat /\ DOMAIN order = 1 .. n
      /\ \A i \in 1 .. n : order[i] \in DOMAIN ss
      /\ \A m \in DOMAIN ss : \E i \in 1 .. n : order[i] = m
    BY OrderProperties
<1> HIDE DEF n
<1>2. \A i \in 1 .. n : seqs[i] = ss[order[i]]
    BY <1>1
<1>3. seqs \in Seq(Seq(S)) /\ Len(seqs) = n
    <2>1. seqs = [i \in 1 .. n |-> seqs[i]] /\ \A i \in 1 .. n : seqs[i] \in Seq(S)
        BY <1>1
    <2> QED BY <1>1, <2>1, FunctionIsSequence
<1> HIDE DEF seqs
<1> DEFINE flat == FlattenSeq(seqs)
<1>4. flat \in Seq(S) /\ FlatUpTo(flat, seqs, n)
    BY <1>3, FlattenSeqProperties
<1> HIDE DEF flat
<1>5. ToSet(flat) = UNION {ToSet(ss[m]) : m \in DOMAIN ss}
    <2>1. \A x \in ToSet(flat) : \E m \in DOMAIN ss : x \in ToSet(ss[m])
        <3>1. \A k \in DOMAIN flat : \E i \in 1 .. n : flat[k] \in ToSet(seqs[i])
            BY <1>4 DEF FlatUpTo
        <3> QED BY <1>1, <1>2, <3>1 DEF ToSet
    <2>2. \A m \in DOMAIN ss : ToSet(ss[m]) \subseteq ToSet(flat)
        <3>1. \A i \in 1 .. n : ToSet(seqs[i]) \subseteq ToSet(flat)
            BY <1>4 DEF FlatUpTo
        <3> QED BY <1>1, <1>2, <3>1
    <2> QED BY <2>1, <2>2
<1> QED BY <1>4, <1>5 DEF flat, seqs

LEMMA OpenTyped ==
    ASSUME Types, NEW w \in Writers, Open(w)
    PROVE  Types'
<1>1. PICK order \in SetToSeqs(DOMAIN sessions) :
         LET loots == FlattenSeq([i \in DOMAIN order |-> sessions[order[i]].loots])
             inBags == {d \in UNION {ToSet(sessions[m].dogs) : m \in DOMAIN sessions} :
                          d.who \in bags}
             text == [Blank EXCEPT !.loots = loots,
                                   !.loot_count = Len(loots) + Cardinality(inBags)]
         IN  writer' = [v \in Writers |->
                          IF v = w
                          THEN [at |-> "dogs", text |-> text, from |-> Facts,
                                alone |-> ~IsWriting(Other(w))]
                          ELSE [writer[v] EXCEPT !.alone = FALSE]]
    BY DEF Open
<1> DEFINE held == [m \in DOMAIN sessions |-> sessions[m].loots]
           loots == FlattenSeq([i \in DOMAIN order |-> sessions[order[i]].loots])
           inBags == {d \in UNION {ToSet(sessions[m].dogs) : m \in DOMAIN sessions} : d.who \in bags}
           text == [Blank EXCEPT !.loots = loots, !.loot_count = Len(loots) + Cardinality(inBags)]
           new == [at |-> "dogs", text |-> text, from |-> Facts, alone |-> ~IsWriting(Other(w))]
<1>2. DOMAIN sessions \subseteq Maps /\ \A m \in DOMAIN sessions : sessions[m] \in Sessions
    BY OnMapsValues DEF Types, MemoryTyped
<1>3. loots \in Seq(Nat) /\ Len(loots) \in Nat
    <2>1. DOMAIN held = DOMAIN sessions /\ \A m \in DOMAIN held : held[m] \in Seq(Nat)
        BY <1>2 DEF Sessions
    <2>2. [i \in DOMAIN order |-> sessions[order[i]].loots] = [i \in DOMAIN order |-> held[order[i]]]
        <3>1. \A i \in DOMAIN order : order[i] \in DOMAIN sessions
            BY <1>2, OrderProperties
        <3> QED BY <3>1
    <2>3. order \in SetToSeqs(DOMAIN held) /\ DOMAIN held \subseteq Maps
        BY <1>2, <2>1
    <2> HIDE DEF held
    <2>4. loots \in Seq(Nat)
        BY <2>1, <2>2, <2>3, FlatSessions
    <2> QED BY <2>4, LenProperties
<1>4. Len(loots) + Cardinality(inBags) \in LootCounts
    <2>1. inBags \subseteq Dogs
        <3>1. \A m \in DOMAIN sessions : sessions[m].dogs \in Seq(Dogs)
            BY <1>2 DEF Sessions
        <3>2. \A m \in DOMAIN sessions : ToSet(sessions[m].dogs) \subseteq Dogs
            BY <3>1, ElementOfSeq, LenProperties DEF ToSet
        <3> QED BY <3>2
    <2> HIDE DEF loots, inBags
    <2> QED BY <1>3, <2>1 DEF LootCounts
<1> HIDE DEF loots, inBags
<1>5. text \in Texts
    BY <1>3, <1>4, BlankTyped DEF Texts, Blank
<1> HIDE DEF text
<1>6. new \in Writings
    <2>1. Facts \in SUBSET AllFacts
        BY FactsTyped DEF Types
    <2> QED BY <1>5, <2>1 DEF Writings, IsWriting
<1>7. writer' = [v \in Writers |-> IF v = w THEN new ELSE [writer[v] EXCEPT !.alone = FALSE]]
    BY <1>1 DEF text, loots, inBags
<1> HIDE DEF new
<1>8. \A v \in Writers : [writer[v] EXCEPT !.alone = FALSE] \in Writings
    BY DEF Types, Writings
<1>9. writer' \in [Writers -> Writings]
    BY <1>6, <1>7, <1>8
<1>10. process = "up" /\ UNCHANGED <<process, runs, doubts, joined, memory, timer>>
    BY DEF Open
<1>11. MemoryTyped'
    BY <1>10 DEF Types, MemoryTyped, memory
<1>12. file' \in Files
    BY BlankTyped DEF Open, Files, NoFile, Torn
<1> QED BY <1>9, <1>10, <1>11, <1>12 DEF Types, timer

LEMMA WriteDogsTyped ==
    ASSUME Types, NEW w \in Writers, WriteDogs(w)
    PROVE  Types'
<1>1. PICK order \in SetToSeqs(DOMAIN sessions) :
         writer' = [writer EXCEPT ![w].at = "sessions",
            ![w].text.dogs = FlattenSeq([i \in DOMAIN order |-> sessions[order[i]].dogs])]
    BY DEF WriteDogs
<1> DEFINE dogs == FlattenSeq([i \in DOMAIN order |-> sessions[order[i]].dogs])
           held == [m \in DOMAIN sessions |-> sessions[m].dogs]
           new == [writer[w] EXCEPT !.at = "sessions", !.text = [@ EXCEPT !.dogs = dogs]]
<1>2. DOMAIN sessions \subseteq Maps /\ \A m \in DOMAIN sessions : sessions[m] \in Sessions
    BY OnMapsValues DEF Types, MemoryTyped
<1>3. dogs \in Seq(Dogs)
    <2>1. DOMAIN held = DOMAIN sessions /\ \A m \in DOMAIN held : held[m] \in Seq(Dogs)
        BY <1>2 DEF Sessions
    <2>2. [i \in DOMAIN order |-> sessions[order[i]].dogs] = [i \in DOMAIN order |-> held[order[i]]]
        <3>1. \A i \in DOMAIN order : order[i] \in DOMAIN sessions
            BY <1>2, OrderProperties
        <3> QED BY <3>1
    <2>3. order \in SetToSeqs(DOMAIN held) /\ DOMAIN held \subseteq Maps
        BY <1>2, <2>1
    <2> HIDE DEF held
    <2> QED BY <2>1, <2>2, <2>3, FlatSessions
<1> HIDE DEF dogs
<1>4. new \in Writings
    BY <1>3 DEF Types, Writings, Texts
<1>5. writer' = [writer EXCEPT ![w] = new]
    BY <1>1 DEF dogs
<1>6. writer' \in [Writers -> Writings]
    BY <1>4, <1>5, OneWriterTyped DEF Types
<1>7. process = "up" /\ UNCHANGED <<process, runs, doubts, joined, memory, timer, disk>>
    BY DEF WriteDogs
<1>8. MemoryTyped'
    BY <1>7 DEF Types, MemoryTyped, memory
<1> QED BY <1>6, <1>7, <1>8 DEF Types, timer, disk
LEMMA WriteSessionsTyped ==
    ASSUME Types, NEW w \in Writers, WriteSessions(w)
    PROVE  Types'
<1> DEFINE saved == [m \in DOMAIN sessions |-> SessionRepr(sessions[m])]
           new == [writer[w] EXCEPT !.at = "players", !.text = [@ EXCEPT !.sessions = saved]]
<1>1. DOMAIN sessions \subseteq Maps /\ \A m \in DOMAIN sessions : sessions[m] \in Sessions
    BY OnMapsValues DEF Types, MemoryTyped
<1>2. ASSUME NEW m \in DOMAIN sessions PROVE SessionRepr(sessions[m]) \in SavedSessions
    <2> DEFINE s == sessions[m]
               ids == [i \in DOMAIN s.dogs |-> s.dogs[i].id]
    <2>1. s \in Sessions
        BY <1>1
    <2>2. s.dogs \in Seq(Dogs) /\ Len(s.dogs) \in Nat /\ DOMAIN s.dogs = 1 .. Len(s.dogs)
          /\ \A i \in 1 .. Len(s.dogs) : s.dogs[i] \in Dogs
        BY <2>1, LenProperties, ElementOfSeq DEF Sessions
    <2>3. ids = [i \in 1 .. Len(s.dogs) |-> ids[i]] /\ \A i \in 1 .. Len(s.dogs) : ids[i] \in Nat
        BY <2>2 DEF Dogs
    <2> HIDE DEF ids
    <2>4. ids \in Seq(Nat)
        BY <2>2, <2>3, FunctionIsSequence
    <2> QED BY <2>1, <2>4 DEF SessionRepr, Sessions, SavedSessions, ids
<1>3. saved \in OnMaps(SavedSessions)
    BY <1>1, <1>2, OnMapsFunction
<1> HIDE DEF saved
<1>4. new \in Writings
    BY <1>3 DEF Types, Writings, Texts
<1>5. writer' = [writer EXCEPT ![w] = new]
    BY DEF WriteSessions, saved
<1>6. writer' \in [Writers -> Writings]
    BY <1>4, <1>5, OneWriterTyped DEF Types
<1>7. process = "up" /\ UNCHANGED <<process, runs, doubts, joined, memory, timer, disk>>
    BY DEF WriteSessions
<1>8. MemoryTyped'
    BY <1>7 DEF Types, MemoryTyped, memory
<1> QED BY <1>6, <1>7, <1>8 DEF Types, timer, disk

\* A player that is written, and the list of all of them.
LEMMA PlayersReprTyped ==
    ASSUME MemoryTyped
    PROVE  [i \in DOMAIN players |-> PlayerRepr(players[i])] \in Seq(SavedPlayers)
<1> DEFINE saved == [i \in DOMAIN players |-> PlayerRepr(players[i])]
<1>1. Len(players) \in Nat /\ DOMAIN players = 1 .. Len(players)
      /\ \A i \in 1 .. Len(players) : players[i] \in PlayersOf(sessions)
    BY LenProperties, ElementOfSeq DEF MemoryTyped
<1>2. \A m \in DOMAIN sessions : sessions[m] \in Sessions
    BY OnMapsValues DEF MemoryTyped
<1>3. ASSUME NEW i \in 1 .. Len(players) PROVE PlayerRepr(players[i]) \in SavedPlayers
    <2>1. players[i] \in PlayersOf(sessions)
        BY <1>1
    <2>2. players[i].session \in DOMAIN sessions
        BY <2>1 DEF PlayersOf
    <2>3. sessions[players[i].session].id \in SessionIds
        BY <1>2, <2>2 DEF Sessions
    <2> QED BY <2>1, <2>3 DEF PlayerRepr, SavedPlayers, PlayersOf, Dogs
<1>4. saved = [i \in 1 .. Len(players) |-> saved[i]]
      /\ \A i \in 1 .. Len(players) : saved[i] \in SavedPlayers
    BY <1>1, <1>3
<1> HIDE DEF saved
<1> QED BY <1>1, <1>4, FunctionIsSequence DEF saved

LEMMA WritePlayersTyped ==
    ASSUME Types, NEW w \in Writers, WritePlayers(w)
    PROVE  Types'
<1> DEFINE text == [writer[w].text EXCEPT !.players = [i \in DOMAIN players |-> PlayerRepr(players[i])]]
           new == [Idle EXCEPT !.at = IF w = "signal" THEN "done" ELSE "no"]
<1>1. text \in Texts
    BY PlayersReprTyped DEF Types, Writings, Texts
<1>2. file' \in {NoFile, Written(text), Torn}
    <2> HIDE DEF text
    <2>1. file' \in CASE file = NoFile    -> {NoFile}
                      [] writer[w].alone -> {Written(text)}
                      [] OTHER           -> {Written(text), Torn}
        BY DEF WritePlayers, text
    <2> QED BY <2>1
<1> HIDE DEF text
<1>3. file' \in Files
    BY <1>1, <1>2, BlankTyped DEF Files, NoFile, Torn, Written
<1>4. new \in Writings
    BY BlankTyped DEF Idle, Writings
<1>5. writer' = [writer EXCEPT ![w] = new]
    BY DEF WritePlayers
<1>6. writer' \in [Writers -> Writings]
    BY <1>4, <1>5, OneWriterTyped DEF Types
<1>7. process = "up" /\ UNCHANGED <<process, runs, doubts, joined, memory, need_to_save_state_>>
    BY DEF WritePlayers
<1>8. save_timer' \in BOOLEAN /\ need_to_save_state_' \in BOOLEAN
    BY <1>7 DEF WritePlayers, Types
<1>9. MemoryTyped'
    BY <1>7 DEF Types, MemoryTyped, memory
<1> QED BY <1>3, <1>6, <1>7, <1>8, <1>9 DEF Types

LEMMA SignalTyped ==
    ASSUME Types, Signal
    PROVE  Types'
<1> DEFINE new == [writer["signal"] EXCEPT !.at = "open"]
<1>1. "signal" \in Writers /\ writer' = [writer EXCEPT !["signal"] = new]
    BY DEF Signal, Writers
<1>2. new \in Writings
    BY <1>1 DEF Types, Writings
<1>3. writer' \in [Writers -> Writings]
    BY <1>1, <1>2, OneWriterTyped DEF Types
<1>4. process = "up" /\ UNCHANGED <<process, runs, doubts, joined, memory, timer, disk>>
    BY DEF Signal
<1>5. MemoryTyped'
    BY <1>4 DEF Types, MemoryTyped, memory
<1> QED BY <1>3, <1>4, <1>5 DEF Types, timer, disk

LEMMA NothingTyped ==
    ASSUME ForgetMemory
    PROVE  MemoryTyped'
<1>1. sessions' \in OnMaps(Sessions) /\ players' \in Seq(PlayersOf(sessions'))
    BY NoMaps, EmptySeq DEF ForgetMemory
<1> QED BY <1>1, StateFileAssumption DEF ForgetMemory, MemoryTyped

\* The end of a process, in an orderly way or not.
LEMMA EndTyped ==
    ASSUME Types, Stop \/ Crash
    PROVE  Types'
<1>1. /\ process' = "off" /\ ForgetMemory /\ writer' = [w \in Writers |-> Idle]
      /\ save_timer' = FALSE /\ need_to_save_state_' = FALSE
      /\ UNCHANGED <<runs, doubts, joined, disk>>
    BY DEF Stop, Crash
<1>2. MemoryTyped'
    BY <1>1, NothingTyped
<1>3. Idle \in Writings
    BY BlankTyped DEF Idle, Writings
<1>4. writer' \in [Writers -> Writings] /\ \A w \in Writers : writer'[w].at = "no"
    BY <1>1, <1>3 DEF Idle
<1>5. \A w \in Writers : ~IsWriting(w)'
    BY <1>4 DEF IsWriting
<1>6. {save_timer', need_to_save_state_'} \subseteq BOOLEAN
    BY <1>1, Zenon
<1> QED BY <1>1, <1>2, <1>4, <1>5, <1>6 DEF Types, disk
-----------------------------------------------------------------------------
(* Starts keep the types.                                                  *)

LEMMA TextTyped ==
    ASSUME NEW text \in Texts
    PROVE  /\ text.dogs \in Seq(Dogs) /\ Len(text.dogs) \in Nat /\ DOMAIN text.dogs = 1 .. Len(text.dogs)
           /\ \A i \in 1 .. Len(text.dogs) : text.dogs[i] \in Dogs /\ text.dogs[i].id \in Nat
           /\ DOMAIN text.sessions \subseteq Maps
           /\ \A m \in DOMAIN text.sessions : text.sessions[m] \in SavedSessions
           /\ Len(text.players) \in Nat /\ DOMAIN text.players = 1 .. Len(text.players)
           /\ \A i \in 1 .. Len(text.players) : text.players[i] \in SavedPlayers
<1>1. text.dogs \in Seq(Dogs) /\ text.players \in Seq(SavedPlayers)
      /\ text.sessions \in OnMaps(SavedSessions)
    BY DEF Texts
<1>2. DOMAIN text.sessions \subseteq Maps /\ \A m \in DOMAIN text.sessions : text.sessions[m] \in SavedSessions
    BY <1>1, OnMapsValues
<1>3. /\ Len(text.dogs) \in Nat /\ DOMAIN text.dogs = 1 .. Len(text.dogs)
      /\ \A i \in 1 .. Len(text.dogs) : text.dogs[i] \in Dogs
    BY <1>1, LenProperties, ElementOfSeq
<1>4. /\ Len(text.players) \in Nat /\ DOMAIN text.players = 1 .. Len(text.players)
      /\ \A i \in 1 .. Len(text.players) : text.players[i] \in SavedPlayers
    BY <1>1, LenProperties, ElementOfSeq
<1> QED BY <1>1, <1>2, <1>3, <1>4 DEF Dogs

LEMMA CopiesAreNumbers ==
    ASSUME NEW list \in Seq(Nat), NEW x
    PROVE  Copies(x, list) \in Nat
<1>1. DOMAIN list = 1 .. Len(list) /\ Len(list) \in Nat
    BY LenProperties
<1>2. IsFiniteSet(DOMAIN list)
    BY <1>1, FS_Interval
<1>3. IsFiniteSet({i \in DOMAIN list : list[i] = x})
    BY <1>2, FS_Subset
<1> QED BY <1>3, FS_CardinalityType DEF Copies

\* The copies of each dog of a save that the session of m gets.
CopiesFor(text, m) ==
    [i \in DOMAIN text.dogs |->
        [k \in 1 .. Copies(text.dogs[i].id, text.sessions[m].dogs) |-> text.dogs[i]]]

LEMMA RestoredDogsProperties ==
    ASSUME NEW text \in Texts, NEW m \in DOMAIN text.sessions
    PROVE  /\ RestoredDogs(text, m) \in Seq(Dogs)
           /\ CopiesFor(text, m) \in Seq(Seq(Dogs))
           /\ Len(CopiesFor(text, m)) = Len(text.dogs)
           /\ FlatUpTo(RestoredDogs(text, m), CopiesFor(text, m), Len(text.dogs))
<1> DEFINE seqs == CopiesFor(text, m)
           n == Len(text.dogs)
<1>1. /\ n \in Nat /\ DOMAIN text.dogs = 1 .. n
      /\ \A i \in 1 .. n : text.dogs[i] \in Dogs
      /\ text.sessions[m] \in SavedSessions
    BY TextTyped
<1>2. text.sessions[m].dogs \in Seq(Nat)
    BY <1>1 DEF SavedSessions
<1>3. seqs = [i \in 1 .. n |-> seqs[i]]
    BY <1>1 DEF CopiesFor
<1>4. ASSUME NEW i \in 1 .. n PROVE seqs[i] \in Seq(Dogs)
    <2> DEFINE c == Copies(text.dogs[i].id, text.sessions[m].dogs)
    <2>1. c \in Nat
        BY <1>2, CopiesAreNumbers
    <2>2. seqs[i] = [k \in 1 .. c |-> text.dogs[i]]
        BY <1>1 DEF CopiesFor
    <2> HIDE DEF c, seqs
    <2>3. seqs[i] = [k \in 1 .. c |-> seqs[i][k]] /\ \A k \in 1 .. c : seqs[i][k] \in Dogs
        BY <1>1, <2>2
    <2> QED BY <2>1, <2>3, FunctionIsSequence
<1>5. RestoredDogs(text, m) = FlattenSeq(seqs)
    BY DEF RestoredDogs, CopiesFor
<1> HIDE DEF seqs, n
<1>6. seqs \in Seq(Seq(Dogs)) /\ Len(seqs) = n
    BY <1>1, <1>3, <1>4, FunctionIsSequence
<1>7. FlattenSeq(seqs) \in Seq(Dogs) /\ FlatUpTo(FlattenSeq(seqs), seqs, n)
    BY <1>6, FlattenSeqProperties
<1> QED BY <1>5, <1>6, <1>7 DEF seqs, n

\* The dog and the map that a saved player finds.
LEMMA RestoredPlayersProperties ==
    ASSUME NEW text \in Texts, Reads(text), NEW order \in SetToSeqs(DOMAIN text.sessions)
    PROVE  /\ DOMAIN RestoredPlayers(text, order) = 1 .. Len(text.players)
           /\ RestoredPlayers(text, order) = [i \in 1 .. Len(text.players) |-> RestoredPlayers(text, order)[i]]
           /\ \A i \in 1 .. Len(text.players) :
                LET p == RestoredPlayers(text, order)[i]
                IN  /\ p = [token |-> text.players[i].token, dog |-> p.dog, session |-> p.session]
                    /\ \E k \in 1 .. Len(text.dogs) : p.dog = text.dogs[k]
                    /\ p.dog.id = text.players[i].dog
                    /\ p.session \in DOMAIN text.sessions
                    /\ text.sessions[p.session].id = text.players[i].session
<1> DEFINE n == Len(text.players)
           c == Cardinality(DOMAIN text.sessions)
           restored == RestoredPlayers(text, order)
<1>1. /\ Len(text.dogs) \in Nat /\ DOMAIN text.dogs = 1 .. Len(text.dogs)
      /\ DOMAIN text.sessions \subseteq Maps
      /\ n \in Nat /\ DOMAIN text.players = 1 .. n
    BY TextTyped
<1>2. /\ c \in Nat
      /\ order = [i \in 1 .. c |-> order[i]]
      /\ \A i \in 1 .. c : order[i] \in DOMAIN text.sessions
      /\ \A m \in DOMAIN text.sessions : \E i \in 1 .. c : order[i] = m
    BY <1>1, OrderProperties
<1> HIDE DEF c
<1>3. Len(order) = c
    <2>1. order \in Seq(DOMAIN text.sessions) /\ Len(order) = c
        BY <1>2, FunctionIsSequence
    <2> QED BY <2>1
<1>4. DOMAIN restored = 1 .. n /\ restored = [i \in 1 .. n |-> restored[i]]
    BY <1>1 DEF RestoredPlayers
<1>5. ASSUME NEW i \in 1 .. n
      PROVE  LET p == restored[i]
             IN  /\ p = [token |-> text.players[i].token, dog |-> p.dog, session |-> p.session]
                 /\ \E k \in 1 .. Len(text.dogs) : p.dog = text.dogs[k]
                 /\ p.dog.id = text.players[i].dog
                 /\ p.session \in DOMAIN text.sessions
                 /\ text.sessions[p.session].id = text.players[i].session
    <2> DEFINE q == text.players[i]
               I == {k \in 1 .. Len(text.dogs) : text.dogs[k].id = q.dog}
               J == {k \in 1 .. Len(order) : text.sessions[order[k]].id = q.session}
               a == IF I # {} THEN Min(I) ELSE 0
               b == IF J # {} THEN Min(J) ELSE 0
    <2>1. restored[i] = [token |-> q.token, dog |-> text.dogs[a], session |-> order[b]]
        BY <1>1 DEF RestoredPlayers, SelectInSeq
    <2>2. a \in 1 .. Len(text.dogs) /\ text.dogs[a].id = q.dog
        <3>1. q.dog \in ToSet(DogIds(text))
            BY <1>1 DEF Reads
        <3>2. \E k \in DOMAIN text.dogs : text.dogs[k].id = q.dog
            BY <3>1 DEF ToSet, DogIds
        <3>3. I \subseteq Nat /\ I # {}
            BY <1>1, <3>2
        <3>4. a \in I
            BY <3>3, MinIsMember
        <3> QED BY <3>4
    <2>3. b \in 1 .. c /\ text.sessions[order[b]].id = q.session
        <3>1. \E m \in DOMAIN text.sessions : text.sessions[m].id = q.session
            BY <1>1 DEF Reads
        <3>2. \E k \in 1 .. c : text.sessions[order[k]].id = q.session
            BY <1>2, <3>1
        <3>3. J \subseteq Nat /\ J # {}
            BY <1>2, <1>3, <3>2
        <3>4. b \in J
            BY <3>3, MinIsMember
        <3> QED BY <1>3, <3>4
    <2> HIDE DEF a, b, restored, q
    <2>4. order[b] \in DOMAIN text.sessions
        BY <1>2, <2>3
    <2> QED BY <2>1, <2>2, <2>3, <2>4 DEF q
<1> QED BY <1>4, <1>5

LEMMA LoadTyped ==
    ASSUME NEW text \in Texts, Reads(text), LoadState(text)
    PROVE  MemoryTyped'
<1>1. PICK order \in SetToSeqs(DOMAIN text.sessions) : players' = RestoredPlayers(text, order)
    BY DEF LoadState
<1>2. /\ Len(text.dogs) \in Nat /\ \A i \in 1 .. Len(text.dogs) : text.dogs[i] \in Dogs /\ text.dogs[i].id \in Nat
      /\ DOMAIN text.sessions \subseteq Maps
      /\ \A m \in DOMAIN text.sessions : text.sessions[m] \in SavedSessions
      /\ Len(text.players) \in Nat
      /\ \A i \in 1 .. Len(text.players) : text.players[i] \in SavedPlayers
    BY TextTyped
<1>3. dog_counter' \in Nat
    <2>1. dog_counter' = RestoredCounter(text)
        BY DEF LoadState
    <2> QED BY <1>2, <2>1, RestoredCounterCounts
<1>4. sessions' \in OnMaps(Sessions) /\ DOMAIN sessions' = DOMAIN text.sessions
    <2>1. sessions' = [m \in DOMAIN text.sessions |->
                      [id    |-> text.sessions[m].id,
                       loots |-> text.sessions[m].loots,
                       dogs  |-> RestoredDogs(text, m)]]
        BY DEF LoadState
    <2>2. \A m \in DOMAIN text.sessions : RestoredDogs(text, m) \in Seq(Dogs)
        BY RestoredDogsProperties
    <2>3. \A m \in DOMAIN text.sessions : sessions'[m] \in Sessions
        BY <1>2, <2>1, <2>2 DEF Sessions, SavedSessions
    <2> QED BY <1>2, <2>1, <2>3, OnMapsFunction
<1>5. players' \in Seq(PlayersOf(sessions'))
    <2> DEFINE n == Len(text.players)
               R == RestoredPlayers(text, order)
    <2>1. /\ R = [i \in 1 .. n |-> R[i]]
          /\ \A i \in 1 .. n :
                /\ R[i] = [token |-> text.players[i].token, dog |-> R[i].dog, session |-> R[i].session]
                /\ \E k \in 1 .. Len(text.dogs) : R[i].dog = text.dogs[k]
                /\ R[i].session \in DOMAIN text.sessions
        BY RestoredPlayersProperties
    <2>2. \A i \in 1 .. n : text.players[i].token \in 0 .. MaxPlayers
        BY <1>2 DEF SavedPlayers
    <2> HIDE DEF R
    <2>3. ASSUME NEW i \in 1 .. n PROVE R[i] \in PlayersOf(sessions')
        <3> DEFINE dog == R[i].dog
                   map == R[i].session
        <3>1. R[i] = [token |-> text.players[i].token, dog |-> dog, session |-> map]
            BY <2>1
        <3>2. dog \in Dogs /\ map \in DOMAIN sessions' /\ text.players[i].token \in 0 .. MaxPlayers
            BY <1>2, <1>4, <2>1, <2>2
        <3> HIDE DEF dog, map
        <3> QED BY <3>1, <3>2 DEF PlayersOf
    <2>4. R \in Seq(PlayersOf(sessions'))
        BY <1>2, <2>1, <2>3, FunctionIsSequence
    <2> QED BY <1>1, <2>4 DEF R
<1>6. /\ bags' = {} /\ loot_counter' = 0 /\ joining' = {}
    BY DEF LoadState, RestoredLootCounter
<1> QED BY <1>3, <1>4, <1>5, <1>6, StateFileAssumption DEF MemoryTyped

LEMMA StartTyped ==
    ASSUME Types, Start
    PROVE  Types'
<1>1. /\ process = "off" /\ runs < MaxRuns /\ runs' = runs + 1
      /\ UNCHANGED <<joined, need_to_save_state_, writer, disk>>
    BY DEF Start
<1>2. runs' \in 0 .. MaxRuns
    BY <1>1, StateFileAssumption DEF Types
<1>3. file.text \in Texts
    BY DEF Types, Files
<1>4. MemoryTyped' /\ process' \in {"up", "failed"} /\ save_timer' \in BOOLEAN
      /\ doubts' \subseteq {"dogs", "sessions", "loots"}
    <2>1. CASE file = NoFile /\ process' = "up" /\ save_timer' = SavePeriodSet /\ ForgetMemory
               /\ UNCHANGED doubts
        BY <2>1, NothingTyped, StateFileAssumption DEF Types
    <2>2. CASE /\ Reads(file.text) /\ process' = "up" /\ save_timer' = SavePeriodSet
               /\ LoadState(file.text) /\ doubts' = doubts \cup Doubts(file.text)
        <3>1. MemoryTyped'
            BY <1>3, <2>2, LoadTyped
        <3>2. doubts' \subseteq {"dogs", "sessions", "loots"}
            BY <2>2 DEF Types, Doubts
        <3> QED BY <2>2, <3>1, <3>2, StateFileAssumption
    <2>3. CASE process' = "failed" /\ UNCHANGED <<memory, save_timer, doubts>>
        <3>1. MemoryTyped'
            BY <2>3 DEF Types, MemoryTyped, memory
        <3> QED BY <2>3, <3>1 DEF Types
    <2> QED BY <2>1, <2>2, <2>3 DEF Start
<1>5. \A w \in Writers : ~IsWriting(w)'
    BY <1>1 DEF Types, IsWriting
<1> QED BY <1>1, <1>2, <1>4, <1>5 DEF Types, disk

LEMMA NextTyped ==
    ASSUME Types, RemovalTyped, [Next]_vars
    PROVE  Types'
<1>1. CASE UNCHANGED vars
    <2>1. MemoryTyped'
        BY <1>1 DEF Types, MemoryTyped, vars, memory
    <2> QED BY <1>1, <2>1 DEF Types, IsWriting, vars, timer, disk
<1>2. CASE \E m \in Maps, id \in SessionIds : AddDogToSession(m, id)
    BY <1>2, AddDogTyped
<1>3. CASE PushPlayer
    BY <1>3, PushTyped
<1>4. CASE Update
    BY <1>4, UpdateTyped
<1>5. CASE TimerFires
    BY <1>5, TimerTyped
<1>6. CASE \E w \in Writers : SaveStep(w)
    BY <1>6, OpenTyped, WriteDogsTyped, WriteSessionsTyped, WritePlayersTyped DEF SaveStep
<1>7. CASE Signal
    BY <1>7, SignalTyped
<1>8. CASE Stop \/ Crash
    BY <1>8, EndTyped
<1>9. CASE Start
    BY <1>9, StartTyped
<1>10. CASE UpdateStep
    BY <1>10, UpdateStepTyped
<1> QED BY <1>1, <1>2, <1>3, <1>4, <1>5, <1>6, <1>7, <1>8, <1>9, <1>10 DEF Next

LEMMA RemovalKept ==
    ASSUME Types, RemovalTyped, [Next]_vars
    PROVE  RemovalTyped'
<1>1. CASE UNCHANGED <<process, players, removal>>
    BY <1>1 DEF RemovalTyped, removal
<1>2. CASE PushPlayer
    <2>1. players' # <<>>
        <3>1. PICK p \in joining : players' = Append(players, p)
            BY <1>2 DEF PushPlayer
        <3>2. players' \in Seq(PlayersOf(sessions)) /\ Len(players') = Len(players) + 1 /\ Len(players) \in Nat
            BY <3>1, AppendProperties, LenProperties DEF Types, MemoryTyped
        <3> QED BY <3>2, EmptySeq
    <2>2. UNCHANGED <<process, update, parted>>
        BY <1>2 DEF PushPlayer, removal
    <2> QED BY <2>1, <2>2 DEF RemovalTyped
<1>3. CASE RemoveDog
    <2>1. Head(players).token \in 0 .. MaxPlayers /\ players # <<>>
        BY <1>3, RemoveDogProperties DEF Types, PlayersOf
    <2>2. /\ process = "up" /\ update' = "remove" /\ UNCHANGED <<process, players>>
          /\ parted' \subseteq parted \cup {Head(players).token}
        BY <1>3 DEF RemoveDog
    <2> QED BY <2>1, <2>2 DEF RemovalTyped
<1>4. CASE Update \/ ErasePlayer \/ RemovalSpins \/ RecordThrows \/ FinishUpdate
    <2>1. /\ process = "up" /\ UNCHANGED <<process, parted>>
          /\ update' \in {"idle", "tick", "spin", "halted"}
        BY <1>4 DEF Update, ErasePlayer, RemovalSpins, RecordThrows, FinishUpdate
    <2> QED BY <2>1 DEF RemovalTyped
<1>5. CASE Stop \/ Crash
    BY <1>5 DEF Stop, Crash, RemovalTyped
<1>6. CASE Start
    <2>1. process = "off" /\ UNCHANGED <<update, parted>>
        BY <1>6 DEF Start, removal
    <2> QED BY <2>1 DEF RemovalTyped
<1>7. ASSUME NEW w \in Writers, SaveStep(w)
      PROVE  UNCHANGED <<process, players, removal>>
    BY <1>7 DEF SaveStep, Open, WriteDogs, WriteSessions, WritePlayers, memory
<1>8. CASE \/ \E m \in Maps, id \in SessionIds : AddDogToSession(m, id)
           \/ TimerFires \/ Signal \/ UNCHANGED vars
    BY <1>1, <1>8 DEF AddDogToSession, TimerFires, Signal, vars, memory
<1> QED BY <1>1, <1>2, <1>3, <1>4, <1>5, <1>6, <1>7, <1>8 DEF Next, UpdateStep

LEMMA RemovalInitially == Init => RemovalTyped
BY DEF Init, RemovalTyped

LEMMA SpecTyped == Spec => []Types /\ []RemovalTyped
<1>1. Types /\ RemovalTyped /\ [Next]_vars => Types' /\ RemovalTyped'
    BY NextTyped, RemovalKept
<1> QED BY <1>1, InitTyped, RemovalInitially, PTL DEF Spec

\* Every state of the server, its memory and its file has its type.
THEOREM TypeCorrect == Spec => []TypeOK
<1>1. Types /\ RemovalTyped => TypeOK
    <2> SUFFICES ASSUME Types, RemovalTyped PROVE TypeOK
        OBVIOUS
    <2>1. /\ DOMAIN sessions \subseteq Maps
          /\ \A m \in DOMAIN sessions : sessions[m] \in Sessions
        BY OnMapsValues DEF Types, MemoryTyped
    <2>2. PlayersOf(sessions) = [token : 0 .. MaxPlayers, session : DOMAIN sessions,
                                 dog : [id : Nat, who : 0 .. MaxPlayers]]
        BY DEF PlayersOf, Dogs
    <2>3. players \in Seq([token : 0 .. MaxPlayers, session : DOMAIN sessions,
                           dog : [id : Nat, who : 0 .. MaxPlayers]])
        BY <2>2 DEF Types, MemoryTyped
    <2>4. \A m \in DOMAIN sessions :
             /\ sessions[m].id \in SessionIds
             /\ sessions[m].dogs \in Seq([id : Nat, who : 0 .. MaxPlayers])
             /\ sessions[m].loots \in Seq(Nat)
        BY <2>1 DEF Sessions, Dogs
    <2>5. /\ \A w \in Writers :
                writer[w].at \in {"no", "open", "dogs", "sessions", "players", "done"}
          /\ file.kind \in {"missing", "torn", "text"}
        BY DEF Types, Writings, Files
    <2> QED BY <2>1, <2>3, <2>4, <2>5 DEF Types, RemovalTyped, MemoryTyped, TypeOK
<1> QED BY <1>1, SpecTyped, PTL
-----------------------------------------------------------------------------
(* The dogs have ids of their own.                                         *)

\* No id at two places, in sessions and in saved sessions, and ids below a counter.
IdsApart(ss) ==
    \A m, n \in DOMAIN ss : \A i \in DOMAIN ss[m].dogs, j \in DOMAIN ss[n].dogs :
        ss[m].dogs[i].id = ss[n].dogs[j].id => m = n /\ i = j
ListedOnce(ss) ==
    \A m, n \in DOMAIN ss : \A i \in DOMAIN ss[m].dogs, j \in DOMAIN ss[n].dogs :
        ss[m].dogs[i] = ss[n].dogs[j] => m = n /\ i = j
IdsBelow(ss, counter) ==
    \A m \in DOMAIN ss : \A i \in DOMAIN ss[m].dogs : ss[m].dogs[i].id < counter

\* As long as no save has left a doubt about the dogs: their ids are given once, and
\* what is being saved, or has been, names each of them once.
DogsInv ==
    "dogs" \notin doubts =>
        /\ IdsApart(sessions)
        /\ IdsBelow(sessions, dog_counter)
        /\ \A w \in Writers : writer[w].at = "players" => ListedOnce(writer[w].text.sessions)
        /\ file.kind = "text" => ListedOnce(file.text.sessions)

\* What the sessions hold after a join: the dogs of before, and the new one.
LEMMA AddDogProperties ==
    ASSUME Types, NEW m \in Maps, NEW id \in SessionIds, AddDogToSession(m, id)
    PROVE  /\ DOMAIN sessions' = DOMAIN sessions \cup {m}
           /\ \A n \in DOMAIN sessions : sessions'[n].id = sessions[n].id
           /\ \A n \in DOMAIN sessions : \A i \in DOMAIN sessions[n].dogs :
                i \in DOMAIN sessions'[n].dogs /\ sessions'[n].dogs[i] = sessions[n].dogs[i]
           /\ \E new \in DOMAIN sessions'[m].dogs :
                /\ sessions'[m].dogs[new] = [id |-> dog_counter, who |-> joined]
                /\ \A n \in DOMAIN sessions' : \A i \in DOMAIN sessions'[n].dogs :
                      \/ n = m /\ i = new
                      \/ /\ n \in DOMAIN sessions /\ i \in DOMAIN sessions[n].dogs
                         /\ sessions'[n].dogs[i] = sessions[n].dogs[i]
<1> DEFINE dog == [id |-> dog_counter, who |-> joined]
<1>1. sessions' = IF m \in DOMAIN sessions
                  THEN [sessions EXCEPT ![m].dogs = Append(@, dog)]
                  ELSE [n \in (DOMAIN sessions) \cup {m} |->
                          IF n = m THEN [id |-> id, dogs |-> <<dog>>, loots |-> <<>>]
                          ELSE sessions[n]]
    BY DEF AddDogToSession
<1>2. /\ sessions = [n \in DOMAIN sessions |-> sessions[n]]
      /\ \A n \in DOMAIN sessions : sessions[n] \in Sessions
    BY OnMapsValues DEF Types, MemoryTyped
<1>3. dog \in Dogs
    BY StateFileAssumption DEF AddDogToSession, Types, MemoryTyped, Dogs
<1> HIDE DEF dog
<1>4. CASE m \in DOMAIN sessions
    <2> DEFINE old == sessions[m]
               new == [old EXCEPT !.dogs = Append(old.dogs, dog)]
               place == Len(old.dogs) + 1
    <2>1. sessions' = [n \in DOMAIN sessions |-> IF n = m THEN new ELSE sessions[n]]
        BY <1>1, <1>2, <1>4
    <2>2. /\ old \in Sessions /\ old.dogs \in Seq(Dogs) /\ Len(old.dogs) \in Nat
          /\ DOMAIN old.dogs = 1 .. Len(old.dogs)
        BY <1>2, <1>4, LenProperties DEF Sessions
    <2>3. /\ Append(old.dogs, dog) \in Seq(Dogs) /\ Len(Append(old.dogs, dog)) = place
          /\ \A i \in 1 .. Len(old.dogs) : Append(old.dogs, dog)[i] = old.dogs[i]
          /\ Append(old.dogs, dog)[place] = dog
        BY <1>3, <2>2, AppendProperties
    <2>4. DOMAIN Append(old.dogs, dog) = 1 .. place
        BY <2>3, LenProperties
    <2>5. new.dogs = Append(old.dogs, dog) /\ new.id = old.id
        BY <2>2 DEF Sessions
    <2>6. \A i \in 1 .. place : i = place \/ i \in 1 .. Len(old.dogs)
        BY <2>2
    <2>7. place \in 1 .. place /\ 1 .. Len(old.dogs) \subseteq 1 .. place
        BY <2>2
    <2>8. new.dogs[place] = dog
          /\ \A i \in DOMAIN old.dogs : i \in DOMAIN new.dogs /\ new.dogs[i] = old.dogs[i]
        BY <2>2, <2>3, <2>4, <2>5, <2>7
    <2>9. \A i \in DOMAIN new.dogs : i = place \/ (i \in DOMAIN old.dogs /\ new.dogs[i] = old.dogs[i])
        BY <2>2, <2>3, <2>4, <2>5, <2>6
    <2>10. place \in DOMAIN new.dogs
        BY <2>4, <2>5, <2>7
    <2>11. sessions'[m] = new /\ \A n \in DOMAIN sessions \ {m} : sessions'[n] = sessions[n]
        BY <1>4, <2>1
    <2>12. DOMAIN sessions' = DOMAIN sessions \cup {m}
        BY <1>4, <2>1
    <2> HIDE DEF place, new
    <2> QED BY <1>4, <2>5, <2>8, <2>9, <2>10, <2>11, <2>12 DEF dog, old
<1>5. CASE m \notin DOMAIN sessions
    <2>1. sessions' = [n \in (DOMAIN sessions) \cup {m} |->
                          IF n = m THEN [id |-> id, dogs |-> <<dog>>, loots |-> <<>>]
                          ELSE sessions[n]]
        BY <1>1, <1>5
    <2>2. sessions'[m].dogs = <<dog>> /\ \A n \in DOMAIN sessions : sessions'[n] = sessions[n]
        BY <1>5, <2>1
    <2>3. DOMAIN <<dog>> = {1} /\ <<dog>>[1] = dog
        OBVIOUS
    <2> QED BY <1>5, <2>1, <2>2, <2>3 DEF dog
<1> QED BY <1>4, <1>5

\* What a tick does before the retirements touches no dog.
LEMMA TickDogs ==
    ASSUME MemoryTyped, TickEffect
    PROVE  /\ players' = players
           /\ \A m \in DOMAIN sessions : sessions'[m].dogs = sessions[m].dogs
<1>1. /\ sessions = [m \in DOMAIN sessions |-> sessions[m]]
      /\ \A m \in DOMAIN sessions : sessions[m] \in Sessions
    BY OnMapsValues DEF MemoryTyped
<1>2. ASSUME NEW m \in DOMAIN sessions, NEW list, sessions' = [sessions EXCEPT ![m].loots = list]
      PROVE  \A n \in DOMAIN sessions : sessions'[n].dogs = sessions[n].dogs
    <2>1. sessions' = [n \in DOMAIN sessions |->
            IF n = m THEN [sessions[m] EXCEPT !.loots = list] ELSE sessions[n]]
        BY <1>1, <1>2
    <2>2. [sessions[m] EXCEPT !.loots = list].dogs = sessions[m].dogs
        BY <1>1 DEF Sessions
    <2> QED BY <2>1, <2>2
<1>3. CASE \E m \in DOMAIN sessions :
              NewLoot(m) \/ \E d \in ToSet(sessions[m].dogs) : PickUp(m, d)
    <2>1. PICK m \in DOMAIN sessions :
              NewLoot(m) \/ \E d \in ToSet(sessions[m].dogs) : PickUp(m, d)
        BY <1>3
    <2>2. players' = players /\ \E list : sessions' = [sessions EXCEPT ![m].loots = list]
        BY <2>1 DEF NewLoot, PickUp
    <2> QED BY <1>2, <2>2
<1>4. CASE NoEffect \/ \E m \in DOMAIN sessions : \E d \in ToSet(sessions[m].dogs) : Deliver(d)
    BY <1>4 DEF NoEffect, memory, Deliver
<1> QED BY <1>3, <1>4 DEF TickEffect

\* Where the dogs are that the removal of one leaves.
LEMMA RemainingDogs ==
    ASSUME MemoryTyped, RemoveDog
    PROVE  /\ DOMAIN sessions' = DOMAIN sessions
           /\ \E place \in 1 .. Len(sessions[Head(players).session].dogs) :
                /\ sessions[Head(players).session].dogs[place].id = Head(players).dog.id
                /\ \A n \in DOMAIN sessions' : \A i \in DOMAIN sessions'[n].dogs :
                      LET j == IF n = Head(players).session /\ i >= place THEN i + 1 ELSE i
                      IN  i \in Nat /\ j \in DOMAIN sessions[n].dogs
                          /\ sessions'[n].dogs[i] = sessions[n].dogs[j]
                /\ \A n \in DOMAIN sessions : \A j \in DOMAIN sessions[n].dogs :
                      \/ n = Head(players).session /\ j = place
                      \/ \E i \in DOMAIN sessions'[n].dogs : sessions'[n].dogs[i] = sessions[n].dogs[j]
<1> DEFINE s == Head(players).session
           old == sessions[s]
           new == sessions'[s]
<1>1. PICK place \in 1 .. Len(old.dogs) :
            /\ old.dogs[place].id = Head(players).dog.id
            /\ Len(new.dogs) = Len(old.dogs) - 1
            /\ \A k \in 1 .. Len(old.dogs) - 1 :
                  new.dogs[k] = IF k < place THEN old.dogs[k] ELSE old.dogs[k + 1]
    BY RemoveDogProperties
<1>2. /\ DOMAIN sessions' = DOMAIN sessions /\ s \in DOMAIN sessions
      /\ \A m \in DOMAIN sessions \ {s} : sessions'[m] = sessions[m]
      /\ new \in Sessions
    BY RemoveDogProperties DEF PlayersOf
<1>3. \A n \in DOMAIN sessions : sessions[n] \in Sessions
    BY OnMapsValues DEF MemoryTyped
<1>4. \A n \in DOMAIN sessions : Len(sessions[n].dogs) \in Nat
            /\ DOMAIN sessions[n].dogs = 1 .. Len(sessions[n].dogs)
    BY <1>3, LenProperties DEF Sessions
<1>5. DOMAIN new.dogs = 1 .. Len(old.dogs) - 1
    BY <1>1, <1>2, LenProperties DEF Sessions
<1>6. Len(old.dogs) \in Nat /\ DOMAIN old.dogs = 1 .. Len(old.dogs)
    BY <1>2, <1>4
<1> HIDE DEF s, old, new
<1>7. ASSUME NEW n \in DOMAIN sessions', NEW i \in DOMAIN sessions'[n].dogs
      PROVE  LET j == IF n = s /\ i >= place THEN i + 1 ELSE i
             IN  i \in Nat /\ j \in DOMAIN sessions[n].dogs
                 /\ sessions'[n].dogs[i] = sessions[n].dogs[j]
    <2>1. CASE n = s
        <3>1. i \in 1 .. Len(old.dogs) - 1
            BY <1>5, <2>1 DEF new
        <3>2. i \in Nat /\ (IF i >= place THEN i + 1 ELSE i) \in 1 .. Len(old.dogs)
              /\ (i < place <=> ~(i >= place))
            BY <1>1, <1>6, <3>1
        <3>3. new.dogs[i] = old.dogs[IF i >= place THEN i + 1 ELSE i]
            BY <1>1, <3>1, <3>2
        <3> QED BY <1>6, <2>1, <3>2, <3>3 DEF old, new
    <2>2. CASE n # s
        BY <1>2, <1>4, <2>2
    <2> QED BY <2>1, <2>2
<1>8. ASSUME NEW n \in DOMAIN sessions, NEW j \in DOMAIN sessions[n].dogs, ~(n = s /\ j = place)
      PROVE  \E i \in DOMAIN sessions'[n].dogs : sessions'[n].dogs[i] = sessions[n].dogs[j]
    <2>1. CASE n = s
        <3>1. j \in 1 .. Len(old.dogs) /\ j # place
            BY <1>6, <1>8, <2>1 DEF old
        <3> DEFINE i == IF j > place THEN j - 1 ELSE j
        <3>2. i \in 1 .. Len(old.dogs) - 1 /\ (IF i < place THEN i ELSE i + 1) = j
            BY <1>1, <1>6, <3>1
        <3>3. new.dogs[i] = old.dogs[j]
            BY <1>1, <3>2
        <3> QED BY <1>5, <2>1, <3>2, <3>3 DEF old, new
    <2>2. CASE n # s
        BY <1>2, <1>8, <2>2
    <2> QED BY <2>1, <2>2
<1>9. place \in 1 .. Len(sessions[s].dogs) /\ sessions[s].dogs[place].id = Head(players).dog.id
    BY <1>1 DEF old
<1> QED BY <1>2, <1>7, <1>8, <1>9 DEF s
LEMMA AddDogKeepsIds ==
    ASSUME Types, IdsApart(sessions), IdsBelow(sessions, dog_counter),
           NEW m \in Maps, NEW id \in SessionIds, AddDogToSession(m, id)
    PROVE  IdsApart(sessions') /\ IdsBelow(sessions', dog_counter')
<1>1. PICK new \in DOMAIN sessions'[m].dogs :
                /\ sessions'[m].dogs[new] = [id |-> dog_counter, who |-> joined]
                /\ \A n \in DOMAIN sessions' : \A i \in DOMAIN sessions'[n].dogs :
                      \/ n = m /\ i = new
                      \/ /\ n \in DOMAIN sessions /\ i \in DOMAIN sessions[n].dogs
                         /\ sessions'[n].dogs[i] = sessions[n].dogs[i]
    BY AddDogProperties
<1>2. dog_counter \in Nat /\ dog_counter' = dog_counter + 1 /\ sessions'[m].dogs[new].id = dog_counter
    BY <1>1 DEF AddDogToSession, Types, MemoryTyped
<1>3. \A n \in DOMAIN sessions : \A i \in DOMAIN sessions[n].dogs :
        sessions[n].dogs[i].id \in Nat /\ sessions[n].dogs[i].id < dog_counter
    <2>1. \A n \in DOMAIN sessions : sessions[n] \in Sessions
        BY OnMapsValues DEF Types, MemoryTyped
    <2>2. \A n \in DOMAIN sessions : \A i \in DOMAIN sessions[n].dogs : sessions[n].dogs[i] \in Dogs
        BY <2>1, LenProperties, ElementOfSeq DEF Sessions
    <2> QED BY <2>2 DEF IdsBelow, Dogs
<1>4. \A n \in DOMAIN sessions : \A i \in DOMAIN sessions[n].dogs :
        sessions[n].dogs[i].id < dog_counter' /\ sessions[n].dogs[i].id # dog_counter
    BY <1>2, <1>3
<1>5. dog_counter < dog_counter'
    BY <1>2
<1>6. IdsBelow(sessions', dog_counter')
    BY <1>1, <1>2, <1>4, <1>5, Zenon DEF IdsBelow
<1>7. IdsApart(sessions')
    <2> SUFFICES ASSUME NEW k \in DOMAIN sessions', NEW n \in DOMAIN sessions',
                        NEW i \in DOMAIN sessions'[k].dogs, NEW j \in DOMAIN sessions'[n].dogs,
                        sessions'[k].dogs[i].id = sessions'[n].dogs[j].id
                 PROVE  k = n /\ i = j
        BY DEF IdsApart
    <2>1. CASE k = m /\ i = new /\ n = m /\ j = new
        BY <2>1
    <2>2. CASE ~(k = m /\ i = new) /\ ~(n = m /\ j = new)
        BY <1>1, <2>2 DEF IdsApart
    <2>3. CASE (k = m /\ i = new) /\ ~(n = m /\ j = new)
        BY <1>1, <1>2, <1>4, <2>3
    <2>4. CASE ~(k = m /\ i = new) /\ (n = m /\ j = new)
        BY <1>1, <1>2, <1>4, <2>4
    <2> QED BY <2>1, <2>2, <2>3, <2>4
<1> QED BY <1>6, <1>7

LEMMA TickKeepsIds ==
    ASSUME MemoryTyped, IdsApart(sessions), IdsBelow(sessions, dog_counter), TickEffect
    PROVE  IdsApart(sessions') /\ IdsBelow(sessions', dog_counter')
BY TickTyped, TickDogs DEF IdsApart, IdsBelow

\* No dog that remains has the id of the one that is removed.
LEMMA RemovalKeepsIds ==
    ASSUME MemoryTyped, IdsApart(sessions), IdsBelow(sessions, dog_counter), RemoveDog
    PROVE  /\ IdsApart(sessions') /\ IdsBelow(sessions', dog_counter')
           /\ \A n \in DOMAIN sessions' : \A i \in DOMAIN sessions'[n].dogs :
                sessions'[n].dogs[i].id # Head(players).dog.id
<1>1. DOMAIN sessions' = DOMAIN sessions /\ dog_counter' = dog_counter
    BY RemoveDogTyped
<1> DEFINE s == Head(players).session
<1>2. s \in DOMAIN sessions /\ Len(sessions[s].dogs) \in Nat
      /\ DOMAIN sessions[s].dogs = 1 .. Len(sessions[s].dogs)
    <2>1. s \in DOMAIN sessions /\ sessions[s] \in Sessions
        BY RemoveDogProperties, OnMapsValues DEF PlayersOf, MemoryTyped
    <2> QED BY <2>1, LenProperties DEF Sessions
<1>3. PICK place \in 1 .. Len(sessions[s].dogs) :
        /\ sessions[s].dogs[place].id = Head(players).dog.id
        /\ \A n \in DOMAIN sessions' : \A i \in DOMAIN sessions'[n].dogs :
              LET j == IF n = s /\ i >= place THEN i + 1 ELSE i
              IN  i \in Nat /\ j \in DOMAIN sessions[n].dogs
                  /\ sessions'[n].dogs[i] = sessions[n].dogs[j]
    BY RemainingDogs
<1>4. place \in Int /\ place \in DOMAIN sessions[s].dogs
    BY <1>2
<1> HIDE DEF s
<1>5. IdsBelow(sessions', dog_counter')
    BY <1>1, <1>3 DEF IdsBelow
<1>6. IdsApart(sessions')
    <2> SUFFICES ASSUME NEW k \in DOMAIN sessions', NEW n \in DOMAIN sessions',
                        NEW i \in DOMAIN sessions'[k].dogs, NEW j \in DOMAIN sessions'[n].dogs,
                        sessions'[k].dogs[i].id = sessions'[n].dogs[j].id
                 PROVE  k = n /\ i = j
        BY DEF IdsApart
    <2> DEFINE a == IF k = s /\ i >= place THEN i + 1 ELSE i
               b == IF n = s /\ j >= place THEN j + 1 ELSE j
    <2>1. /\ i \in Nat /\ a \in DOMAIN sessions[k].dogs /\ sessions'[k].dogs[i] = sessions[k].dogs[a]
          /\ j \in Nat /\ b \in DOMAIN sessions[n].dogs /\ sessions'[n].dogs[j] = sessions[n].dogs[b]
        BY <1>3
    <2> HIDE DEF a, b
    <2>2. k = n /\ a = b
        BY <1>1, <2>1 DEF IdsApart
    <2> QED BY <1>4, <2>1, <2>2 DEF a, b
<1>7. ASSUME NEW n \in DOMAIN sessions', NEW i \in DOMAIN sessions'[n].dogs
      PROVE  sessions'[n].dogs[i].id # Head(players).dog.id
    <2> DEFINE j == IF n = s /\ i >= place THEN i + 1 ELSE i
    <2>1. i \in Nat /\ j \in DOMAIN sessions[n].dogs /\ sessions'[n].dogs[i] = sessions[n].dogs[j]
        BY <1>3
    <2>2. ~(n = s /\ j = place)
        BY <1>4, <2>1
    <2> HIDE DEF j
    <2> QED BY <1>1, <1>2, <1>3, <1>4, <2>1, <2>2 DEF IdsApart
<1> QED BY <1>5, <1>6, <1>7

\* What a save lists is what the sessions hold.
LEMMA ReprListedOnce ==
    ASSUME MemoryTyped, IdsApart(sessions)
    PROVE  ListedOnce([m \in DOMAIN sessions |-> SessionRepr(sessions[m])])
BY DEF ListedOnce, SessionRepr, IdsApart

\* Dogs numbered from 0 on, each listed once, are restored with ids of their own.
LEMMA LoadKeepsIds ==
    ASSUME NEW text \in Texts, Reads(text), LoadState(text),
           ToSet(DogIds(text)) = {i - 1 : i \in DOMAIN text.dogs}, ListedOnce(text.sessions)
    PROVE  /\ \A i, j \in DOMAIN text.dogs : text.dogs[i].id = text.dogs[j].id => i = j
           /\ \A i \in DOMAIN text.dogs : text.dogs[i].id < dog_counter'
           /\ IdsApart(sessions') /\ IdsBelow(sessions', dog_counter')
<1> DEFINE N == Len(text.dogs)
<1>1. /\ N \in Nat /\ DOMAIN text.dogs = 1 .. N /\ \A i \in 1 .. N : text.dogs[i].id \in Nat
      /\ \A m \in DOMAIN text.sessions : text.sessions[m] \in SavedSessions
    BY TextTyped
<1>2. /\ sessions' = [m \in DOMAIN text.sessions |->
                      [id    |-> text.sessions[m].id,
                       loots |-> text.sessions[m].loots,
                       dogs  |-> RestoredDogs(text, m)]]
      /\ dog_counter' = RestoredCounter(text)
    BY DEF LoadState
<1>3. dog_counter' \in Nat /\ dog_counter' >= N
    BY <1>1, <1>2, RestoredCounterCounts
<1> HIDE DEF N
<1>4. /\ \A i \in 1 .. N : text.dogs[i].id \in 0 .. N - 1
      /\ \A i, j \in 1 .. N : text.dogs[i].id = text.dogs[j].id => i = j
    <2> DEFINE ids == DogIds(text)
    <2>1. /\ ids = [i \in 1 .. N |-> ids[i]] /\ ToSet(ids) = {i - 1 : i \in 1 .. N}
          /\ \A i \in 1 .. N : ids[i] = text.dogs[i].id
        BY <1>1 DEF DogIds
    <2> HIDE DEF ids
    <2>2. /\ \A i \in 1 .. N : ids[i] \in 0 .. N - 1
          /\ \A i, j \in 1 .. N : ids[i] = ids[j] => i = j
        BY <1>1, <2>1, NumberedOneByOne
    <2> QED BY <2>1, <2>2
\* Where a restored dog of a session comes from.
<1>5. ASSUME NEW m \in DOMAIN text.sessions
      PROVE  /\ \A i \in DOMAIN RestoredDogs(text, m) : \E k \in 1 .. N :
                  /\ RestoredDogs(text, m)[i] = text.dogs[k]
                  /\ \E l \in DOMAIN text.sessions[m].dogs : text.sessions[m].dogs[l] = text.dogs[k].id
             /\ \A i, j \in DOMAIN RestoredDogs(text, m) :
                  RestoredDogs(text, m)[i] = RestoredDogs(text, m)[j] => i = j
    <2> DEFINE seqs == CopiesFor(text, m)
               flat == RestoredDogs(text, m)
               list == text.sessions[m].dogs
    <2>1. seqs \in Seq(Seq(Dogs)) /\ Len(seqs) = N /\ FlatUpTo(flat, seqs, N) /\ DOMAIN seqs = 1 .. N
        <3>1. seqs \in Seq(Seq(Dogs)) /\ Len(seqs) = N /\ FlatUpTo(flat, seqs, N)
            BY RestoredDogsProperties DEF N
        <3> QED BY <3>1, LenProperties
    <2>2. \A i \in 1 .. N : seqs[i] = [k \in 1 .. Copies(text.dogs[i].id, list) |-> text.dogs[i]]
        BY <1>1 DEF CopiesFor
    <2>3. ASSUME NEW i \in 1 .. N
          PROVE  /\ \A k \in DOMAIN seqs[i] : seqs[i][k] = text.dogs[i]
                 /\ \/ DOMAIN seqs[i] = {}
                    \/ DOMAIN seqs[i] = {1} /\ \E l \in DOMAIN list : list[l] = text.dogs[i].id
        <3> DEFINE c == Copies(text.dogs[i].id, list)
        <3>1. DOMAIN seqs[i] = 1 .. c /\ \A k \in DOMAIN seqs[i] : seqs[i][k] = text.dogs[i]
            BY <2>2
        <3>2. CASE \E l \in DOMAIN list : list[l] = text.dogs[i].id
            <4>1. PICK l \in DOMAIN list : list[l] = text.dogs[i].id
                BY <3>2
            <4>2. \A j \in DOMAIN list : list[j] = list[l] => j = l
                BY DEF ListedOnce
            <4>3. c = 1
                BY <4>1, <4>2, OneCopy
            <4> QED BY <3>1, <3>2, <4>3
        <3>3. CASE \A l \in DOMAIN list : list[l] # text.dogs[i].id
            <4>1. c = 0
                BY <3>3, NoCopy
            <4> QED BY <3>1, <4>1
        <3> QED BY <3>2, <3>3
    <2>4. ASSUME NEW i \in DOMAIN flat
          PROVE  \E k \in 1 .. N :
                  /\ flat[i] = text.dogs[k]
                  /\ \E l \in DOMAIN list : list[l] = text.dogs[k].id
        <3> HIDE DEF flat, seqs, list
        <3>1. PICK k \in 1 .. N : flat[i] \in ToSet(seqs[k])
            BY <2>1 DEF FlatUpTo
        <3>2. PICK c \in DOMAIN seqs[k] : flat[i] = seqs[k][c]
            BY <3>1 DEF ToSet
        <3> QED BY <2>3, <3>2
    <2>5. Apart(seqs)
        <3> HIDE DEF flat, seqs, list
        <3> SUFFICES ASSUME NEW i \in 1 .. N, NEW j \in 1 .. N,
                            NEW a \in DOMAIN seqs[i], NEW b \in DOMAIN seqs[j],
                            seqs[i][a] = seqs[j][b]
                     PROVE  i = j /\ a = b
            BY <2>1 DEF Apart
        <3>1. text.dogs[i] = text.dogs[j]
            BY <2>3
        <3>2. i = j
            BY <1>4, <3>1
        <3> QED BY <2>3, <3>2
    <2>6. \A i, j \in DOMAIN flat : flat[i] = flat[j] => i = j
        BY <2>1, <2>5 DEF FlatUpTo
    <2> QED BY <2>4, <2>6
<1>6. /\ DOMAIN sessions' = DOMAIN text.sessions
      /\ \A m \in DOMAIN text.sessions : sessions'[m].dogs = RestoredDogs(text, m)
    BY <1>2
<1>9. \A k \in 1 .. N : text.dogs[k].id < dog_counter'
    BY <1>1, <1>3, <1>4
<1>7. IdsBelow(sessions', dog_counter')
    BY <1>5, <1>6, <1>9 DEF IdsBelow
<1>8. IdsApart(sessions')
    <2> SUFFICES ASSUME NEW m \in DOMAIN text.sessions, NEW n \in DOMAIN text.sessions,
                        NEW i \in DOMAIN RestoredDogs(text, m), NEW j \in DOMAIN RestoredDogs(text, n),
                        RestoredDogs(text, m)[i].id = RestoredDogs(text, n)[j].id
                 PROVE  m = n /\ i = j
        BY <1>6 DEF IdsApart
    <2>1. PICK k \in 1 .. N :
            /\ RestoredDogs(text, m)[i] = text.dogs[k]
            /\ \E l \in DOMAIN text.sessions[m].dogs : text.sessions[m].dogs[l] = text.dogs[k].id
        BY <1>5
    <2>2. PICK h \in 1 .. N :
            /\ RestoredDogs(text, n)[j] = text.dogs[h]
            /\ \E l \in DOMAIN text.sessions[n].dogs : text.sessions[n].dogs[l] = text.dogs[h].id
        BY <1>5
    <2>3. k = h
        BY <1>4, <2>1, <2>2
    <2>4. m = n
        BY <2>1, <2>2, <2>3 DEF ListedOnce
    <2> QED BY <1>5, <2>1, <2>2, <2>3, <2>4
<1> QED BY <1>1, <1>4, <1>7, <1>8, <1>9

LEMMA DogsKept ==
    ASSUME Types, DogsInv, [Next]_vars
    PROVE  DogsInv'
<1> SUFFICES ASSUME "dogs" \notin doubts'
             PROVE  /\ IdsApart(sessions')
                    /\ IdsBelow(sessions', dog_counter')
                    /\ \A w \in Writers : writer'[w].at = "players" => ListedOnce(writer'[w].text.sessions)
                    /\ file'.kind = "text" => ListedOnce(file'.text.sessions)
    BY DEF DogsInv
<1>1. "dogs" \notin doubts
    BY DEF Next, AddDogToSession, PushPlayer, Update, UpdateStep, RemoveDog,
           ErasePlayer, RemovalSpins, RecordThrows, FinishUpdate, TimerFires, SaveStep, Open, WriteDogs,
           WriteSessions, WritePlayers, Signal, Stop, Crash, Start, vars
<1>2. /\ IdsApart(sessions)
      /\ IdsBelow(sessions, dog_counter)
      /\ \A w \in Writers : writer[w].at = "players" => ListedOnce(writer[w].text.sessions)
      /\ file.kind = "text" => ListedOnce(file.text.sessions)
    BY <1>1 DEF DogsInv
<1>3. CASE UNCHANGED <<sessions, dog_counter, writer, file>>
    BY <1>2, <1>3
<1>4. CASE \E m \in Maps, id \in SessionIds : AddDogToSession(m, id)
    <2>1. UNCHANGED <<writer, file>>
        BY <1>4 DEF AddDogToSession, disk
    <2> QED BY <1>2, <1>4, <2>1, AddDogKeepsIds
<1>5. CASE Update \/ RemoveDog
    <2>1. IdsApart(sessions') /\ IdsBelow(sessions', dog_counter')
        BY <1>2, <1>5, TickKeepsIds, RemovalKeepsIds DEF Types, Update
    <2>2. UNCHANGED <<writer, file>>
        BY <1>5 DEF Update, RemoveDog, disk
    <2> QED BY <1>2, <2>1, <2>2
<1>17. CASE FinishUpdate
    <2>1. \A w \in Writers : writer'[w].at = "players" => writer'[w] = writer[w]
        <3>1. CASE writer' = [writer EXCEPT !["update"].at = "open"]
            BY <3>1 DEF Types, Writings
        <3> QED BY <1>17, <3>1 DEF FinishUpdate
    <2>2. UNCHANGED <<sessions, dog_counter, file>>
        BY <1>17 DEF FinishUpdate, memory, disk
    <2> QED BY <1>2, <2>1, <2>2
<1>6. ASSUME NEW w \in Writers, Open(w) PROVE DogsInv'
    <2>1. \A v \in Writers : writer'[v].at = "players" =>
              writer[v].at = "players" /\ writer'[v].text = writer[v].text
        <3>1. \E text : writer' = [v \in Writers |->
                          IF v = w
                          THEN [at |-> "dogs", text |-> text, from |-> Facts,
                                alone |-> ~IsWriting(Other(w))]
                          ELSE [writer[v] EXCEPT !.alone = FALSE]]
            BY <1>6 DEF Open
        <3>2. \A v \in Writers : [writer[v] EXCEPT !.alone = FALSE].at = writer[v].at
                                 /\ [writer[v] EXCEPT !.alone = FALSE].text = writer[v].text
            BY DEF Types, Writings
        <3> QED BY <3>1, <3>2
    <2>2. file'.kind # "text" /\ UNCHANGED <<sessions, dog_counter>>
        BY <1>6 DEF Open, NoFile, Torn, memory
    <2> QED BY <1>2, <2>1, <2>2 DEF DogsInv
<1>7. ASSUME NEW w \in Writers, WriteDogs(w) PROVE DogsInv'
    <2>1. \A v \in Writers : writer'[v].at = "players" => writer'[v] = writer[v]
        <3>1. \E dogs : writer' = [writer EXCEPT ![w].at = "sessions", ![w].text.dogs = dogs]
            BY <1>7 DEF WriteDogs
        <3> QED BY <3>1 DEF Types, Writings
    <2>2. UNCHANGED <<sessions, dog_counter, file>>
        BY <1>7 DEF WriteDogs, memory, disk
    <2> QED BY <1>2, <2>1, <2>2 DEF DogsInv
<1>8. ASSUME NEW w \in Writers, WriteSessions(w) PROVE DogsInv'
    <2> DEFINE saved == [m \in DOMAIN sessions |-> SessionRepr(sessions[m])]
    <2>1. ListedOnce(saved)
        BY <1>2, ReprListedOnce DEF Types
    <2>2. writer' = [writer EXCEPT ![w].at = "players", ![w].text.sessions = saved]
        BY <1>8 DEF WriteSessions
    <2> HIDE DEF saved
    <2>3. writer'[w].text.sessions = saved /\ \A v \in Writers \ {w} : writer'[v] = writer[v]
        BY <2>2 DEF Types, Writings, Texts
    <2>4. UNCHANGED <<sessions, dog_counter, file>>
        BY <1>8 DEF WriteSessions, memory, disk
    <2> QED BY <1>2, <2>1, <2>3, <2>4 DEF DogsInv
<1>9. ASSUME NEW w \in Writers, WritePlayers(w) PROVE DogsInv'
    <2> DEFINE text == [writer[w].text EXCEPT !.players = [i \in DOMAIN players |-> PlayerRepr(players[i])]]
    <2>1. file' \in {NoFile, Written(text), Torn}
        <3> HIDE DEF text
        <3>1. file' \in CASE file = NoFile    -> {NoFile}
                          [] writer[w].alone -> {Written(text)}
                          [] OTHER           -> {Written(text), Torn}
            BY <1>9 DEF WritePlayers, text
        <3> QED BY <3>1
    <2>2. text.sessions = writer[w].text.sessions
        BY DEF Types, Writings, Texts
    <2> HIDE DEF text
    <2>3. writer[w].at = "players"
        BY <1>9 DEF WritePlayers
    <2>4. file'.kind = "text" => ListedOnce(file'.text.sessions)
        BY <1>2, <2>1, <2>2, <2>3 DEF NoFile, Written, Torn
    <2>5. \A v \in Writers : writer'[v].at = "players" => writer'[v] = writer[v]
        <3>1. writer' = [writer EXCEPT ![w] = [Idle EXCEPT !.at = IF w = "signal" THEN "done" ELSE "no"]]
            BY <1>9 DEF WritePlayers
        <3> QED BY <3>1 DEF Types, Idle
    <2>6. UNCHANGED <<sessions, dog_counter>>
        BY <1>9 DEF WritePlayers, memory
    <2> QED BY <1>2, <2>4, <2>5, <2>6 DEF DogsInv
<1>10. CASE Signal
    <2>1. \A v \in Writers : writer'[v].at = "players" => writer'[v] = writer[v]
        BY <1>10 DEF Signal, Types, Writings
    <2>2. UNCHANGED <<sessions, dog_counter, file>>
        BY <1>10 DEF Signal, memory, disk
    <2> QED BY <1>2, <2>1, <2>2
<1>11. ASSUME ForgetMemory
       PROVE  IdsApart(sessions') /\ IdsBelow(sessions', dog_counter')
    <2>1. DOMAIN sessions' = {}
        BY <1>11 DEF ForgetMemory
    <2> QED BY <2>1 DEF IdsApart, IdsBelow
<1>12. CASE Stop \/ Crash
    <2>1. ForgetMemory /\ file' = file /\ \A w \in Writers : writer'[w].at = "no"
        BY <1>12 DEF Stop, Crash, disk, Idle
    <2> QED BY <1>2, <1>11, <2>1
<1>13. CASE Start
    <2>1. UNCHANGED <<writer, file>>
        BY <1>13 DEF Start, disk
    <2>2. file.text \in Texts
        BY DEF Types, Files
    <2>3. IdsApart(sessions') /\ IdsBelow(sessions', dog_counter')
        <3>1. CASE ForgetMemory
            BY <1>11, <3>1
        <3>2. CASE UNCHANGED memory
            BY <1>2, <3>2 DEF memory
        <3>3. CASE /\ file.kind = "text" /\ Reads(file.text) /\ LoadState(file.text)
                   /\ doubts' = doubts \cup Doubts(file.text)
            <4>1. "dogs" \notin Doubts(file.text)
                BY <3>3
            <4>2. ToSet(DogIds(file.text)) = {i - 1 : i \in DOMAIN file.text.dogs}
                BY <4>1 DEF Doubts
            <4> QED BY <1>2, <2>2, <3>3, <4>2, LoadKeepsIds
        <3> QED BY <1>13, <3>1, <3>2, <3>3 DEF Start
    <2> QED BY <1>2, <2>1, <2>3
<1>14. CASE \/ PushPlayer \/ ErasePlayer \/ RemovalSpins \/ RecordThrows \/ TimerFires
            \/ UNCHANGED vars
    BY <1>3, <1>14 DEF PushPlayer, ErasePlayer, RemovalSpins, RecordThrows, TimerFires, vars, memory,
                       disk
<1>15. ASSUME NEW w \in Writers, SaveStep(w) PROVE DogsInv'
    BY <1>6, <1>7, <1>8, <1>9, <1>15 DEF SaveStep
<1>16. CASE DogsInv'
    BY <1>16 DEF DogsInv
<1> QED BY <1>4, <1>5, <1>10, <1>12, <1>13, <1>14, <1>15, <1>16, <1>17 DEF Next, UpdateStep

LEMMA DogsInitially == Init => DogsInv
<1> SUFFICES ASSUME Init PROVE DogsInv
    OBVIOUS
<1>1. DOMAIN sessions = {}
    BY DEF Init
<1>2. \A w \in Writers : writer[w].at = "no"
    BY DEF Init, Idle
<1>3. DOMAIN file.text.sessions = {}
    BY DEF Init, Written, NoFile, Blank
<1> QED BY <1>1, <1>2, <1>3 DEF DogsInv, IdsApart, IdsBelow, ListedOnce

LEMMA SpecDogs == Spec => []DogsInv
<1>1. Types /\ DogsInv /\ [Next]_vars => DogsInv'
    BY DogsKept
<1> QED BY <1>1, DogsInitially, SpecTyped, PTL DEF Spec

\* No dog of the game has the id of another, in whatever order players join and
\* retire, saves are made and broken off and the server is started again, as long as
\* every save it was started from numbers its dogs one by one.
THEOREM DogIdsUniqueHolds == Spec => []DogIdsUnique
<1>1. DogsInv => DogIdsUnique
    <2> SUFFICES ASSUME DogsInv, "dogs" \notin doubts, NEW a \in AllDogs, NEW b \in AllDogs,
                        sessions[a[1]].dogs[a[2]].id = sessions[b[1]].dogs[b[2]].id
                 PROVE  a = b
        BY DEF DogIdsUnique
    <2>1. PICK m \in DOMAIN sessions : a \in {<<m, i>> : i \in DOMAIN sessions[m].dogs}
        BY DEF AllDogs
    <2>2. PICK i \in DOMAIN sessions[m].dogs : a = <<m, i>>
        BY <2>1
    <2>3. PICK n \in DOMAIN sessions : b \in {<<n, j>> : j \in DOMAIN sessions[n].dogs}
        BY DEF AllDogs
    <2>4. PICK j \in DOMAIN sessions[n].dogs : b = <<n, j>>
        BY <2>3
    <2>5. sessions[m].dogs[i].id = sessions[n].dogs[j].id
        BY <2>2, <2>4
    <2>6. m = n /\ i = j
        BY <2>5 DEF DogsInv, IdsApart
    <2> QED BY <2>2, <2>4, <2>6
<1> QED BY <1>1, SpecDogs, PTL
-----------------------------------------------------------------------------
(* Players and their dogs.                                                 *)

Everyone == {players[i] : i \in DOMAIN players} \cup joining
Has(ss, p) == \E i \in DOMAIN ss[p.session].dogs : ss[p.session].dogs[i] = p.dog
Names(text, dog) == \E k \in DOMAIN text.dogs : text.dogs[k].id = dog
Lists(ss, m, id, dog) ==
    m \in DOMAIN ss /\ ss[m].id = id /\ \E l \in DOMAIN ss[m].dogs : ss[m].dogs[l] = dog

\* The player that is being removed, whose dog is gone already, and those whose dog
\* need not be in the game.
Leaving(p) == update = "remove" /\ p = players[1]
Keeps(p) == Has(sessions, p) \/ p.token \in parted \/ Leaving(p)

\* In the game: everyone's dog is in its session, unless a save saw it leave, and
\* nobody shares a dog.
InGame ==
    /\ \A p \in Everyone : Keeps(p) /\ p.dog.id < dog_counter
    /\ \A i, j \in DOMAIN players : players[i].dog.id = players[j].dog.id => i = j
    /\ \A p \in joining : \A i \in DOMAIN players : players[i].dog.id # p.dog.id
    /\ update = "remove" => \A m \in DOMAIN sessions : \A i \in DOMAIN sessions[m].dogs :
          sessions[m].dogs[i].id # players[1].dog.id

\* In a save whose dogs are written: if the dog of a player is one of them, it is still
\* in its session, or it left it before the sessions were written.
HasNamed(text) ==
    \A p \in Everyone : Names(text, p.dog.id) => Has(sessions, p) \/ p.token \in parted

\* In one whose sessions are written: the session lists it.
InText(text) ==
    \A p \in Everyone : Names(text, p.dog.id) =>
        \/ Lists(text.sessions, p.session, sessions[p.session].id, p.dog.id)
        \/ p.token \in parted
InSaves ==
    \A w \in Writers :
        /\ writer[w].at \in {"sessions", "players"} =>
              \A k \in DOMAIN writer[w].text.dogs : writer[w].text.dogs[k].id < dog_counter
        /\ writer[w].at = "sessions" => HasNamed(writer[w].text)
        /\ writer[w].at = "players" => InText(writer[w].text)

\* In a save that is written: nobody shares a dog, and a session lists it.
InFile(text) ==
    /\ \A i, j \in DOMAIN text.players : text.players[i].dog = text.players[j].dog => i = j
    /\ \A i \in DOMAIN text.players : Names(text, text.players[i].dog) =>
          \/ \E m \in DOMAIN text.sessions :
                Lists(text.sessions, m, text.players[i].session, text.players[i].dog)
          \/ text.players[i].token \in parted

PlayersInv ==
    doubts \subseteq {"loots"} =>
        /\ InGame
        /\ InSaves
        /\ file.kind = "text" => InFile(file.text)

LEMMA EveryoneTyped ==
    ASSUME MemoryTyped
    PROVE  \A p \in Everyone : p \in PlayersOf(sessions)
BY LenProperties, ElementOfSeq DEF MemoryTyped, Everyone

LEMMA AddDogKeepsPlayers ==
    ASSUME Types, RemovalTyped, IdsBelow(sessions, dog_counter), InGame, InSaves,
           NEW m \in Maps, NEW id \in SessionIds, AddDogToSession(m, id)
    PROVE  InGame' /\ InSaves'
<1> DEFINE new == [token |-> joined, dog |-> [id |-> dog_counter, who |-> joined], session |-> m]
<1>1. /\ joining = {} /\ joining' = {new} /\ dog_counter' = dog_counter + 1 /\ dog_counter \in Nat
      /\ UNCHANGED <<players, writer, update, parted>>
    BY DEF AddDogToSession, Types, MemoryTyped, removal
<1>2. /\ \A n \in DOMAIN sessions : n \in DOMAIN sessions' /\ sessions'[n].id = sessions[n].id
      /\ \A n \in DOMAIN sessions : \A i \in DOMAIN sessions[n].dogs :
                i \in DOMAIN sessions'[n].dogs /\ sessions'[n].dogs[i] = sessions[n].dogs[i]
      /\ \E i \in DOMAIN sessions'[m].dogs : sessions'[m].dogs[i] = new.dog
    BY AddDogProperties
<1>3. /\ new.dog.id = dog_counter /\ new.session = m
    OBVIOUS
<1>12. \A n \in DOMAIN sessions' : \A i \in DOMAIN sessions'[n].dogs :
          \/ sessions'[n].dogs[i].id = dog_counter
          \/ /\ n \in DOMAIN sessions /\ i \in DOMAIN sessions[n].dogs
             /\ sessions'[n].dogs[i] = sessions[n].dogs[i]
    <2>1. PICK place \in DOMAIN sessions'[m].dogs :
            /\ sessions'[m].dogs[place] = [id |-> dog_counter, who |-> joined]
            /\ \A n \in DOMAIN sessions' : \A i \in DOMAIN sessions'[n].dogs :
                  \/ n = m /\ i = place
                  \/ /\ n \in DOMAIN sessions /\ i \in DOMAIN sessions[n].dogs
                     /\ sessions'[n].dogs[i] = sessions[n].dogs[i]
        BY AddDogProperties
    <2>2. sessions'[m].dogs[place].id = dog_counter
        BY <2>1
    <2> QED BY <2>1, <2>2
<1> HIDE DEF new
<1>4. Everyone' = Everyone \cup {new}
    BY <1>1 DEF Everyone
<1>5. \A p \in Everyone : p.session \in DOMAIN sessions /\ p.dog.id \in Nat /\ p.dog.id < dog_counter
    <2>1. \A p \in Everyone : p.session \in DOMAIN sessions /\ p.dog.id \in Nat
        BY EveryoneTyped DEF Types, PlayersOf, Dogs
    <2> QED BY <2>1 DEF InGame
<1>13. ASSUME NEW p \in Everyone, Has(sessions, p) PROVE Has(sessions', p)
    BY <1>2, <1>5, <1>13 DEF Has
<1>6. \A p \in Everyone' : Keeps(p)' /\ p.dog.id < dog_counter'
    <2>1. Has(sessions', new) /\ new.dog.id < dog_counter'
        BY <1>1, <1>2, <1>3 DEF Has
    <2>2. ASSUME NEW p \in Everyone
          PROVE  /\ Has(sessions', p) \/ p.token \in parted' \/ (update' = "remove" /\ p = players'[1])
                 /\ p.dog.id < dog_counter'
        <3>1. Has(sessions, p) \/ p.token \in parted \/ (update = "remove" /\ p = players[1])
            BY DEF InGame, Keeps, Leaving
        <3>2. p.dog.id < dog_counter'
            BY <1>1, <1>5
        <3> QED BY <1>1, <1>13, <3>1, <3>2
    <2> QED BY <1>4, <2>1, <2>2 DEF Keeps, Leaving
<1>7. \A i \in DOMAIN players : players[i].dog.id # dog_counter
    <2>1. \A i \in DOMAIN players : players[i] \in Everyone
        BY DEF Everyone
    <2> QED BY <1>1, <1>5, <2>1
<1>14. update' = "remove" => \A n \in DOMAIN sessions' : \A i \in DOMAIN sessions'[n].dogs :
          sessions'[n].dogs[i].id # players'[1].dog.id
    <2> SUFFICES ASSUME update = "remove"
                 PROVE  \A n \in DOMAIN sessions' : \A i \in DOMAIN sessions'[n].dogs :
                            sessions'[n].dogs[i].id # players[1].dog.id
        BY <1>1
    <2>1. 1 \in DOMAIN players
        BY LenProperties, EmptySeq DEF Types, MemoryTyped, RemovalTyped
    <2> QED BY <1>7, <1>12, <2>1 DEF InGame
<1>8. InGame'
    BY <1>1, <1>3, <1>6, <1>7, <1>14 DEF InGame
<1>9. ASSUME NEW w \in Writers, writer[w].at \in {"sessions", "players"}
      PROVE  \A k \in DOMAIN writer[w].text.dogs :
                /\ writer[w].text.dogs[k].id < dog_counter'
                /\ writer[w].text.dogs[k].id # dog_counter
    <2>1. \A k \in DOMAIN writer[w].text.dogs :
             writer[w].text.dogs[k].id \in Nat /\ writer[w].text.dogs[k].id < dog_counter
        <3>1. writer[w].text \in Texts
            BY DEF Types, Writings
        <3> QED BY <1>9, <3>1, TextTyped DEF InSaves
    <2> QED BY <1>1, <2>1
<1>15. ASSUME NEW w \in Writers, writer[w].at \in {"sessions", "players"}
       PROVE  ~Names(writer[w].text, new.dog.id)
    BY <1>3, <1>9, <1>15 DEF Names
<1>10. ASSUME NEW w \in Writers, writer[w].at = "players" PROVE InText(writer[w].text)'
    <2> DEFINE text == writer[w].text
    <2>1. ~Names(text, new.dog.id)
        BY <1>10, <1>15
    <2>2. \A p \in Everyone : Names(text, p.dog.id) =>
            Lists(text.sessions, p.session, sessions'[p.session].id, p.dog.id) \/ p.token \in parted
        <3>1. InText(text)
            BY <1>10 DEF InSaves
        <3> QED BY <1>2, <1>5, <3>1 DEF InText
    <2> QED BY <1>1, <1>4, <2>1, <2>2 DEF InText
<1>16. ASSUME NEW w \in Writers, writer[w].at = "sessions" PROVE HasNamed(writer[w].text)'
    <2> DEFINE text == writer[w].text
    <2>1. ~Names(text, new.dog.id)
        BY <1>15, <1>16
    <2>2. \A p \in Everyone : Names(text, p.dog.id) => Has(sessions', p) \/ p.token \in parted
        <3>1. HasNamed(text)
            BY <1>16 DEF InSaves
        <3> QED BY <1>13, <3>1 DEF HasNamed
    <2> QED BY <1>1, <1>4, <2>1, <2>2 DEF HasNamed
<1>11. InSaves'
    BY <1>1, <1>9, <1>10, <1>16 DEF InSaves
<1> QED BY <1>8, <1>11

\* A game in which nobody leaves but players who were there, and no dog goes.
LEMMA FewerPlayers ==
    ASSUME InSaves, MemoryTyped, Everyone' \subseteq Everyone,
           DOMAIN sessions' = DOMAIN sessions, dog_counter' = dog_counter, parted \subseteq parted',
           \A m \in DOMAIN sessions : sessions'[m].id = sessions[m].id,
           \A p \in Everyone' : Has(sessions, p) =>
                Has(sessions', p) \/ p.token \in parted' \/ \A w \in Writers : writer[w].at # "sessions",
           \A w \in Writers : writer'[w].at \in {"sessions", "players"} =>
                writer'[w].at = writer[w].at /\ writer'[w].text = writer[w].text
    PROVE  InSaves'
<1>1. \A w \in Writers : writer'[w].at \in {"sessions", "players"} =>
          \A k \in DOMAIN writer'[w].text.dogs : writer'[w].text.dogs[k].id < dog_counter'
    BY DEF InSaves
<1>2. ASSUME NEW w \in Writers, writer'[w].at = "players"
      PROVE  \A p \in Everyone' : Names(writer'[w].text, p.dog.id) =>
                \/ Lists(writer'[w].text.sessions, p.session, sessions'[p.session].id, p.dog.id)
                \/ p.token \in parted'
    <2>1. writer'[w].text = writer[w].text /\ InText(writer[w].text)
        BY <1>2 DEF InSaves
    <2>2. \A p \in Everyone' : sessions'[p.session].id = sessions[p.session].id
        BY EveryoneTyped DEF PlayersOf
    <2> QED BY <2>1, <2>2 DEF InText
<1>3. ASSUME NEW w \in Writers, writer'[w].at = "sessions"
      PROVE  \A p \in Everyone' : Names(writer'[w].text, p.dog.id) => Has(sessions', p) \/ p.token \in parted'
    <2>1. writer'[w].text = writer[w].text /\ writer[w].at = "sessions" /\ HasNamed(writer[w].text)
        BY <1>3 DEF InSaves
    <2> QED BY <2>1 DEF HasNamed
<1> QED BY <1>1, <1>2, <1>3 DEF InSaves, InText, HasNamed

LEMMA PushKeepsPlayers ==
    ASSUME Types, RemovalTyped, InGame, InSaves, PushPlayer
    PROVE  InGame' /\ InSaves'
<1>1. PICK p \in joining : players' = Append(players, p)
    BY DEF PushPlayer
<1>2. joining' = {} /\ UNCHANGED <<sessions, dog_counter, writer, update, parted>>
    BY DEF PushPlayer, removal
<1> DEFINE n == Len(players)
<1>3. /\ n \in Nat /\ DOMAIN players = 1 .. n /\ DOMAIN players' = 1 .. n + 1
      /\ players'[n + 1] = p /\ \A i \in 1 .. n : players'[i] = players[i]
    <2>1. players \in Seq(PlayersOf(sessions)) /\ p \in PlayersOf(sessions)
        BY DEF Types, MemoryTyped
    <2>2. /\ players' \in Seq(PlayersOf(sessions)) /\ Len(players') = n + 1
          /\ players'[n + 1] = p /\ \A i \in 1 .. n : players'[i] = players[i]
        BY <1>1, <2>1, AppendProperties
    <2> QED BY <2>1, <2>2, LenProperties
<1> HIDE DEF n
<1>4. \A i \in 1 .. n + 1 : i = n + 1 \/ i \in 1 .. n
    BY <1>3
<1>5. \A i \in DOMAIN players' : players'[i] \in Everyone
    BY <1>3, <1>4 DEF Everyone
<1>6. Everyone' \subseteq Everyone
    BY <1>2, <1>5 DEF Everyone
<1>9. update = "remove" => players'[1] = players[1]
    <2>1. update = "remove" => n # 0
        BY EmptySeq DEF Types, MemoryTyped, RemovalTyped, n
    <2> QED BY <1>3, <2>1
<1>7. InGame'
    <2>1. \A q \in Everyone' : Keeps(q)' /\ q.dog.id < dog_counter'
        BY <1>2, <1>6, <1>9 DEF InGame, Keeps, Leaving, Has
    <2>2. ASSUME NEW i \in DOMAIN players', NEW j \in DOMAIN players',
                 players'[i].dog.id = players'[j].dog.id
          PROVE  i = j
        <3>1. \A k \in 1 .. n : players[k].dog.id # p.dog.id
            BY <1>3 DEF InGame
        <3>2. CASE i \in 1 .. n /\ j \in 1 .. n
            BY <1>3, <2>2, <3>2 DEF InGame
        <3> QED BY <1>3, <1>4, <2>2, <3>1, <3>2
    <2>3. update' = "remove" => \A m \in DOMAIN sessions' : \A i \in DOMAIN sessions'[m].dogs :
             sessions'[m].dogs[i].id # players'[1].dog.id
        BY <1>2, <1>9 DEF InGame
    <2> QED BY <1>2, <2>1, <2>2, <2>3 DEF InGame
<1>8. InSaves'
    BY <1>2, <1>6, FewerPlayers DEF Has, Types
<1> QED BY <1>7, <1>8

LEMMA TickKeepsPlayers ==
    ASSUME MemoryTyped, InGame, InSaves, TickEffect, UNCHANGED <<writer, parted>>,
           update = "idle", update' = "tick"
    PROVE  InGame' /\ InSaves'
<1>1. /\ DOMAIN sessions' = DOMAIN sessions /\ dog_counter' = dog_counter /\ joining' = joining
      /\ \A m \in DOMAIN sessions : sessions'[m].id = sessions[m].id
    BY TickTyped
<1>2. \A p \in Everyone : p.session \in DOMAIN sessions
    BY EveryoneTyped DEF PlayersOf
<1>3. players' = players /\ \A m \in DOMAIN sessions : sessions'[m].dogs = sessions[m].dogs
    BY TickDogs
<1>4. Everyone' = Everyone
    BY <1>1, <1>3 DEF Everyone
<1>5. \A p \in Everyone' : Has(sessions', p) <=> Has(sessions, p)
    BY <1>2, <1>3, <1>4 DEF Has
<1>6. \A p \in Everyone' : Keeps(p)' /\ p.dog.id < dog_counter'
    BY <1>1, <1>4, <1>5 DEF InGame, Keeps, Leaving
<1>7. InGame'
    BY <1>1, <1>3, <1>6 DEF InGame
<1>8. InSaves'
    BY <1>1, <1>4, <1>5, FewerPlayers
<1> QED BY <1>7, <1>8

\* The dog of the first player leaves; what a save names by then is parted from it.
LEMMA RemovalKeepsPlayers ==
    ASSUME Types, InGame, InSaves, RemoveDog, IdsApart(sessions), IdsBelow(sessions, dog_counter)
    PROVE  InGame' /\ InSaves'
<1> DEFINE s == Head(players).session
<1>1. /\ DOMAIN sessions' = DOMAIN sessions /\ dog_counter' = dog_counter /\ joining' = joining
      /\ players' = players /\ \A m \in DOMAIN sessions : sessions'[m].id = sessions[m].id
    BY RemoveDogTyped DEF Types
<1>2. PICK place \in 1 .. Len(sessions[s].dogs) :
            /\ sessions[s].dogs[place].id = Head(players).dog.id
            /\ \A m \in DOMAIN sessions : \A j \in DOMAIN sessions[m].dogs :
                  \/ m = s /\ j = place
                  \/ \E i \in DOMAIN sessions'[m].dogs : sessions'[m].dogs[i] = sessions[m].dogs[j]
    BY RemainingDogs DEF Types
<1> HIDE DEF s
<1>3. 1 \in DOMAIN players /\ Head(players) = players[1]
    <2>1. players # <<>> /\ players \in Seq(PlayersOf(sessions))
        BY RemoveDogProperties DEF Types, MemoryTyped
    <2> QED BY <2>1, LenProperties, EmptySeq, HeadTailProperties
<1>4. /\ update' = "remove" /\ update = "tick" /\ writer' = writer /\ parted \subseteq parted'
      /\ (\E w \in Writers : writer[w].at = "sessions") => players[1].token \in parted'
    BY <1>3 DEF RemoveDog
<1>5. Everyone' = Everyone
    BY <1>1 DEF Everyone
<1>6. ASSUME NEW p \in Everyone, p # players[1], Has(sessions, p) PROVE Has(sessions', p)
    <2>1. p.dog.id # players[1].dog.id
        <3>1. CASE p \in joining
            BY <1>3, <3>1 DEF InGame
        <3>2. CASE \E i \in DOMAIN players : p = players[i]
            BY <1>3, <1>6, <3>2 DEF InGame
        <3> QED BY <3>1, <3>2 DEF Everyone
    <2>2. PICK j \in DOMAIN sessions[p.session].dogs : sessions[p.session].dogs[j] = p.dog
        BY <1>6 DEF Has
    <2>3. ~(p.session = s /\ j = place)
        BY <1>2, <1>3, <2>1, <2>2
    <2>4. p.session \in DOMAIN sessions
        BY EveryoneTyped DEF Types, PlayersOf
    <2> QED BY <1>2, <2>2, <2>3, <2>4 DEF Has
<1>7. \A p \in Everyone' : Keeps(p)' /\ p.dog.id < dog_counter'
    <2> SUFFICES ASSUME NEW p \in Everyone
                 PROVE  /\ Has(sessions', p) \/ p.token \in parted' \/ (update' = "remove" /\ p = players'[1])
                        /\ p.dog.id < dog_counter'
        BY <1>5 DEF Keeps, Leaving
    <2> QED BY <1>1, <1>4, <1>6 DEF InGame, Keeps, Leaving
<1>8. \A m \in DOMAIN sessions' : \A i \in DOMAIN sessions'[m].dogs :
          sessions'[m].dogs[i].id # players'[1].dog.id
    <2>1. \A m \in DOMAIN sessions' : \A i \in DOMAIN sessions'[m].dogs :
              sessions'[m].dogs[i].id # Head(players).dog.id
        BY RemovalKeepsIds DEF Types
    <2> QED BY <1>1, <1>3, <2>1
<1>9. InGame'
    BY <1>1, <1>7, <1>8 DEF InGame
<1>10. \A p \in Everyone' : Has(sessions, p) =>
          Has(sessions', p) \/ p.token \in parted' \/ \A w \in Writers : writer[w].at # "sessions"
    BY <1>4, <1>5, <1>6
<1>11. InSaves'
    BY <1>1, <1>4, <1>5, <1>10, FewerPlayers DEF Types
<1> QED BY <1>9, <1>11

LEMMA EraseKeepsPlayers ==
    ASSUME Types, RemovalTyped, InGame, InSaves, ErasePlayer
    PROVE  InGame' /\ InSaves'
<1> DEFINE n == Len(players)
<1>1. /\ update = "remove" /\ update' = "tick" /\ players' = Tail(players)
      /\ UNCHANGED <<sessions, joining, dog_counter, writer, parted>>
    BY DEF ErasePlayer
<1>2. /\ n \in Nat /\ n # 0 /\ DOMAIN players = 1 .. n
      /\ DOMAIN players' = 1 .. n - 1 /\ \A i \in 1 .. n - 1 : players'[i] = players[i + 1]
    <2>1. players \in Seq(PlayersOf(sessions)) /\ players # <<>>
        BY <1>1 DEF Types, MemoryTyped, RemovalTyped
    <2>2. /\ n \in Nat /\ n # 0 /\ DOMAIN players = 1 .. n
        BY <2>1, LenProperties, EmptySeq
    <2>3. /\ Tail(players) \in Seq(PlayersOf(sessions)) /\ Len(Tail(players)) = n - 1
          /\ \A i \in 1 .. n - 1 : Tail(players)[i] = players[i + 1]
        BY <2>1, <2>2, HeadTailProperties
    <2> QED BY <1>1, <2>2, <2>3, LenProperties
<1> HIDE DEF n
<1>3. \A i \in 1 .. n - 1 : i + 1 \in 1 .. n /\ i + 1 # 1 /\ 1 \in 1 .. n
    BY <1>2
<1>4. Everyone' \subseteq Everyone
    BY <1>1, <1>2, <1>3 DEF Everyone
<1>5. ASSUME NEW p \in Everyone' PROVE p # players[1]
    <2>1. 1 \in DOMAIN players
        BY <1>2
    <2>2. CASE p \in joining
        BY <2>1, <2>2 DEF InGame
    <2>3. CASE \E i \in 1 .. n - 1 : p = players[i + 1]
        BY <1>2, <1>3, <2>1, <2>3 DEF InGame
    <2> QED BY <1>1, <1>2, <2>2, <2>3 DEF Everyone
<1>6. \A p \in Everyone' : Keeps(p)' /\ p.dog.id < dog_counter'
    BY <1>1, <1>4, <1>5 DEF InGame, Keeps, Leaving
<1>7. \A i, j \in DOMAIN players' : players'[i].dog.id = players'[j].dog.id => i = j
    <2> SUFFICES ASSUME NEW i \in 1 .. n - 1, NEW j \in 1 .. n - 1,
                        players[i + 1].dog.id = players[j + 1].dog.id
                 PROVE  i = j
        BY <1>2
    <2>1. i + 1 = j + 1
        BY <1>2, <1>3 DEF InGame
    <2> QED BY <2>1
<1>8. \A p \in joining' : \A i \in DOMAIN players' : players'[i].dog.id # p.dog.id
    BY <1>1, <1>2, <1>3 DEF InGame
<1>9. InGame'
    BY <1>1, <1>6, <1>7, <1>8 DEF InGame
<1>10. InSaves'
    BY <1>1, <1>4, FewerPlayers DEF Types, Has
<1> QED BY <1>9, <1>10

\* What a save lists of the sessions, and of the players.
LEMMA SessionsInText ==
    ASSUME NEW text, HasNamed(text), MemoryTyped,
           text.sessions = [m \in DOMAIN sessions |-> SessionRepr(sessions[m])]
    PROVE  InText(text)
<1> SUFFICES ASSUME NEW p \in Everyone, Has(sessions, p)
             PROVE  Lists(text.sessions, p.session, sessions[p.session].id, p.dog.id)
    BY DEF InText, HasNamed
<1>1. p.session \in DOMAIN sessions
    BY EveryoneTyped DEF PlayersOf
<1>2. PICK i \in DOMAIN sessions[p.session].dogs : sessions[p.session].dogs[i] = p.dog
    BY DEF Has
<1>3. text.sessions[p.session] = SessionRepr(sessions[p.session]) /\ p.session \in DOMAIN text.sessions
    BY <1>1
<1>4. /\ text.sessions[p.session].id = sessions[p.session].id
      /\ DOMAIN text.sessions[p.session].dogs = DOMAIN sessions[p.session].dogs
      /\ text.sessions[p.session].dogs[i] = sessions[p.session].dogs[i].id
    BY <1>2, <1>3 DEF SessionRepr
<1> QED BY <1>2, <1>3, <1>4 DEF Lists

LEMMA PlayersInFile ==
    ASSUME InGame, NEW old \in Texts, InText(old), NEW text,
           text = [old EXCEPT !.players = [i \in DOMAIN players |-> PlayerRepr(players[i])]]
    PROVE  InFile(text)
<1>1. /\ text.dogs = old.dogs /\ text.sessions = old.sessions
      /\ text.players = [i \in DOMAIN players |-> PlayerRepr(players[i])]
    BY DEF Texts
<1>2. /\ DOMAIN text.players = DOMAIN players
      /\ \A i \in DOMAIN players :
            /\ text.players[i].dog = players[i].dog.id /\ text.players[i].token = players[i].token
            /\ text.players[i].session = sessions[players[i].session].id
    BY <1>1 DEF PlayerRepr
<1>3. \A i \in DOMAIN players : players[i] \in Everyone
    BY DEF Everyone
<1>4. \A i, j \in DOMAIN text.players : text.players[i].dog = text.players[j].dog => i = j
    BY <1>2 DEF InGame
<1>5. ASSUME NEW i \in DOMAIN text.players, Names(text, text.players[i].dog)
      PROVE  \/ \E m \in DOMAIN text.sessions :
                  Lists(text.sessions, m, text.players[i].session, text.players[i].dog)
             \/ text.players[i].token \in parted
    <2>1. Names(old, players[i].dog.id)
        BY <1>1, <1>2, <1>5 DEF Names
    <2>2. \/ Lists(old.sessions, players[i].session, sessions[players[i].session].id, players[i].dog.id)
          \/ players[i].token \in parted
        BY <1>2, <1>3, <2>1 DEF InText
    <2> QED BY <1>1, <1>2, <2>2 DEF Lists
<1> QED BY <1>4, <1>5 DEF InFile

\* A save in which every dog has one id, every session one id, and every player a dog
\* of its own that its session lists, is made into such a game, but for the players
\* that a save parted from their dogs.
LEMMA LoadKeepsPlayers ==
    ASSUME NEW text \in Texts, Reads(text), LoadState(text), Doubts(text) \subseteq {"loots"},
           ListedOnce(text.sessions), InFile(text), UNCHANGED parted, update' = "idle"
    PROVE  InGame'
<1>1. /\ ToSet(DogIds(text)) = {i - 1 : i \in DOMAIN text.dogs}
      /\ \A m, n \in DOMAIN text.sessions : text.sessions[m].id = text.sessions[n].id => m = n
    <2>1. "dogs" \notin Doubts(text) /\ "sessions" \notin Doubts(text)
        OBVIOUS
    <2>2. ToSet(DogIds(text)) = {i - 1 : i \in DOMAIN text.dogs}
        BY <2>1 DEF Doubts
    <2>3. \A m, n \in DOMAIN text.sessions : text.sessions[m].id = text.sessions[n].id => m = n
        BY <2>1 DEF Doubts
    <2> QED BY <2>2, <2>3
<1>2. /\ \A i, j \in DOMAIN text.dogs : text.dogs[i].id = text.dogs[j].id => i = j
      /\ \A i \in DOMAIN text.dogs : text.dogs[i].id < dog_counter'
    BY <1>1, LoadKeepsIds
<1>3. PICK order \in SetToSeqs(DOMAIN text.sessions) : players' = RestoredPlayers(text, order)
    BY DEF LoadState
<1>4. /\ joining' = {} /\ DOMAIN sessions' = DOMAIN text.sessions
      /\ \A m \in DOMAIN text.sessions : sessions'[m].dogs = RestoredDogs(text, m)
    BY DEF LoadState
<1> DEFINE n == Len(text.players)
<1>5. /\ DOMAIN players' = 1 .. n /\ DOMAIN text.players = 1 .. n
      /\ DOMAIN text.dogs = 1 .. Len(text.dogs) /\ Len(text.dogs) \in Nat
    BY <1>3, RestoredPlayersProperties, TextTyped
<1>6. \A i \in 1 .. n :
        /\ \E k \in 1 .. Len(text.dogs) : players'[i].dog = text.dogs[k]
        /\ players'[i].dog.id = text.players[i].dog
        /\ players'[i].token = text.players[i].token
        /\ players'[i].session \in DOMAIN text.sessions
        /\ text.sessions[players'[i].session].id = text.players[i].session
    <2> DEFINE R == RestoredPlayers(text, order)
    <2>1. \A i \in 1 .. n :
            /\ R[i] = [token |-> text.players[i].token, dog |-> R[i].dog, session |-> R[i].session]
            /\ \E k \in 1 .. Len(text.dogs) : R[i].dog = text.dogs[k]
            /\ R[i].dog.id = text.players[i].dog
            /\ R[i].session \in DOMAIN text.sessions
            /\ text.sessions[R[i].session].id = text.players[i].session
        BY RestoredPlayersProperties
    <2> HIDE DEF R, n
    <2>2. players' = R
        BY <1>3 DEF R
    <2>3. ASSUME NEW i \in 1 .. n PROVE R[i].token = text.players[i].token
        <3>1. R[i] = [token |-> text.players[i].token, dog |-> R[i].dog, session |-> R[i].session]
            BY <2>1
        <3> QED BY <3>1
    <2> QED BY <2>1, <2>2, <2>3
<1> HIDE DEF n
<1>7. \A i, j \in DOMAIN players' : players'[i].dog.id = players'[j].dog.id => i = j
    BY <1>5, <1>6 DEF InFile
<1>8. ASSUME NEW i \in 1 .. n, players'[i].token \notin parted PROVE Has(sessions', players'[i])
    <2> DEFINE p == players'[i]
               m == p.session
               list == text.sessions[m].dogs
               seqs == CopiesFor(text, m)
    <2>1. PICK k \in 1 .. Len(text.dogs) : p.dog = text.dogs[k]
        BY <1>6
    <2>2. p.dog.id = text.players[i].dog /\ m \in DOMAIN text.sessions
          /\ text.sessions[m].id = text.players[i].session
        BY <1>6
    <2>3. text.dogs[k].id = text.players[i].dog
        BY <2>1, <2>2
    <2>4. Names(text, text.players[i].dog)
        BY <1>5, <2>3 DEF Names
    <2>5. PICK s \in DOMAIN text.sessions :
             Lists(text.sessions, s, text.players[i].session, text.players[i].dog)
        BY <1>5, <1>6, <1>8, <2>4 DEF InFile
    <2> HIDE DEF p, m
    <2>6. s = m
        BY <1>1, <2>2, <2>5 DEF Lists
    <2>7. PICK l \in DOMAIN list : list[l] = text.dogs[k].id
        BY <2>3, <2>5, <2>6 DEF Lists
    <2>8. Copies(list[l], list) = 1
        <3>1. \A j \in DOMAIN list : list[j] = list[l] => j = l
            BY <2>2 DEF ListedOnce
        <3> QED BY <3>1, OneCopy
    <2>9. seqs[k] = [c \in 1 .. 1 |-> text.dogs[k]]
        BY <1>5, <2>7, <2>8 DEF CopiesFor
    <2>10. text.dogs[k] \in ToSet(seqs[k])
        BY <2>9 DEF ToSet
    <2>11. ToSet(seqs[k]) \subseteq ToSet(RestoredDogs(text, m))
        <3>1. FlatUpTo(RestoredDogs(text, m), seqs, Len(text.dogs))
            BY <2>2, RestoredDogsProperties
        <3> QED BY <3>1 DEF FlatUpTo
    <2>12. \E j \in DOMAIN sessions'[m].dogs : sessions'[m].dogs[j] = p.dog
        <3>1. text.dogs[k] \in ToSet(RestoredDogs(text, m))
            BY <2>10, <2>11
        <3> QED BY <1>4, <2>1, <2>2, <3>1 DEF ToSet
    <2> QED BY <2>12 DEF Has, p, m
<1>9. \A p \in Everyone' : Has(sessions', p) \/ p.token \in parted
    BY <1>4, <1>5, <1>8 DEF Everyone
<1>10. \A p \in Everyone' : p.dog.id < dog_counter'
    BY <1>2, <1>4, <1>5, <1>6 DEF Everyone
<1>11. \A p \in Everyone' : Keeps(p)'
    BY <1>9 DEF Keeps
<1> QED BY <1>4, <1>7, <1>10, <1>11 DEF InGame

LEMMA PlayersKept ==
    ASSUME Types, RemovalTyped, DogsInv, PlayersInv, [Next]_vars
    PROVE  PlayersInv'
<1> SUFFICES ASSUME doubts' \subseteq {"loots"}
             PROVE  InGame' /\ InSaves' /\ (file'.kind = "text" => InFile(file.text)')
    BY DEF PlayersInv
<1>1. doubts \subseteq {"loots"}
    BY DEF Next, AddDogToSession, PushPlayer, Update, UpdateStep, RemoveDog,
           ErasePlayer, RemovalSpins, RecordThrows, FinishUpdate, TimerFires, SaveStep, Open, WriteDogs,
           WriteSessions, WritePlayers, Signal, Stop, Crash, Start, vars
<1>2. /\ InGame /\ InSaves /\ (file.kind = "text" => InFile(file.text))
      /\ IdsApart(sessions) /\ IdsBelow(sessions, dog_counter)
      /\ file.kind = "text" => ListedOnce(file.text.sessions)
    BY <1>1 DEF PlayersInv, DogsInv
<1>17. ASSUME parted \subseteq parted', UNCHANGED file
       PROVE  file'.kind = "text" => InFile(file.text)'
    BY <1>2, <1>17 DEF InFile, Names, Lists
<1>18. ASSUME UNCHANGED <<sessions, players, joining, dog_counter, parted>>,
              update = "remove" <=> update' = "remove"
       PROVE  Everyone' = Everyone /\ InGame' /\ \A p \in Everyone' : Has(sessions, p)' <=> Has(sessions, p)
    <2>1. Everyone' = Everyone
        BY <1>18 DEF Everyone
    <2>2. \A p \in Everyone' : Keeps(p)' /\ p.dog.id < dog_counter'
        BY <1>2, <1>18, <2>1 DEF InGame, Keeps, Leaving, Has
    <2>3. InGame'
        BY <1>2, <1>18, <2>2 DEF InGame
    <2> QED BY <1>18, <2>1, <2>3 DEF Has
<1>3. ASSUME UNCHANGED <<sessions, players, joining, dog_counter, parted>>,
             update = "remove" <=> update' = "remove",
             \A w \in Writers :
                /\ writer'[w].at \in {"sessions", "players"} =>
                      writer'[w].at = writer[w].at /\ writer'[w].text = writer[w].text
      PROVE  InGame' /\ InSaves'
    <2>1. Everyone' = Everyone /\ InGame' /\ \A p \in Everyone' : Has(sessions', p) <=> Has(sessions, p)
        BY <1>3, <1>18
    <2> QED BY <1>2, <1>3, <2>1, FewerPlayers DEF Types
<1>4. CASE \E m \in Maps, id \in SessionIds : AddDogToSession(m, id)
    <2>1. UNCHANGED <<file, parted>>
        BY <1>4 DEF AddDogToSession, disk, removal
    <2> QED BY <1>2, <1>4, <1>17, <2>1, AddDogKeepsPlayers
<1>5. CASE PushPlayer
    <2>1. UNCHANGED <<file, parted>>
        BY <1>5 DEF PushPlayer, disk, removal
    <2> QED BY <1>2, <1>5, <1>17, <2>1, PushKeepsPlayers
<1>6. CASE Update
    <2>1. UNCHANGED <<file, writer, parted>> /\ update = "idle" /\ update' = "tick"
        BY <1>6 DEF Update, disk
    <2>2. MemoryTyped /\ TickEffect
        BY <1>6 DEF Types, Update
    <2> QED BY <1>2, <1>17, <2>1, <2>2, TickKeepsPlayers
<1>19. CASE RemoveDog
    <2>1. UNCHANGED file /\ parted \subseteq parted'
        BY <1>19 DEF RemoveDog, disk
    <2> QED BY <1>2, <1>17, <1>19, <2>1, RemovalKeepsPlayers
<1>20. CASE ErasePlayer
    <2>1. UNCHANGED <<file, parted>>
        BY <1>20 DEF ErasePlayer, disk
    <2> QED BY <1>2, <1>17, <1>20, <2>1, EraseKeepsPlayers
<1>21. CASE FinishUpdate
    <2>1. UNCHANGED <<sessions, players, joining, dog_counter, file, parted>>
          /\ update = "tick" /\ update' = "idle"
        BY <1>21 DEF FinishUpdate, memory, disk
    <2>2. \A w \in Writers : writer'[w].at \in {"sessions", "players"} =>
              writer'[w].at = writer[w].at /\ writer'[w].text = writer[w].text
        <3>1. CASE writer' = [writer EXCEPT !["update"].at = "open"]
            BY <3>1 DEF Types, Writings
        <3> QED BY <1>21, <3>1 DEF FinishUpdate
    <2> QED BY <1>3, <1>17, <2>1, <2>2
<1>7. CASE RemovalSpins \/ RecordThrows \/ TimerFires \/ UNCHANGED vars
    <2>1. UNCHANGED <<sessions, players, joining, dog_counter, writer, file, parted>>
        BY <1>7 DEF RemovalSpins, RecordThrows, TimerFires, vars, memory, disk, removal
    <2>2. update = "remove" <=> update' = "remove"
        BY <1>7 DEF RemovalSpins, RecordThrows, TimerFires, vars, removal
    <2> QED BY <1>3, <1>17, <2>1, <2>2
<1>8. CASE Signal
    <2>1. UNCHANGED <<sessions, players, joining, dog_counter, file, update, parted>>
          /\ writer' = [writer EXCEPT !["signal"].at = "open"]
        BY <1>8 DEF Signal, memory, disk, removal
    <2>2. \A w \in Writers : writer'[w].at \in {"sessions", "players"} =>
              writer'[w].at = writer[w].at /\ writer'[w].text = writer[w].text
        BY <2>1 DEF Types, Writings
    <2> QED BY <1>3, <1>17, <2>1, <2>2
<1>9. ASSUME NEW w \in Writers, Open(w)
      PROVE  InGame' /\ InSaves' /\ (file'.kind = "text" => InFile(file.text)')
    <2>1. UNCHANGED <<sessions, players, joining, dog_counter, update, parted>> /\ file'.kind # "text"
        BY <1>9 DEF Open, memory, NoFile, Torn, removal
    <2>2. \A v \in Writers : writer'[v].at \in {"sessions", "players"} =>
              writer'[v].at = writer[v].at /\ writer'[v].text = writer[v].text
        <3>1. \E text : writer' = [v \in Writers |->
                          IF v = w
                          THEN [at |-> "dogs", text |-> text, from |-> Facts,
                                alone |-> ~IsWriting(Other(w))]
                          ELSE [writer[v] EXCEPT !.alone = FALSE]]
            BY <1>9 DEF Open
        <3>2. \A v \in Writers : [writer[v] EXCEPT !.alone = FALSE].at = writer[v].at
                                 /\ [writer[v] EXCEPT !.alone = FALSE].text = writer[v].text
            BY DEF Types, Writings
        <3> QED BY <3>1, <3>2
    <2> QED BY <1>3, <2>1, <2>2
<1>10. ASSUME NEW w \in Writers, WriteDogs(w)
       PROVE  InGame' /\ InSaves' /\ (file'.kind = "text" => InFile(file.text)')
    <2>1. UNCHANGED <<sessions, players, joining, dog_counter, file, update, parted>>
        BY <1>10 DEF WriteDogs, memory, disk, removal
    <2>2. PICK order \in SetToSeqs(DOMAIN sessions) :
            writer' = [writer EXCEPT ![w].at = "sessions",
                ![w].text.dogs = FlattenSeq([i \in DOMAIN order |-> sessions[order[i]].dogs])]
        BY <1>10 DEF WriteDogs
    <2> DEFINE dogs == FlattenSeq([i \in DOMAIN order |-> sessions[order[i]].dogs])
               held == [m \in DOMAIN sessions |-> sessions[m].dogs]
    <2>3. ToSet(dogs) = UNION {ToSet(held[m]) : m \in DOMAIN sessions}
        <3>1. DOMAIN sessions \subseteq Maps /\ \A m \in DOMAIN sessions : sessions[m] \in Sessions
            BY OnMapsValues DEF Types, MemoryTyped
        <3>2. DOMAIN held = DOMAIN sessions /\ \A m \in DOMAIN held : held[m] \in Seq(Dogs)
            BY <3>1 DEF Sessions
        <3>3. [i \in DOMAIN order |-> sessions[order[i]].dogs] = [i \in DOMAIN order |-> held[order[i]]]
            <4>1. \A i \in DOMAIN order : order[i] \in DOMAIN sessions
                BY <3>1, OrderProperties
            <4> QED BY <4>1
        <3>4. order \in SetToSeqs(DOMAIN held) /\ DOMAIN held \subseteq Maps
            BY <3>1, <3>2
        <3> HIDE DEF held
        <3>5. ToSet(FlattenSeq([i \in DOMAIN order |-> held[order[i]]])) =
                UNION {ToSet(held[m]) : m \in DOMAIN held}
            BY <3>2, <3>4, FlatSessions
        <3> QED BY <3>2, <3>3, <3>5
    <2>4. \A k \in DOMAIN dogs : dogs[k].id < dog_counter
        <3> HIDE DEF dogs
        <3>1. ASSUME NEW k \in DOMAIN dogs PROVE dogs[k].id < dog_counter
            <4>1. PICK m \in DOMAIN sessions : dogs[k] \in ToSet(held[m])
                BY <2>3 DEF ToSet
            <4>2. PICK i \in DOMAIN sessions[m].dogs : dogs[k] = sessions[m].dogs[i]
                BY <4>1 DEF ToSet
            <4> QED BY <1>2, <4>2 DEF IdsBelow
        <3> QED BY <3>1
    <2> HIDE DEF dogs
    <2>5. /\ writer'[w].at = "sessions" /\ writer'[w].text.dogs = dogs
          /\ \A v \in Writers \ {w} : writer'[v] = writer[v]
        BY <2>2 DEF Types, Writings, Texts, dogs
    <2>6. Everyone' = Everyone /\ InGame' /\ \A p \in Everyone' : Has(sessions, p)' <=> Has(sessions, p)
        BY <1>18, <2>1
    <2>8. ASSUME NEW p \in Everyone, Names(writer'[w].text, p.dog.id)
          PROVE  Has(sessions, p) \/ p.token \in parted
        <3>1. PICK k \in DOMAIN dogs : dogs[k].id = p.dog.id
            BY <2>5, <2>8 DEF Names
        <3>2. PICK m \in DOMAIN sessions : dogs[k] \in ToSet(held[m])
            BY <2>3, <3>1 DEF ToSet
        <3>3. PICK i \in DOMAIN sessions[m].dogs : dogs[k] = sessions[m].dogs[i]
            BY <3>2 DEF ToSet
        <3>4. ~Leaving(p)
            BY <1>2, <3>1, <3>3 DEF InGame, Leaving
        <3> QED BY <1>2, <3>4 DEF InGame, Keeps
    <2>7. InSaves'
        <3>1. \A v \in Writers : writer'[v].at \in {"sessions", "players"} =>
                \A k \in DOMAIN writer'[v].text.dogs : writer'[v].text.dogs[k].id < dog_counter'
            BY <1>2, <2>1, <2>4, <2>5 DEF InSaves
        <3>2. ASSUME NEW v \in Writers, writer'[v].at = "players"
              PROVE  \A p \in Everyone' : Names(writer'[v].text, p.dog.id) =>
                        \/ Lists(writer'[v].text.sessions, p.session, sessions'[p.session].id, p.dog.id)
                        \/ p.token \in parted'
            <4>1. v # w /\ writer'[v] = writer[v] /\ InText(writer[v].text)
                BY <1>2, <2>5, <3>2 DEF InSaves
            <4> QED BY <2>1, <2>6, <4>1 DEF InText
        <3>3. ASSUME NEW v \in Writers, writer'[v].at = "sessions"
              PROVE  \A p \in Everyone' : Names(writer'[v].text, p.dog.id) =>
                        Has(sessions, p)' \/ p.token \in parted'
            <4>1. CASE v = w
                BY <2>1, <2>6, <2>8, <4>1
            <4>2. CASE v # w
                <5>1. writer'[v] = writer[v] /\ HasNamed(writer[v].text)
                    BY <1>2, <2>5, <3>3, <4>2 DEF InSaves
                <5> QED BY <2>1, <2>6, <5>1 DEF HasNamed
            <4> QED BY <4>1, <4>2
        <3> QED BY <3>1, <3>2, <3>3 DEF InSaves, InText, HasNamed
    <2> QED BY <1>17, <2>1, <2>6, <2>7
<1>11. ASSUME NEW w \in Writers, WriteSessions(w)
       PROVE  InGame' /\ InSaves' /\ (file'.kind = "text" => InFile(file.text)')
    <2> DEFINE saved == [m \in DOMAIN sessions |-> SessionRepr(sessions[m])]
    <2>1. UNCHANGED <<sessions, players, joining, dog_counter, file, update, parted>>
          /\ writer[w].at = "sessions"
        BY <1>11 DEF WriteSessions, memory, disk, removal
    <2>2. writer' = [writer EXCEPT ![w].at = "players", ![w].text.sessions = saved]
        BY <1>11 DEF WriteSessions
    <2> DEFINE text == writer'[w].text
    <2>3. InText(text)
        <3>1. text.sessions = saved /\ text.dogs = writer[w].text.dogs
            <4> HIDE DEF saved
            <4> QED BY <2>2 DEF Types, Writings, Texts
        <3> HIDE DEF text
        <3>2. HasNamed(text)
            BY <1>2, <2>1, <3>1 DEF InSaves, HasNamed, Names
        <3> QED BY <3>1, <3>2, SessionsInText DEF Types
    <2> HIDE DEF saved, text
    <2>4. /\ text.dogs = writer[w].text.dogs /\ text = writer'[w].text
          /\ \A v \in Writers \ {w} : writer'[v] = writer[v]
        BY <2>2 DEF Types, Writings, Texts, text
    <2>5. Everyone' = Everyone /\ InGame' /\ \A p \in Everyone' : Has(sessions, p)' <=> Has(sessions, p)
        BY <1>18, <2>1
    <2>6. InSaves'
        <3>1. \A v \in Writers : writer'[v].at \in {"sessions", "players"} =>
                \A k \in DOMAIN writer'[v].text.dogs : writer'[v].text.dogs[k].id < dog_counter'
            BY <1>2, <2>1, <2>4 DEF InSaves
        <3>2. \A p \in Everyone : Names(text, p.dog.id) =>
                \/ Lists(text.sessions, p.session, sessions'[p.session].id, p.dog.id)
                \/ p.token \in parted'
            BY <2>1, <2>3 DEF InText
        <3>3. \A v \in Writers \ {w} : writer[v].at = "players" =>
                \A p \in Everyone : Names(writer[v].text, p.dog.id) =>
                    \/ Lists(writer[v].text.sessions, p.session, sessions'[p.session].id, p.dog.id)
                    \/ p.token \in parted'
            BY <1>2, <2>1 DEF InSaves, InText
        <3>4. \A v \in Writers : writer'[v].at = "players" =>
                \A p \in Everyone' : Names(writer'[v].text, p.dog.id) =>
                    \/ Lists(writer'[v].text.sessions, p.session, sessions'[p.session].id, p.dog.id)
                    \/ p.token \in parted'
            BY <2>4, <2>5, <3>2, <3>3
        <3>5. writer'[w].at = "players"
            BY <2>2 DEF Types, Writings
        <3>6. ASSUME NEW v \in Writers, writer'[v].at = "sessions"
              PROVE  \A p \in Everyone' : Names(writer'[v].text, p.dog.id) =>
                        Has(sessions, p)' \/ p.token \in parted'
            <4>1. writer'[v] = writer[v] /\ HasNamed(writer[v].text)
                BY <1>2, <2>4, <3>5, <3>6 DEF InSaves
            <4> QED BY <2>1, <2>5, <4>1 DEF HasNamed
        <3> QED BY <3>1, <3>4, <3>6 DEF InSaves, InText, HasNamed
    <2> QED BY <1>17, <2>1, <2>5, <2>6
<1>12. ASSUME NEW w \in Writers, WritePlayers(w)
       PROVE  InGame' /\ InSaves' /\ (file'.kind = "text" => InFile(file.text)')
    <2> DEFINE old == writer[w].text
               text == [old EXCEPT !.players = [i \in DOMAIN players |-> PlayerRepr(players[i])]]
    <2>1. UNCHANGED <<sessions, players, joining, dog_counter, update, parted>>
          /\ writer[w].at = "players"
        BY <1>12 DEF WritePlayers, memory, removal
    <2>2. old \in Texts /\ InText(old)
        BY <1>2, <2>1 DEF Types, Writings, InSaves
    <2>3. file' \in {NoFile, Written(text), Torn}
        <3> HIDE DEF text
        <3>1. file' \in CASE file = NoFile    -> {NoFile}
                          [] writer[w].alone -> {Written(text)}
                          [] OTHER           -> {Written(text), Torn}
            BY <1>12 DEF WritePlayers, text
        <3> QED BY <3>1
    <2> HIDE DEF old
    <2>4. InFile(text)
        BY <1>2, <2>2, PlayersInFile
    <2> HIDE DEF text
    <2>5. file'.kind = "text" => file'.text = text
        BY <2>3 DEF NoFile, Torn, Written
    <2>6. file'.kind = "text" => InFile(file.text)'
        BY <2>1, <2>4, <2>5 DEF InFile
    <2>7. \A v \in Writers : writer'[v].at \in {"sessions", "players"} =>
              writer'[v].at = writer[v].at /\ writer'[v].text = writer[v].text
        <3>1. writer' = [writer EXCEPT ![w] = [Idle EXCEPT !.at = IF w = "signal" THEN "done" ELSE "no"]]
            BY <1>12 DEF WritePlayers
        <3> QED BY <3>1 DEF Types, Idle
    <2> QED BY <1>3, <2>1, <2>6, <2>7
<1>13. ASSUME ForgetMemory, update' = "idle", \A w \in Writers : ~(writer'[w].at \in {"sessions", "players"})
       PROVE  InGame' /\ InSaves'
    <2>1. DOMAIN players' = {} /\ joining' = {}
        BY <1>13 DEF ForgetMemory
    <2>2. Everyone' = {}
        BY <2>1 DEF Everyone
    <2>3. InGame'
        BY <1>13, <2>1, <2>2 DEF InGame
    <2> QED BY <1>13, <2>3 DEF InSaves
<1>14. CASE Stop \/ Crash
    <2>1. /\ ForgetMemory /\ UNCHANGED <<file, parted>> /\ update' = "idle"
          /\ \A w \in Writers : writer'[w].at = "no"
        BY <1>14 DEF Stop, Crash, disk, Idle
    <2> QED BY <1>13, <1>17, <2>1
<1>15. CASE Start
    <2>1. UNCHANGED <<writer, file, update, parted>> /\ process # "up" /\ update = "idle"
        BY <1>15 DEF Start, disk, removal, RemovalTyped
    <2>2. file.text \in Texts
        BY DEF Types, Files
    <2>3. \A w \in Writers : ~(writer'[w].at \in {"sessions", "players"})
        BY <2>1 DEF Types, IsWriting
    <2>4. CASE ForgetMemory
        BY <1>13, <1>17, <2>1, <2>3, <2>4
    <2>5. CASE UNCHANGED memory
        BY <1>3, <1>17, <2>1, <2>5 DEF memory
    <2>6. CASE /\ file.kind = "text" /\ Reads(file.text) /\ LoadState(file.text)
               /\ doubts' = doubts \cup Doubts(file.text)
        <3>1. Doubts(file.text) \subseteq {"loots"}
            BY <2>6
        <3>2. InGame'
            BY <1>2, <2>1, <2>2, <2>6, <3>1, LoadKeepsPlayers
        <3>3. InSaves'
            BY <2>3 DEF InSaves
        <3> QED BY <1>17, <2>1, <3>2, <3>3
    <2> QED BY <1>15, <2>4, <2>5, <2>6 DEF Start
<1>16. CASE \E w \in Writers : SaveStep(w)
    BY <1>9, <1>10, <1>11, <1>12, <1>16 DEF SaveStep
<1> QED BY <1>4, <1>5, <1>6, <1>7, <1>8, <1>14, <1>15, <1>16, <1>19, <1>20, <1>21 DEF Next, UpdateStep

LEMMA PlayersInitially == Init => PlayersInv
<1> SUFFICES ASSUME Init PROVE PlayersInv
    OBVIOUS
<1>1. DOMAIN players = {} /\ joining = {}
    BY DEF Init
<1>2. Everyone = {}
    BY <1>1 DEF Everyone
<1>3. \A w \in Writers : writer[w].at = "no"
    BY DEF Init, Idle
<1>4. DOMAIN file.text.players = {}
    BY DEF Init, Written, NoFile, Blank
<1>5. update = "idle"
    BY DEF Init
<1> QED BY <1>1, <1>2, <1>3, <1>4, <1>5 DEF PlayersInv, InGame, InSaves, InFile

\* Every player plays with a dog of the session it plays in: in a game that grew by
\* joins and shrank by retirements, and in one that was made of a save which was
\* written while the game went on, as long as its ids left no doubt.  Only the player
\* whose dog is removed just now, and one whose dog was removed between two walks of
\* a save, may be parted from it.
THEOREM PlayersPlayWithTheirDogsHolds == Spec => []PlayersPlayWithTheirDogs
<1>1. Types /\ PlayersInv => PlayersPlayWithTheirDogs
    <2> SUFFICES ASSUME Types, InGame, NEW i \in DOMAIN players
                 PROVE  \/ players[i].dog \in ToSet(sessions[players[i].session].dogs)
                        \/ players[i].token \in parted
                        \/ update = "remove" /\ i = 1
        BY DEF PlayersInv, PlayersPlayWithTheirDogs
    <2>1. Keeps(players[i])
        BY DEF InGame, Everyone
    <2>2. CASE Leaving(players[i])
        <3>1. 1 \in DOMAIN players
            BY LenProperties DEF Types, MemoryTyped
        <3> QED BY <2>2, <3>1 DEF Leaving, InGame
    <2> QED BY <2>1, <2>2 DEF Keeps, Has, ToSet
<1>2. Types /\ RemovalTyped /\ DogsInv /\ PlayersInv /\ [Next]_vars => PlayersInv'
    BY PlayersKept
<1> QED BY <1>1, <1>2, PlayersInitially, SpecTyped, SpecDogs, PTL DEF Spec
-----------------------------------------------------------------------------
(* Saves that nothing overlaps.                                            *)

\* A signal waits for the strands to be idle, and an update that saves is a request, or
\* there is none.
SavesAlone == ~SignalsRace /\ (TestingMode \/ ~SavePeriodSet)

\* While a save is under way nobody joins or retires, and the other writer does not
\* write.
AloneInv ==
    /\ ~TestingMode => /\ save_timer = FALSE /\ need_to_save_state_ = FALSE
                       /\ writer["update"].at = "no"
    /\ writer["update"].at = "no" \/ writer["signal"].at = "no"
    /\ \A w \in Writers : writer[w].at # "no" => joining = {} /\ Resting
    /\ TestingMode /\ update # "idle" => joining = {}
    /\ \A w \in Writers : IsWriting(w) => writer[w].alone
    /\ parted = {}

LEMMA WritersAreTwo ==
    /\ Writers = {"update", "signal"}
    /\ Other("update") = "signal" /\ Other("signal") = "update"
<1>1. Writers = {"update", "signal"}
    BY DEF Writers
<1>2. Other("update") \in Writers /\ Other("update") # "update"
    BY <1>1 DEF Other
<1>3. Other("signal") \in Writers /\ Other("signal") # "signal"
    BY <1>1 DEF Other
<1> QED BY <1>1, <1>2, <1>3

\* What a tick does to the loot.
LEMMA TickLoots ==
    ASSUME MemoryTyped, TickEffect
    PROVE  \/ \E m \in DOMAIN sessions : NewLoot(m)
           \/ \E m \in DOMAIN sessions : \E d \in ToSet(sessions[m].dogs) : PickUp(m, d)
           \/ /\ \A m \in DOMAIN sessions : sessions'[m].loots = sessions[m].loots
              /\ loot_counter' = loot_counter
BY DEF TickEffect, NoEffect, memory, Deliver

LEMMA SavesStayAlone ==
    ASSUME SavesAlone, Types, AloneInv, [Next]_vars
    PROVE  AloneInv'
<1>1. /\ ~TestingMode => /\ save_timer = FALSE /\ need_to_save_state_ = FALSE
                         /\ writer["update"].at = "no"
      /\ writer["update"].at = "no" \/ writer["signal"].at = "no"
      /\ \A w \in Writers : writer[w].at # "no" => joining = {} /\ Resting
      /\ TestingMode /\ update # "idle" => joining = {}
      /\ \A w \in Writers : IsWriting(w) => writer[w].alone
      /\ parted = {}
    BY DEF AloneInv
<1>2. ~SignalsRace /\ (TestingMode \/ ~SavePeriodSet)
    BY DEF SavesAlone
<1>3. "update" \in Writers /\ "signal" \in Writers
    BY DEF Writers
<1>4. ~Stopping => writer["signal"].at = "no"
    BY <1>2 DEF Stopping
<1>5. CASE UNCHANGED <<joining, save_timer, need_to_save_state_, writer, update, parted>>
    BY <1>1, <1>5 DEF AloneInv, IsWriting, Resting
<1>6. CASE \E m \in Maps, id \in SessionIds : AddDogToSession(m, id)
    <2>1. UNCHANGED <<timer, writer, removal>> /\ ApiRuns
        BY <1>6 DEF AddDogToSession
    <2>2. /\ \A w \in Writers : writer[w].at = "no"
          /\ TestingMode => update = "idle"
        BY <1>1, <1>4, <2>1, WritersAreTwo DEF ApiRuns
    <2> QED BY <1>1, <2>1, <2>2 DEF AloneInv, timer, removal, IsWriting
<1>7. CASE PushPlayer
    <2>1. joining' = {} /\ UNCHANGED <<timer, writer, removal>>
        BY <1>7 DEF PushPlayer
    <2> QED BY <1>1, <2>1 DEF AloneInv, timer, removal, IsWriting, Resting
<1>8. CASE Update
    <2>1. /\ writer["update"].at = "no" /\ writer["signal"].at = "no"
          /\ TestingMode => joining = {}
          /\ UNCHANGED <<timer, writer, parted>>
        BY <1>4, <1>8 DEF Update
    <2>2. joining' = joining
        <3>1. MemoryTyped /\ TickEffect
            BY <1>8 DEF Types, Update
        <3> QED BY <1>1, <1>2, <3>1, TickTyped
    <2> QED BY <1>1, <2>1, <2>2, WritersAreTwo DEF AloneInv, timer, IsWriting
<1>18. CASE UpdateStep
    <2>1. /\ update \in {"tick", "remove"}
          /\ UNCHANGED <<joining, save_timer>>
        BY <1>18 DEF UpdateStep, RemoveDog, ErasePlayer, RemovalSpins, RecordThrows, FinishUpdate, timer, memory
    <2>2. /\ \A w \in Writers : writer[w].at = "no"
          /\ TestingMode => joining = {}
        BY <1>1, <2>1 DEF Resting
    <2>3. parted' = {}
        <3>1. CASE RemoveDog
            BY <1>1, <2>2, <3>1 DEF RemoveDog
        <3>2. CASE ErasePlayer \/ RemovalSpins \/ RecordThrows \/ FinishUpdate
            BY <1>1, <3>2 DEF ErasePlayer, RemovalSpins, RecordThrows, FinishUpdate
        <3> QED BY <1>18, <3>1, <3>2 DEF UpdateStep
    <2>4. CASE UNCHANGED <<writer, need_to_save_state_>>
        BY <1>1, <2>1, <2>2, <2>3, <2>4 DEF AloneInv, IsWriting
    <2>5. CASE FinishUpdate /\ TestingMode
        <3>1. writer' = [writer EXCEPT !["update"].at = "open"] /\ update' = "idle"
            BY <2>5 DEF FinishUpdate
        <3>2. writer'["update"].at = "open" /\ writer'["signal"] = writer["signal"]
            BY <1>3, <3>1 DEF Types, Writings
        <3> QED BY <2>1, <2>2, <2>3, <2>5, <3>1, <3>2, WritersAreTwo DEF AloneInv, IsWriting, Resting
    <2>6. CASE FinishUpdate /\ ~TestingMode
        <3>1. UNCHANGED <<writer, need_to_save_state_>>
            BY <1>1, <2>6 DEF FinishUpdate
        <3> QED BY <2>4, <3>1
    <2>7. CASE RemoveDog \/ ErasePlayer \/ RemovalSpins \/ RecordThrows
        <3>1. UNCHANGED <<writer, need_to_save_state_>>
            BY <2>7 DEF RemoveDog, ErasePlayer, RemovalSpins, RecordThrows, timer
        <3> QED BY <2>4, <3>1
    <2> QED BY <1>18, <2>5, <2>6, <2>7 DEF UpdateStep
<1>9. CASE TimerFires
    <2>1. TestingMode /\ UNCHANGED <<joining, writer, update, parted>>
        BY <1>1, <1>9 DEF TimerFires, memory, removal
    <2> QED BY <1>1, <2>1 DEF AloneInv, IsWriting, Resting
<1>10. ASSUME NEW w \in Writers, Open(w) PROVE AloneInv'
    <2>1. writer[w].at = "open" /\ UNCHANGED <<joining, timer, update, parted>>
        BY <1>10 DEF Open, memory, removal
    <2>2. \E text : writer' = [v \in Writers |->
                          IF v = w
                          THEN [at |-> "dogs", text |-> text, from |-> Facts,
                                alone |-> ~IsWriting(Other(w))]
                          ELSE [writer[v] EXCEPT !.alone = FALSE]]
        BY <1>10 DEF Open
    <2>3. \A v \in Writers \ {w} : writer'[v].at = writer[v].at
        BY <2>2 DEF Types, Writings
    <2>4. writer'[w].at = "dogs" /\ writer'[w].alone = ~IsWriting(Other(w))
        BY <2>2
    <2>5. \A v \in Writers \ {w} : writer[v].at = "no"
        BY <1>1, <2>1, WritersAreTwo
    <2>6. ~IsWriting(Other(w))
        BY <2>5, WritersAreTwo DEF IsWriting
    <2> QED BY <1>1, <2>1, <2>3, <2>4, <2>5, <2>6, WritersAreTwo DEF AloneInv, timer, IsWriting, Resting
<1>11. ASSUME NEW w \in Writers, WriteDogs(w) \/ WriteSessions(w) PROVE AloneInv'
    <2>1. /\ IsWriting(w) /\ UNCHANGED <<joining, timer, update, parted>>
          /\ \E dogs, sessions_ : \/ writer' = [writer EXCEPT ![w].at = "sessions", ![w].text.dogs = dogs]
                                  \/ writer' = [writer EXCEPT ![w].at = "players", ![w].text.sessions = sessions_]
        BY <1>11 DEF WriteDogs, WriteSessions, memory, removal, IsWriting
    <2>2. writer'[w].at # "no" /\ writer'[w].alone = writer[w].alone
          /\ \A v \in Writers \ {w} : writer'[v] = writer[v]
        BY <2>1 DEF Types, Writings
    <2>3. writer[w].at # "no"
        BY <2>1 DEF IsWriting
    <2> QED BY <1>1, <2>1, <2>2, <2>3, WritersAreTwo DEF AloneInv, timer, IsWriting, Resting
<1>12. ASSUME NEW w \in Writers, WritePlayers(w) PROVE AloneInv'
    <2>1. /\ writer[w].at = "players" /\ UNCHANGED <<joining, need_to_save_state_, update, parted>>
          /\ writer' = [writer EXCEPT ![w] = [Idle EXCEPT !.at = IF w = "signal" THEN "done" ELSE "no"]]
          /\ save_timer' = (save_timer \/ (w = "update" /\ ~TestingMode))
        BY <1>12 DEF WritePlayers, memory, removal
    <2>2. writer'[w].at = (IF w = "signal" THEN "done" ELSE "no")
          /\ \A v \in Writers \ {w} : writer'[v] = writer[v]
        BY <2>1 DEF Types, Idle
    <2>3. ~TestingMode => w # "update" /\ save_timer' = FALSE
        <3>1. ~TestingMode => w # "update" /\ save_timer = FALSE
            BY <1>1, <2>1
        <3> QED BY <2>1, <3>1
    <2> QED BY <1>1, <2>1, <2>2, <2>3, WritersAreTwo DEF AloneInv, IsWriting, Resting
<1>13. CASE Signal
    <2>1. /\ writer["signal"].at = "no" /\ writer["update"].at = "no" /\ joining = {} /\ Resting
          /\ writer' = [writer EXCEPT !["signal"].at = "open"]
          /\ UNCHANGED <<joining, timer, update, parted>>
        BY <1>2, <1>13 DEF Signal, memory, removal
    <2>2. writer'["signal"].at = "open" /\ writer'["update"] = writer["update"]
        BY <1>3, <2>1 DEF Types, Writings
    <2> QED BY <1>1, <2>1, <2>2, WritersAreTwo DEF AloneInv, timer, IsWriting, Resting
<1>14. CASE Stop \/ Crash
    <2>1. /\ joining' = {} /\ save_timer' = FALSE /\ need_to_save_state_' = FALSE
          /\ \A w \in Writers : writer'[w].at = "no"
          /\ parted' = parted
        BY <1>14 DEF Stop, Crash, ForgetMemory, Idle
    <2> QED BY <1>1, <1>3, <2>1 DEF AloneInv, IsWriting
<1>15. CASE Start
    <2>1. joining' \in {joining, {}} /\ UNCHANGED <<need_to_save_state_, writer, update, parted>>
        BY <1>1, <1>15 DEF Start, ForgetMemory, LoadState, memory, removal
    <2>2. save_timer' \in {save_timer, SavePeriodSet}
        BY <1>15 DEF Start
    <2>3. ~TestingMode => save_timer' = FALSE
        BY <1>1, <1>2, <2>2, StateFileAssumption
    <2> QED BY <1>1, <2>1, <2>3 DEF AloneInv, IsWriting, Resting
<1>16. CASE UNCHANGED vars
    BY <1>5, <1>16 DEF vars, memory, timer, removal
<1>17. CASE \E w \in Writers : SaveStep(w)
    BY <1>10, <1>11, <1>12, <1>17 DEF SaveStep
<1> QED BY <1>6, <1>7, <1>8, <1>9, <1>13, <1>14, <1>15, <1>16, <1>17, <1>18 DEF Next
\* No id of loot at two places, all below the counter.
LootsApart(ss) ==
    \A m, n \in DOMAIN ss : \A i \in DOMAIN ss[m].loots, j \in DOMAIN ss[n].loots :
        ss[m].loots[i] = ss[n].loots[j] => m = n /\ i = j
LootsBelow(ss, counter) ==
    \A m \in DOMAIN ss : \A i \in DOMAIN ss[m].loots : ss[m].loots[i] < counter
LootsInv == "loots" \notin doubts => LootsApart(sessions) /\ LootsBelow(sessions, loot_counter)

LEMMA AddDogLoots ==
    ASSUME Types, NEW m \in Maps, NEW id \in SessionIds, AddDogToSession(m, id)
    PROVE  \A n \in DOMAIN sessions' :
             DOMAIN sessions'[n].loots = {} \/ (n \in DOMAIN sessions /\ sessions'[n].loots = sessions[n].loots)
<1> DEFINE dog == [id |-> dog_counter, who |-> joined]
<1>1. sessions' = IF m \in DOMAIN sessions
                  THEN [sessions EXCEPT ![m].dogs = Append(@, dog)]
                  ELSE [n \in (DOMAIN sessions) \cup {m} |->
                          IF n = m THEN [id |-> id, dogs |-> <<dog>>, loots |-> <<>>]
                          ELSE sessions[n]]
    BY DEF AddDogToSession
<1>2. /\ sessions = [n \in DOMAIN sessions |-> sessions[n]]
      /\ \A n \in DOMAIN sessions : sessions[n] \in Sessions
    BY OnMapsValues DEF Types, MemoryTyped
<1> HIDE DEF dog
<1>3. CASE m \in DOMAIN sessions
    <2>1. sessions' = [n \in DOMAIN sessions |->
            IF n = m THEN [sessions[m] EXCEPT !.dogs = Append(sessions[m].dogs, dog)] ELSE sessions[n]]
        BY <1>1, <1>2, <1>3
    <2>2. [sessions[m] EXCEPT !.dogs = Append(sessions[m].dogs, dog)].loots = sessions[m].loots
        BY <1>2, <1>3 DEF Sessions
    <2> QED BY <2>1, <2>2
<1>4. CASE m \notin DOMAIN sessions
    <2>1. \A n \in DOMAIN sessions' : n = m \/ (n \in DOMAIN sessions /\ sessions'[n] = sessions[n])
        BY <1>1, <1>4
    <2>2. sessions'[m].loots = <<>>
        BY <1>1, <1>4
    <2>3. DOMAIN <<>> = {}
        OBVIOUS
    <2> QED BY <2>1, <2>2, <2>3
<1> QED BY <1>3, <1>4

LEMMA NewLootKeepsIds ==
    ASSUME MemoryTyped, LootsApart(sessions), LootsBelow(sessions, loot_counter),
           NEW m \in DOMAIN sessions, NewLoot(m)
    PROVE  LootsApart(sessions') /\ LootsBelow(sessions', loot_counter')
<1> DEFINE old == sessions[m].loots
           new == Append(old, loot_counter)
           place == Len(old) + 1
<1>1. /\ loot_counter' = loot_counter + 1 /\ loot_counter \in Nat
      /\ sessions' = [sessions EXCEPT ![m].loots = Append(@, loot_counter)]
    BY StateFileAssumption DEF NewLoot, MemoryTyped
<1>2. /\ sessions = [n \in DOMAIN sessions |-> sessions[n]]
      /\ \A n \in DOMAIN sessions : sessions[n] \in Sessions
    BY OnMapsValues DEF MemoryTyped
<1>3. /\ DOMAIN sessions' = DOMAIN sessions /\ sessions'[m].loots = new
      /\ \A n \in DOMAIN sessions \ {m} : sessions'[n].loots = sessions[n].loots
    <2> HIDE DEF new
    <2>1. sessions' = [n \in DOMAIN sessions |->
            IF n = m THEN [sessions[m] EXCEPT !.loots = new] ELSE sessions[n]]
        BY <1>1, <1>2 DEF new
    <2>2. [sessions[m] EXCEPT !.loots = new].loots = new
        BY <1>2 DEF Sessions
    <2> QED BY <2>1, <2>2
<1>4. \A n \in DOMAIN sessions : \A i \in DOMAIN sessions[n].loots :
        sessions[n].loots[i] \in Nat /\ sessions[n].loots[i] < loot_counter
    <2>1. \A n \in DOMAIN sessions : sessions[n].loots \in Seq(Nat)
        BY <1>2 DEF Sessions
    <2>2. \A n \in DOMAIN sessions : \A i \in DOMAIN sessions[n].loots : sessions[n].loots[i] \in Nat
        BY <2>1, LenProperties, ElementOfSeq
    <2> QED BY <2>2 DEF LootsBelow
<1>5. /\ Len(old) \in Nat /\ DOMAIN old = 1 .. Len(old)
      /\ DOMAIN new = 1 .. place /\ new[place] = loot_counter
      /\ \A i \in 1 .. Len(old) : new[i] = old[i]
    <2>1. old \in Seq(Nat)
        BY <1>2 DEF Sessions
    <2>2. /\ new \in Seq(Nat) /\ Len(new) = place /\ new[place] = loot_counter
          /\ \A i \in 1 .. Len(old) : new[i] = old[i]
        BY <1>1, <2>1, AppendProperties
    <2> HIDE DEF old, new
    <2> QED BY <2>1, <2>2, LenProperties
<1>6. \A i \in 1 .. place : i = place \/ i \in 1 .. Len(old)
    BY <1>5
<1> HIDE DEF new, place
<1>7. \A n \in DOMAIN sessions' : \A i \in DOMAIN sessions'[n].loots :
        \/ n = m /\ i = place /\ sessions'[n].loots[i] = loot_counter
        \/ i \in DOMAIN sessions[n].loots /\ sessions'[n].loots[i] = sessions[n].loots[i]
    BY <1>3, <1>5, <1>6
<1> HIDE DEF old
<1>8. \A n \in DOMAIN sessions : \A i \in DOMAIN sessions[n].loots :
        sessions[n].loots[i] # loot_counter /\ sessions[n].loots[i] < loot_counter'
    BY <1>1, <1>4
<1>9. loot_counter < loot_counter'
    BY <1>1
<1>10. LootsBelow(sessions', loot_counter')
    BY <1>3, <1>7, <1>8, <1>9, Zenon DEF LootsBelow
<1>11. LootsApart(sessions')
    <2> SUFFICES ASSUME NEW k \in DOMAIN sessions', NEW n \in DOMAIN sessions',
                        NEW i \in DOMAIN sessions'[k].loots, NEW j \in DOMAIN sessions'[n].loots,
                        sessions'[k].loots[i] = sessions'[n].loots[j]
                 PROVE  k = n /\ i = j
        BY DEF LootsApart
    <2>1. CASE k = m /\ i = place /\ n = m /\ j = place
        BY <2>1
    <2>2. CASE ~(k = m /\ i = place) /\ ~(n = m /\ j = place)
        <3>1. /\ i \in DOMAIN sessions[k].loots /\ j \in DOMAIN sessions[n].loots
              /\ sessions[k].loots[i] = sessions[n].loots[j]
            BY <1>7, <2>2
        <3> QED BY <1>3, <3>1 DEF LootsApart
    <2>3. CASE (k = m /\ i = place) /\ ~(n = m /\ j = place)
        <3>1. sessions'[k].loots[i] = loot_counter
            BY <1>3, <1>5, <2>3
        <3>2. j \in DOMAIN sessions[n].loots /\ sessions'[n].loots[j] = sessions[n].loots[j]
            BY <1>7, <2>3
        <3> QED BY <1>3, <1>8, <3>1, <3>2
    <2>4. CASE ~(k = m /\ i = place) /\ (n = m /\ j = place)
        <3>1. sessions'[n].loots[j] = loot_counter
            BY <1>3, <1>5, <2>4
        <3>2. i \in DOMAIN sessions[k].loots /\ sessions'[k].loots[i] = sessions[k].loots[i]
            BY <1>7, <2>4
        <3> QED BY <1>3, <1>8, <3>1, <3>2
    <2> QED BY <2>1, <2>2, <2>3, <2>4
<1> QED BY <1>10, <1>11

LEMMA PickUpKeepsIds ==
    ASSUME MemoryTyped, LootsApart(sessions), LootsBelow(sessions, loot_counter),
           NEW m \in DOMAIN sessions, NEW d, PickUp(m, d)
    PROVE  LootsApart(sessions') /\ LootsBelow(sessions', loot_counter')
<1> DEFINE old == sessions[m].loots
           new == Tail(old)
<1>1. /\ loot_counter' = loot_counter /\ old # <<>>
      /\ sessions' = [sessions EXCEPT ![m].loots = Tail(@)]
    BY DEF PickUp
<1>2. /\ sessions = [n \in DOMAIN sessions |-> sessions[n]]
      /\ \A n \in DOMAIN sessions : sessions[n] \in Sessions
    BY OnMapsValues DEF MemoryTyped
<1>3. /\ DOMAIN sessions' = DOMAIN sessions /\ sessions'[m].loots = new
      /\ \A n \in DOMAIN sessions \ {m} : sessions'[n].loots = sessions[n].loots
    <2> HIDE DEF new
    <2>1. sessions' = [n \in DOMAIN sessions |->
            IF n = m THEN [sessions[m] EXCEPT !.loots = new] ELSE sessions[n]]
        BY <1>1, <1>2 DEF new
    <2>2. [sessions[m] EXCEPT !.loots = new].loots = new
        BY <1>2 DEF Sessions
    <2> QED BY <2>1, <2>2
<1>4. \A i \in DOMAIN new : i + 1 \in DOMAIN old /\ new[i] = old[i + 1] /\ i \in Int
    <2>1. old \in Seq(Nat) /\ old # <<>>
        BY <1>1, <1>2 DEF Sessions
    <2> HIDE DEF old
    <2>2. /\ new \in Seq(Nat) /\ Len(new) = Len(old) - 1
          /\ \A i \in 1 .. Len(new) : new[i] = old[i + 1]
        BY <2>1, HeadTailProperties
    <2>3. DOMAIN old = 1 .. Len(old) /\ Len(old) \in Nat /\ DOMAIN new = 1 .. Len(new)
        BY <2>1, <2>2, LenProperties
    <2> HIDE DEF new
    <2> QED BY <2>2, <2>3
<1> DEFINE place(n, i) == IF n = m THEN i + 1 ELSE i
<1>5. \A n \in DOMAIN sessions : \A i \in DOMAIN sessions'[n].loots :
        /\ place(n, i) \in DOMAIN sessions[n].loots
        /\ sessions'[n].loots[i] = sessions[n].loots[place(n, i)]
    BY <1>3, <1>4
<1>6. \A n \in DOMAIN sessions : \A i, j \in DOMAIN sessions'[n].loots :
        place(n, i) = place(n, j) => i = j
    <2>1. \A i, j \in DOMAIN new : i + 1 = j + 1 => i = j
        BY <1>4
    <2> HIDE DEF new
    <2> QED BY <1>3, <2>1
<1> HIDE DEF place
<1>7. LootsApart(sessions')
    <2> SUFFICES ASSUME NEW k \in DOMAIN sessions', NEW n \in DOMAIN sessions',
                        NEW i \in DOMAIN sessions'[k].loots, NEW j \in DOMAIN sessions'[n].loots,
                        sessions'[k].loots[i] = sessions'[n].loots[j]
                 PROVE  k = n /\ i = j
        BY DEF LootsApart
    <2>1. k \in DOMAIN sessions /\ n \in DOMAIN sessions
        BY <1>3
    <2>2. k = n /\ place(k, i) = place(n, j)
        BY <1>5, <2>1 DEF LootsApart
    <2> QED BY <1>6, <2>1, <2>2
<1>8. LootsBelow(sessions', loot_counter')
    BY <1>1, <1>3, <1>5 DEF LootsBelow
<1> QED BY <1>7, <1>8

\* A save without loot names none.
LEMMA LoadWithoutLoot ==
    ASSUME NEW text \in Texts, Reads(text), LoadState(text), text.loots = <<>>
    PROVE  \A m \in DOMAIN sessions' : DOMAIN sessions'[m].loots = {}
<1>1. sessions' = [m \in DOMAIN text.sessions |->
                      [id    |-> text.sessions[m].id,
                       loots |-> text.sessions[m].loots,
                       dogs  |-> RestoredDogs(text, m)]]
    BY DEF LoadState
<1>2. ASSUME NEW m \in DOMAIN text.sessions PROVE DOMAIN text.sessions[m].loots = {}
    <2> DEFINE list == text.sessions[m].loots
    <2>1. Matches(<<>>, list) = 0
        <3>1. {p \in (DOMAIN <<>>) \X (DOMAIN list) : <<>>[p[1]] = list[p[2]]} = {}
            OBVIOUS
        <3> QED BY <3>1, FS_EmptySet DEF Matches
    <2>2. Len(list) = 0
        BY <2>1 DEF Reads
    <2>3. list \in Seq(Nat)
        BY TextTyped DEF SavedSessions
    <2> QED BY <2>2, <2>3, LenProperties
<1> QED BY <1>1, <1>2

LEMMA LootsKept ==
    ASSUME Types, LootsInv, [Next]_vars
    PROVE  LootsInv'
<1> SUFFICES ASSUME "loots" \notin doubts'
             PROVE  LootsApart(sessions') /\ LootsBelow(sessions', loot_counter')
    BY DEF LootsInv
<1>1. "loots" \notin doubts
    BY DEF Next, AddDogToSession, PushPlayer, Update, UpdateStep, RemoveDog,
           ErasePlayer, RemovalSpins, RecordThrows, FinishUpdate, TimerFires, SaveStep, Open, WriteDogs,
           WriteSessions, WritePlayers, Signal, Stop, Crash, Start, vars
<1>2. LootsApart(sessions) /\ LootsBelow(sessions, loot_counter)
    BY <1>1 DEF LootsInv
<1>3. ASSUME loot_counter' = loot_counter,
             \A n \in DOMAIN sessions' :
                DOMAIN sessions'[n].loots = {} \/ (n \in DOMAIN sessions /\ sessions'[n].loots = sessions[n].loots)
      PROVE  LootsApart(sessions') /\ LootsBelow(sessions', loot_counter')
    BY <1>2, <1>3 DEF LootsApart, LootsBelow
<1>4. ASSUME \A n \in DOMAIN sessions' : DOMAIN sessions'[n].loots = {}
      PROVE  LootsApart(sessions') /\ LootsBelow(sessions', loot_counter')
    BY <1>4 DEF LootsApart, LootsBelow
<1>5. CASE \E m \in Maps, id \in SessionIds : AddDogToSession(m, id)
    <2>1. loot_counter' = loot_counter
        BY <1>5 DEF AddDogToSession
    <2> QED BY <1>3, <1>5, <2>1, AddDogLoots
<1>6. CASE Update
    <2>1. MemoryTyped /\ TickEffect
        BY <1>6 DEF Types, Update
    <2>2. DOMAIN sessions' = DOMAIN sessions
        BY <2>1, TickTyped
    <2>3. CASE \E m \in DOMAIN sessions : NewLoot(m)
        BY <1>2, <2>1, <2>3, NewLootKeepsIds
    <2>4. CASE \E m \in DOMAIN sessions : \E d \in ToSet(sessions[m].dogs) : PickUp(m, d)
        BY <1>2, <2>1, <2>4, PickUpKeepsIds
    <2>5. CASE /\ \A m \in DOMAIN sessions : sessions'[m].loots = sessions[m].loots
               /\ loot_counter' = loot_counter
        BY <1>3, <2>2, <2>5
    <2> QED BY <2>1, <2>3, <2>4, <2>5, TickLoots
<1>7. CASE Stop \/ Crash
    <2>1. DOMAIN sessions' = {}
        BY <1>7 DEF Stop, Crash, ForgetMemory
    <2> QED BY <1>4, <2>1
<1>8. CASE Start
    <2>1. CASE ForgetMemory
        <3>1. DOMAIN sessions' = {}
            BY <2>1 DEF ForgetMemory
        <3> QED BY <1>4, <3>1
    <2>2. CASE UNCHANGED memory
        BY <1>2, <2>2 DEF memory
    <2>3. CASE /\ Reads(file.text) /\ LoadState(file.text)
               /\ doubts' = doubts \cup Doubts(file.text)
        <3>1. "loots" \notin Doubts(file.text)
            BY <2>3
        <3>2. file.text.loots = <<>>
            BY <3>1 DEF Doubts
        <3>3. file.text \in Texts
            BY DEF Types, Files
        <3> QED BY <1>4, <2>3, <3>2, <3>3, LoadWithoutLoot
    <2> QED BY <1>8, <2>1, <2>2, <2>3 DEF Start
<1>9. CASE UNCHANGED <<sessions, loot_counter>>
    BY <1>2, <1>9
<1>11. CASE RemoveDog
    <2>1. loot_counter' = loot_counter
        BY <1>11 DEF RemoveDog
    <2>2. /\ DOMAIN sessions' = DOMAIN sessions
          /\ \A n \in DOMAIN sessions : sessions'[n].loots = sessions[n].loots
        BY <1>11, RemoveDogProperties DEF Types
    <2> QED BY <1>3, <2>1, <2>2
<1>12. CASE ErasePlayer \/ RemovalSpins \/ RecordThrows \/ FinishUpdate
    BY <1>9, <1>12 DEF ErasePlayer, RemovalSpins, RecordThrows, FinishUpdate, memory
<1>10. CASE PushPlayer \/ TimerFires \/ Signal \/ (\E w \in Writers : SaveStep(w)) \/ UNCHANGED vars
    BY <1>9, <1>10 DEF PushPlayer, TimerFires, Signal, SaveStep, Open, WriteDogs, WriteSessions,
        WritePlayers, vars, memory
<1> QED BY <1>5, <1>6, <1>7, <1>8, <1>10, <1>11, <1>12 DEF Next, UpdateStep

LEMMA LootsInitially == Init => LootsInv
BY DEF Init, LootsInv, LootsApart, LootsBelow

-----------------------------------------------------------------------------
(* What a save that nothing overlaps holds.                                *)

NoRepeats(list) == \A k, l \in DOMAIN list : list[k] = list[l] => k = l
HeldApart(ss) ==
    \A m, n \in DOMAIN ss : \A a \in DOMAIN ss[m], b \in DOMAIN ss[n] :
        ss[m][a] = ss[n][b] => m = n /\ a = b

\* What sessions hold at different places is at different places of their flat sequence.
LEMMA FlatSessionsApart ==
    ASSUME NEW S, NEW ss, DOMAIN ss \subseteq Maps, \A m \in DOMAIN ss : ss[m] \in Seq(S),
           NEW order \in SetToSeqs(DOMAIN ss), HeldApart(ss)
    PROVE  NoRepeats(FlattenSeq([i \in DOMAIN order |-> ss[order[i]]]))
<1> DEFINE n == Cardinality(DOMAIN ss)
           seqs == [i \in DOMAIN order |-> ss[order[i]]]
<1>1. /\ n \in Nat /\ DOMAIN order = 1 .. n
      /\ \A i \in 1 .. n : order[i] \in DOMAIN ss
      /\ \A i, j \in 1 .. n : order[i] = order[j] => i = j
    BY OrderProperties
<1> HIDE DEF n
<1>2. DOMAIN seqs = 1 .. n /\ \A i \in 1 .. n : seqs[i] = ss[order[i]]
    BY <1>1
<1>3. seqs \in Seq(Seq(S)) /\ Len(seqs) = n
    <2>1. seqs = [i \in 1 .. n |-> seqs[i]] /\ \A i \in 1 .. n : seqs[i] \in Seq(S)
        BY <1>1
    <2> QED BY <1>1, <2>1, FunctionIsSequence
<1> HIDE DEF seqs
<1>4. Apart(seqs)
    <2> SUFFICES ASSUME NEW i \in 1 .. n, NEW j \in 1 .. n,
                        NEW a \in DOMAIN seqs[i], NEW b \in DOMAIN seqs[j], seqs[i][a] = seqs[j][b]
                 PROVE  i = j /\ a = b
        BY <1>2 DEF Apart
    <2>1. order[i] = order[j] /\ a = b
        BY <1>1, <1>2 DEF HeldApart
    <2> QED BY <1>1, <2>1
<1> DEFINE flat == FlattenSeq(seqs)
<1>5. FlatUpTo(flat, seqs, n)
    BY <1>3, FlattenSeqProperties
<1> HIDE DEF flat
<1>6. NoRepeats(flat)
    BY <1>4, <1>5 DEF FlatUpTo, NoRepeats
<1> QED BY <1>6 DEF flat, seqs

\* Each id of a list is that of one of the objects restored: as many pairs as ids.
LEMMA MatchesOnce ==
    ASSUME NEW restored, NoRepeats(restored),
           NEW ids, NEW n \in Nat, DOMAIN ids = 1 .. n,
           \A j \in 1 .. n : \E k \in DOMAIN restored : restored[k] = ids[j]
    PROVE  Matches(restored, ids) = n
<1> DEFINE pairs == {p \in (DOMAIN restored) \X (DOMAIN ids) : restored[p[1]] = ids[p[2]]}
           place(j) == CHOOSE k \in DOMAIN restored : restored[k] = ids[j]
           pair == [j \in 1 .. n |-> <<place(j), j>>]
<1>1. \A j \in 1 .. n : place(j) \in DOMAIN restored /\ restored[place(j)] = ids[j]
    OBVIOUS
<1> HIDE DEF place
<1>2. \A j \in 1 .. n : pair[j] = <<place(j), j>> /\ pair[j] \in pairs
    BY <1>1
<1>3. pair \in [1 .. n -> pairs]
    BY <1>2
<1>4. \A p \in pairs : \E j \in 1 .. n : pair[j] = p
    <2> SUFFICES ASSUME NEW p \in pairs
                 PROVE  \E j \in 1 .. n : pair[j] = p
        OBVIOUS
    <2>1. p = <<p[1], p[2]>> /\ p[1] \in DOMAIN restored /\ p[2] \in 1 .. n /\ restored[p[1]] = ids[p[2]]
        OBVIOUS
    <2>2. p[1] = place(p[2])
        BY <1>1, <2>1 DEF NoRepeats
    <2> QED BY <1>2, <2>1, <2>2
<1>5. \A i, j \in 1 .. n : pair[i] = pair[j] => i = j
    BY <1>2
<1> HIDE DEF pair, pairs
<1>6. pair \in Bijection(1 .. n, pairs)
    BY <1>3, <1>4, <1>5 DEF Bijection, Injection, IsInjective, Surjection
<1>7. ExistsBijection(1 .. n, pairs)
    BY <1>6 DEF ExistsBijection
<1>8. Cardinality(pairs) = n
    BY <1>7, FS_CountingElements
<1> QED BY <1>8 DEF Matches, pairs
\* The loot and the dogs of all sessions, each once, and the sessions as they are.
LootsIn(text) ==
    /\ NoRepeats(text.loots)
    /\ \A m \in DOMAIN sessions : \A i \in DOMAIN sessions[m].loots :
          \E k \in DOMAIN text.loots : text.loots[k] = sessions[m].loots[i]
DogsIn(text) ==
    /\ NoRepeats(DogIds(text))
    /\ \A m \in DOMAIN sessions : \A i \in DOMAIN sessions[m].dogs :
          Names(text, sessions[m].dogs[i].id)
SessionsIn(text) == text.sessions = [m \in DOMAIN sessions |-> SessionRepr(sessions[m])]

\* A save that is being written holds the game as it is.
TextInv ==
    doubts = {} => \A w \in Writers :
        /\ IsWriting(w) => writer[w].from = Facts /\ LootsIn(writer[w].text)
        /\ writer[w].at \in {"sessions", "players"} => DogsIn(writer[w].text)
        /\ writer[w].at = "players" => SessionsIn(writer[w].text)

\* A save tells of some players: the token, the dog and the map of each.
OfPlayer(text, i, fact) ==
    /\ fact = [token |-> text.players[i].token, dog |-> text.players[i].dog, map |-> fact.map]
    /\ fact.map \in DOMAIN text.sessions
    /\ text.sessions[fact.map].id = text.players[i].session
Tells(text, facts) ==
    /\ \A i \in DOMAIN text.players : \E fact \in facts : OfPlayer(text, i, fact)
    /\ \A fact \in facts : \E i \in DOMAIN text.players : OfPlayer(text, i, fact)

\* A save that was completed while no dog carried loot can be read, and tells of the
\* players that were promised.
FileInv ==
    (/\ doubts = {} /\ promise.given /\ file # NoFile
     /\ file.text.loot_count = Len(file.text.loots)) =>
        /\ file.kind = "text"
        /\ Reads(file.text)
        /\ promise.from = promise.to
        /\ Tells(file.text, promise.from)

LEMMA OpenWritesLoots ==
    ASSUME Types, LootsApart(sessions), NEW w \in Writers, Open(w)
    PROVE  writer'[w].from = Facts /\ LootsIn(writer'[w].text)
<1>1. PICK order \in SetToSeqs(DOMAIN sessions) :
         LET loots == FlattenSeq([i \in DOMAIN order |-> sessions[order[i]].loots])
             inBags == {d \in UNION {ToSet(sessions[m].dogs) : m \in DOMAIN sessions} :
                          d.who \in bags}
             text == [Blank EXCEPT !.loots = loots,
                                   !.loot_count = Len(loots) + Cardinality(inBags)]
         IN  writer' = [v \in Writers |->
                          IF v = w
                          THEN [at |-> "dogs", text |-> text, from |-> Facts,
                                alone |-> ~IsWriting(Other(w))]
                          ELSE [writer[v] EXCEPT !.alone = FALSE]]
    BY DEF Open
<1> DEFINE held == [m \in DOMAIN sessions |-> sessions[m].loots]
           loots == FlattenSeq([i \in DOMAIN order |-> sessions[order[i]].loots])
           inBags == {d \in UNION {ToSet(sessions[m].dogs) : m \in DOMAIN sessions} : d.who \in bags}
           text == [Blank EXCEPT !.loots = loots, !.loot_count = Len(loots) + Cardinality(inBags)]
<1>2. DOMAIN sessions \subseteq Maps /\ \A m \in DOMAIN sessions : sessions[m] \in Sessions
    BY OnMapsValues DEF Types, MemoryTyped
<1>3. /\ loots \in Seq(Nat) /\ Len(loots) \in Nat /\ NoRepeats(loots)
      /\ ToSet(loots) = UNION {ToSet(held[m]) : m \in DOMAIN sessions}
    <2>1. DOMAIN held = DOMAIN sessions /\ \A m \in DOMAIN held : held[m] \in Seq(Nat)
        BY <1>2 DEF Sessions
    <2>2. [i \in DOMAIN order |-> sessions[order[i]].loots] = [i \in DOMAIN order |-> held[order[i]]]
        <3>1. \A i \in DOMAIN order : order[i] \in DOMAIN sessions
            BY <1>2, OrderProperties
        <3> QED BY <3>1
    <2>3. order \in SetToSeqs(DOMAIN held) /\ DOMAIN held \subseteq Maps
        BY <1>2, <2>1
    <2>4. HeldApart(held)
        BY DEF HeldApart, LootsApart
    <2> DEFINE flat == FlattenSeq([i \in DOMAIN order |-> held[order[i]]])
    <2>5. loots = flat
        BY <2>2
    <2> HIDE DEF held, loots
    <2>6. flat \in Seq(Nat) /\ ToSet(flat) = UNION {ToSet(held[m]) : m \in DOMAIN held}
        BY <2>1, <2>3, FlatSessions
    <2>7. NoRepeats(flat)
        BY <2>1, <2>3, <2>4, FlatSessionsApart
    <2> HIDE DEF flat
    <2> QED BY <2>1, <2>5, <2>6, <2>7, LenProperties
<1>4. \A m \in DOMAIN sessions : \A i \in DOMAIN sessions[m].loots :
          \E k \in DOMAIN loots : loots[k] = sessions[m].loots[i]
    <2> SUFFICES ASSUME NEW m \in DOMAIN sessions, NEW i \in DOMAIN sessions[m].loots
                 PROVE  \E k \in DOMAIN loots : loots[k] = sessions[m].loots[i]
        OBVIOUS
    <2>1. sessions[m].loots[i] \in ToSet(held[m])
        BY DEF ToSet
    <2> HIDE DEF loots, held
    <2>2. sessions[m].loots[i] \in ToSet(loots)
        BY <1>3, <2>1
    <2> QED BY <2>2 DEF ToSet
<1> HIDE DEF loots, inBags
<1>5. text.loots = loots
    BY DEF Blank
<1> HIDE DEF text
<1>6. writer'[w].from = Facts /\ writer'[w].text = text
    BY <1>1 DEF text, loots, inBags
<1> QED BY <1>3, <1>4, <1>5, <1>6 DEF LootsIn

LEMMA WriteDogsWritesDogs ==
    ASSUME Types, IdsApart(sessions), NEW w \in Writers, WriteDogs(w)
    PROVE  DogsIn(writer'[w].text)
<1>1. PICK order \in SetToSeqs(DOMAIN sessions) :
         writer' = [writer EXCEPT ![w].at = "sessions",
            ![w].text.dogs = FlattenSeq([i \in DOMAIN order |-> sessions[order[i]].dogs])]
    BY DEF WriteDogs
<1> DEFINE dogs == FlattenSeq([i \in DOMAIN order |-> sessions[order[i]].dogs])
           held == [m \in DOMAIN sessions |-> sessions[m].dogs]
           text == writer'[w].text
<1>2. DOMAIN sessions \subseteq Maps /\ \A m \in DOMAIN sessions : sessions[m] \in Sessions
    BY OnMapsValues DEF Types, MemoryTyped
<1>3. NoRepeats(dogs) /\ ToSet(dogs) = UNION {ToSet(held[m]) : m \in DOMAIN sessions}
    <2>1. DOMAIN held = DOMAIN sessions /\ \A m \in DOMAIN held : held[m] \in Seq(Dogs)
        BY <1>2 DEF Sessions
    <2>2. [i \in DOMAIN order |-> sessions[order[i]].dogs] = [i \in DOMAIN order |-> held[order[i]]]
        <3>1. \A i \in DOMAIN order : order[i] \in DOMAIN sessions
            BY <1>2, OrderProperties
        <3> QED BY <3>1
    <2>3. order \in SetToSeqs(DOMAIN held) /\ DOMAIN held \subseteq Maps
        BY <1>2, <2>1
    <2>4. HeldApart(held)
        BY DEF HeldApart, IdsApart
    <2> DEFINE flat == FlattenSeq([i \in DOMAIN order |-> held[order[i]]])
    <2>5. dogs = flat
        BY <2>2
    <2> HIDE DEF held, dogs
    <2>6. ToSet(flat) = UNION {ToSet(held[m]) : m \in DOMAIN held}
        BY <2>1, <2>3, FlatSessions
    <2>7. NoRepeats(flat)
        BY <2>1, <2>3, <2>4, FlatSessionsApart
    <2> HIDE DEF flat
    <2> QED BY <2>1, <2>5, <2>6, <2>7
<1> HIDE DEF dogs
<1>4. text.dogs = dogs
    BY <1>1 DEF Types, Writings, Texts, dogs
<1> HIDE DEF text
<1>5. \A k \in DOMAIN dogs : \E m \in DOMAIN sessions : \E i \in DOMAIN sessions[m].dogs :
          dogs[k] = sessions[m].dogs[i]
    <2> SUFFICES ASSUME NEW k \in DOMAIN dogs
                 PROVE  \E m \in DOMAIN sessions : \E i \in DOMAIN sessions[m].dogs :
                            dogs[k] = sessions[m].dogs[i]
        OBVIOUS
    <2>1. PICK m \in DOMAIN sessions : dogs[k] \in ToSet(held[m])
        BY <1>3 DEF ToSet
    <2> QED BY <2>1 DEF ToSet
<1>6. NoRepeats(DogIds(text))
    <2> SUFFICES ASSUME NEW k \in DOMAIN dogs, NEW l \in DOMAIN dogs, dogs[k].id = dogs[l].id
                 PROVE  k = l
        BY <1>4 DEF NoRepeats, DogIds
    <2>1. PICK m \in DOMAIN sessions : \E i \in DOMAIN sessions[m].dogs : dogs[k] = sessions[m].dogs[i]
        BY <1>5
    <2>2. PICK n \in DOMAIN sessions : \E j \in DOMAIN sessions[n].dogs : dogs[l] = sessions[n].dogs[j]
        BY <1>5
    <2>3. dogs[k] = dogs[l]
        BY <2>1, <2>2 DEF IdsApart
    <2> QED BY <1>3, <2>3 DEF NoRepeats
<1>7. \A m \in DOMAIN sessions : \A i \in DOMAIN sessions[m].dogs : Names(text, sessions[m].dogs[i].id)
    <2> SUFFICES ASSUME NEW m \in DOMAIN sessions, NEW i \in DOMAIN sessions[m].dogs
                 PROVE  \E k \in DOMAIN dogs : dogs[k].id = sessions[m].dogs[i].id
        BY <1>4 DEF Names
    <2>1. sessions[m].dogs[i] \in ToSet(held[m])
        BY DEF ToSet
    <2> HIDE DEF held
    <2>2. sessions[m].dogs[i] \in ToSet(dogs)
        BY <1>3, <2>1
    <2> QED BY <2>2 DEF ToSet
<1> QED BY <1>6, <1>7 DEF DogsIn, text
\* The doubts only grow.
LEMMA DoubtsStay ==
    ASSUME [Next]_vars, doubts' = {}
    PROVE  doubts = {}
BY DEF Next, AddDogToSession, PushPlayer, Update, UpdateStep, RemoveDog,
           ErasePlayer, RemovalSpins, RecordThrows, FinishUpdate, TimerFires, SaveStep, Open, WriteDogs,
       WriteSessions, WritePlayers, Signal, Stop, Crash, Start, vars

LEMMA TextKept ==
    ASSUME SavesAlone, Types, AloneInv, DogsInv, LootsInv, TextInv, [Next]_vars
    PROVE  TextInv'
<1> SUFFICES ASSUME doubts' = {}
             PROVE  TextInv'
    BY DEF TextInv
<1>1. /\ doubts = {} /\ IdsApart(sessions) /\ LootsApart(sessions)
      /\ \A w \in Writers :
            /\ IsWriting(w) => writer[w].from = Facts /\ LootsIn(writer[w].text)
            /\ writer[w].at \in {"sessions", "players"} => DogsIn(writer[w].text)
            /\ writer[w].at = "players" => SessionsIn(writer[w].text)
    BY DoubtsStay DEF TextInv, DogsInv, LootsInv
<1>2. ASSUME \A w \in Writers : writer'[w].at \notin {"dogs", "sessions", "players"}
      PROVE  TextInv'
    BY <1>2 DEF TextInv, IsWriting
\* One writer goes on, the other is not at work.
<1>3. ASSUME NEW w \in Writers, UNCHANGED <<sessions, players>>,
             writer'[w].from = Facts, LootsIn(writer'[w].text),
             writer'[w].at \in {"sessions", "players"} => DogsIn(writer'[w].text),
             writer'[w].at = "players" => SessionsIn(writer'[w].text),
             \A v \in Writers \ {w} : writer'[v].at \notin {"dogs", "sessions", "players"}
      PROVE  TextInv'
    <2>1. Facts' = Facts
        BY <1>3 DEF Facts
    <2>2. /\ writer'[w].from = Facts' /\ LootsIn(writer[w].text)'
          /\ writer'[w].at \in {"sessions", "players"} => DogsIn(writer[w].text)'
          /\ writer'[w].at = "players" => SessionsIn(writer[w].text)'
        BY <1>3, <2>1 DEF LootsIn, DogsIn, SessionsIn, Names, DogIds
    <2>3. \A v \in Writers : v # w => writer'[v].at \notin {"dogs", "sessions", "players"}
        BY <1>3
    <2> SUFFICES ASSUME NEW v \in Writers
                 PROVE  /\ IsWriting(v)' => writer'[v].from = Facts' /\ LootsIn(writer[v].text)'
                        /\ writer'[v].at \in {"sessions", "players"} => DogsIn(writer[v].text)'
                        /\ writer'[v].at = "players" => SessionsIn(writer[v].text)'
        BY DEF TextInv
    <2>4. CASE v = w
        BY <2>2, <2>4
    <2>5. CASE v # w
        BY <2>3, <2>5 DEF IsWriting
    <2> QED BY <2>4, <2>5
<1>4. CASE \/ \E m \in Maps, id \in SessionIds : AddDogToSession(m, id)
           \/ PushPlayer \/ Update \/ UpdateStep \/ TimerFires
    <2>1. \A w \in Writers : writer[w].at \in {"no", "open"} \/ writer[w].at = "done"
        <3>1. CASE UpdateStep
            <4>1. update \in {"tick", "remove"}
                BY <3>1 DEF UpdateStep, RemoveDog, ErasePlayer, RemovalSpins, RecordThrows, FinishUpdate
            <4> QED BY <4>1 DEF AloneInv, Resting
        <3>2. CASE PushPlayer
            <4>1. joining # {}
                BY <3>2 DEF PushPlayer
            <4> QED BY <4>1 DEF AloneInv
        <3>3. CASE (\E m \in Maps, id \in SessionIds : AddDogToSession(m, id)) \/ Update \/ TimerFires
            <4>1. writer["signal"].at = "no"
                BY <3>3 DEF SavesAlone, AddDogToSession, ApiRuns, Update, TimerFires, Stopping
            <4>2. writer["update"].at = "no"
                <5>1. CASE \E m \in Maps, id \in SessionIds : AddDogToSession(m, id)
                    BY <5>1 DEF AloneInv, AddDogToSession, ApiRuns
                <5>2. CASE Update \/ TimerFires
                    BY <5>2 DEF Update, TimerFires
                <5> QED BY <3>3, <5>1, <5>2
            <4> QED BY <4>1, <4>2, WritersAreTwo
        <3> QED BY <1>4, <3>1, <3>2, <3>3
    <2>2. writer' = writer \/ writer' = [writer EXCEPT !["update"].at = "open"]
        BY <1>4 DEF AddDogToSession, PushPlayer, Update, UpdateStep, RemoveDog, ErasePlayer,
            RemovalSpins, RecordThrows, FinishUpdate, TimerFires
    <2>3. \A w \in Writers : writer'[w].at = writer[w].at \/ writer'[w].at = "open"
        BY <2>2 DEF Types, Writings
    <2> QED BY <1>2, <2>1, <2>3
<1>5. ASSUME NEW w \in Writers, writer[w].at # "no"
      PROVE  \A v \in Writers \ {w} : writer[v].at = "no"
    BY <1>5, WritersAreTwo DEF AloneInv
<1>6. ASSUME NEW w \in Writers, Open(w)
      PROVE  TextInv'
    <2>1. UNCHANGED <<sessions, players>> /\ writer[w].at = "open"
        BY <1>6 DEF Open, memory
    <2>2. writer'[w].from = Facts /\ LootsIn(writer'[w].text)
        BY <1>1, <1>6, OpenWritesLoots
    <2>3. writer'[w].at = "dogs" /\ \A v \in Writers \ {w} : writer'[v].at = writer[v].at
        <3>1. \E text : writer' = [v \in Writers |->
                          IF v = w
                          THEN [at |-> "dogs", text |-> text, from |-> Facts,
                                alone |-> ~IsWriting(Other(w))]
                          ELSE [writer[v] EXCEPT !.alone = FALSE]]
            BY <1>6 DEF Open
        <3>2. \A v \in Writers : [writer[v] EXCEPT !.alone = FALSE].at = writer[v].at
            BY DEF Types, Writings
        <3>3. writer'[w].at = "dogs"
            BY <3>1
        <3>4. \A v \in Writers \ {w} : writer'[v] = [writer[v] EXCEPT !.alone = FALSE]
            BY <3>1
        <3> QED BY <3>2, <3>3, <3>4
    <2>4. \A v \in Writers \ {w} : writer'[v].at = "no"
        BY <1>5, <2>1, <2>3
    <2> QED BY <1>3, <2>1, <2>2, <2>3, <2>4
<1>7. ASSUME NEW w \in Writers, WriteDogs(w)
      PROVE  TextInv'
    <2>1. UNCHANGED <<sessions, players>> /\ writer[w].at = "dogs"
        BY <1>7 DEF WriteDogs, memory
    <2>2. DogsIn(writer'[w].text)
        BY <1>1, <1>7, WriteDogsWritesDogs
    <2>3. \E dogs : writer' = [writer EXCEPT ![w].at = "sessions", ![w].text.dogs = dogs]
        BY <1>7 DEF WriteDogs
    <2>4. /\ writer'[w].at = "sessions" /\ writer'[w].from = writer[w].from
          /\ writer'[w].text.loots = writer[w].text.loots
          /\ \A v \in Writers \ {w} : writer'[v] = writer[v]
        BY <2>3 DEF Types, Writings, Texts
    <2>5. writer'[w].from = Facts /\ LootsIn(writer'[w].text)
        BY <1>1, <2>1, <2>4 DEF IsWriting, LootsIn
    <2>6. \A v \in Writers \ {w} : writer'[v].at = "no"
        BY <1>5, <2>1, <2>4
    <2> QED BY <1>3, <2>1, <2>2, <2>4, <2>5, <2>6
<1>8. ASSUME NEW w \in Writers, WriteSessions(w)
      PROVE  TextInv'
    <2> DEFINE saved == [m \in DOMAIN sessions |-> SessionRepr(sessions[m])]
    <2>1. UNCHANGED <<sessions, players>> /\ writer[w].at = "sessions"
        BY <1>8 DEF WriteSessions, memory
    <2>2. writer' = [writer EXCEPT ![w].at = "players", ![w].text.sessions = saved]
        BY <1>8 DEF WriteSessions
    <2> HIDE DEF saved
    <2>3. /\ writer'[w].at = "players" /\ writer'[w].from = writer[w].from
          /\ writer'[w].text.loots = writer[w].text.loots
          /\ writer'[w].text.dogs = writer[w].text.dogs
          /\ writer'[w].text.sessions = saved
          /\ \A v \in Writers \ {w} : writer'[v] = writer[v]
        BY <2>2 DEF Types, Writings, Texts
    <2>4. writer'[w].from = Facts /\ LootsIn(writer'[w].text)
        BY <1>1, <2>1, <2>3 DEF IsWriting, LootsIn
    <2>5. DogsIn(writer'[w].text)
        BY <1>1, <2>1, <2>3 DEF DogsIn, DogIds, Names
    <2>6. SessionsIn(writer'[w].text)
        BY <2>3 DEF SessionsIn, saved
    <2>7. \A v \in Writers \ {w} : writer'[v].at = "no"
        BY <1>5, <2>1, <2>3
    <2> QED BY <1>3, <2>1, <2>3, <2>4, <2>5, <2>6, <2>7
<1>9. ASSUME NEW w \in Writers, WritePlayers(w)
      PROVE  TextInv'
    <2>1. /\ writer[w].at = "players"
          /\ writer' = [writer EXCEPT ![w] = [Idle EXCEPT !.at = IF w = "signal" THEN "done" ELSE "no"]]
        BY <1>9 DEF WritePlayers
    <2>2. /\ writer'[w].at \in {"done", "no"}
          /\ \A v \in Writers \ {w} : writer'[v] = writer[v]
        BY <2>1 DEF Types, Idle
    <2>3. \A v \in Writers \ {w} : writer'[v].at = "no"
        BY <1>5, <2>1, <2>2
    <2> QED BY <1>2, <2>2, <2>3
<1>10. CASE Signal
    <2>1. \A w \in Writers : writer[w].at = "no"
        BY <1>10, WritersAreTwo DEF Signal, SavesAlone
    <2>2. writer' = [writer EXCEPT !["signal"].at = "open"]
        BY <1>10 DEF Signal
    <2>3. \A w \in Writers : writer'[w].at \in {"no", "open"}
        BY <2>1, <2>2 DEF Types, Writings
    <2> QED BY <1>2, <2>3
<1>11. CASE Stop \/ Crash
    BY <1>2, <1>11 DEF Stop, Crash, Idle
<1>12. CASE Start
    <2>1. \A w \in Writers : ~IsWriting(w)
        BY <1>12 DEF Start, Types
    <2>2. writer' = writer
        BY <1>12 DEF Start
    <2> QED BY <1>2, <2>1, <2>2 DEF IsWriting
<1>13. CASE UNCHANGED vars
    <2>1. UNCHANGED <<sessions, players, writer>>
        BY <1>13 DEF vars, memory
    <2>2. Facts' = Facts
        BY <2>1 DEF Facts
    <2> QED BY <1>1, <2>1, <2>2 DEF TextInv, IsWriting, LootsIn, DogsIn, SessionsIn
<1>14. CASE \E w \in Writers : SaveStep(w)
    BY <1>6, <1>7, <1>8, <1>9, <1>14 DEF SaveStep
<1> QED BY <1>4, <1>10, <1>11, <1>12, <1>13, <1>14 DEF Next
\* A save that holds the game as it is can be read.
LEMMA SaveReads ==
    ASSUME MemoryTyped, InGame, parted = {}, update # "remove", NEW text,
           text.loot_count = Len(text.loots), LootsIn(text), DogsIn(text), SessionsIn(text),
           text.players = [i \in DOMAIN players |-> PlayerRepr(players[i])]
    PROVE  Reads(text)
<1>1. DOMAIN sessions \subseteq Maps /\ \A m \in DOMAIN sessions : sessions[m] \in Sessions
    BY OnMapsValues DEF MemoryTyped
<1>2. /\ DOMAIN text.sessions = DOMAIN sessions
      /\ \A m \in DOMAIN sessions :
            /\ text.sessions[m].id = sessions[m].id
            /\ text.sessions[m].loots = sessions[m].loots
            /\ text.sessions[m].dogs = [i \in DOMAIN sessions[m].dogs |-> sessions[m].dogs[i].id]
    BY DEF SessionsIn, SessionRepr
<1>3. ASSUME NEW m \in DOMAIN sessions
      PROVE  Matches(text.loots, text.sessions[m].loots) = Len(text.sessions[m].loots)
    <2> DEFINE ids == sessions[m].loots
    <2>1. text.sessions[m].loots = ids
        BY <1>2
    <2>2. Len(ids) \in Nat /\ DOMAIN ids = 1 .. Len(ids)
        BY <1>1, LenProperties DEF Sessions
    <2>3. NoRepeats(text.loots) /\ \A j \in DOMAIN ids : \E k \in DOMAIN text.loots : text.loots[k] = ids[j]
        BY DEF LootsIn
    <2> HIDE DEF ids
    <2>4. Matches(text.loots, ids) = Len(ids)
        BY <2>2, <2>3, MatchesOnce
    <2> QED BY <2>1, <2>4
<1>4. ASSUME NEW m \in DOMAIN sessions
      PROVE  Matches(DogIds(text), text.sessions[m].dogs) = Len(text.sessions[m].dogs)
    <2> DEFINE dogs == sessions[m].dogs
               ids == [i \in DOMAIN dogs |-> dogs[i].id]
               n == Len(dogs)
    <2>1. text.sessions[m].dogs = ids
        BY <1>2
    <2>2. n \in Nat /\ DOMAIN dogs = 1 .. n /\ \A i \in 1 .. n : dogs[i] \in Dogs
        <3>1. dogs \in Seq(Dogs)
            BY <1>1 DEF Sessions
        <3> HIDE DEF dogs
        <3> QED BY <3>1, LenProperties, ElementOfSeq
    <2>3. \A j \in 1 .. n : \E k \in DOMAIN DogIds(text) : DogIds(text)[k] = ids[j]
        <3>1. \A j \in 1 .. n : Names(text, ids[j])
            BY <2>2 DEF DogsIn
        <3> HIDE DEF ids
        <3> QED BY <3>1 DEF Names, DogIds
    <2>4. DOMAIN ids = 1 .. n /\ ids = [i \in 1 .. n |-> ids[i]] /\ \A i \in 1 .. n : ids[i] \in Nat
        BY <2>2 DEF Dogs
    <2> HIDE DEF dogs, ids, n
    <2>5. Len(ids) = n
        BY <2>2, <2>4, FunctionIsSequence
    <2>6. NoRepeats(DogIds(text))
        BY DEF DogsIn
    <2>7. Matches(DogIds(text), ids) = n
        BY <2>2, <2>3, <2>4, <2>6, MatchesOnce
    <2> QED BY <2>1, <2>5, <2>7
<1>5. ASSUME NEW i \in DOMAIN players
      PROVE  /\ text.players[i].dog \in ToSet(DogIds(text))
             /\ \E m \in DOMAIN text.sessions : text.sessions[m].id = text.players[i].session
    <2> DEFINE p == players[i]
    <2>1. p \in Everyone
        BY DEF Everyone
    <2>2. p.session \in DOMAIN sessions /\ Has(sessions, p)
        BY <2>1, EveryoneTyped DEF InGame, Keeps, Leaving, PlayersOf
    <2>3. text.players[i].dog = p.dog.id /\ text.players[i].session = sessions[p.session].id
        BY DEF PlayerRepr
    <2> HIDE DEF p
    <2>4. Names(text, p.dog.id)
        BY <2>2 DEF Has, DogsIn
    <2>5. p.dog.id \in ToSet(DogIds(text))
        BY <2>4 DEF Names, ToSet, DogIds
    <2>6. text.sessions[p.session].id = sessions[p.session].id
        BY <1>2, <2>2
    <2> QED BY <1>2, <2>2, <2>3, <2>5, <2>6
<1>6. DOMAIN text.players = DOMAIN players
    OBVIOUS
<1> QED BY <1>2, <1>3, <1>4, <1>5, <1>6 DEF Reads

\* It tells of the players of the game.
LEMMA SaveTells ==
    ASSUME MemoryTyped, NEW text, SessionsIn(text),
           text.players = [i \in DOMAIN players |-> PlayerRepr(players[i])]
    PROVE  Tells(text, Facts)
<1> DEFINE Fact(i) == [token |-> players[i].token, dog |-> players[i].dog.id, map |-> players[i].session]
<1>1. /\ DOMAIN text.sessions = DOMAIN sessions
      /\ \A m \in DOMAIN sessions : text.sessions[m].id = sessions[m].id
    BY DEF SessionsIn, SessionRepr
<1>2. ASSUME NEW i \in DOMAIN players PROVE OfPlayer(text, i, Fact(i))
    <2>1. players[i] \in PlayersOf(sessions)
        BY LenProperties, ElementOfSeq DEF MemoryTyped
    <2>2. players[i].session \in DOMAIN sessions
        BY <2>1 DEF PlayersOf
    <2>3. /\ text.players[i].token = players[i].token /\ text.players[i].dog = players[i].dog.id
          /\ text.players[i].session = sessions[players[i].session].id
        BY DEF PlayerRepr
    <2> QED BY <1>1, <2>2, <2>3 DEF OfPlayer
<1>3. Facts = {Fact(i) : i \in DOMAIN players}
    BY DEF Facts, ToSet
<1>4. DOMAIN text.players = DOMAIN players
    OBVIOUS
<1> HIDE DEF Fact
<1> QED BY <1>2, <1>3, <1>4 DEF Tells

LEMMA FileKept ==
    ASSUME Types, AloneInv, PlayersInv, TextInv, FileInv, [Next]_vars
    PROVE  FileInv'
<1> SUFFICES ASSUME doubts' = {}, promise'.given, file' # NoFile,
                    file'.text.loot_count = Len(file'.text.loots)
             PROVE  /\ file'.kind = "text" /\ Reads(file'.text)
                    /\ promise'.from = promise'.to /\ Tells(file'.text, promise'.from)
    BY DEF FileInv, Tells, OfPlayer, Reads, DogIds
<1>1. doubts = {}
    BY DoubtsStay
<1>2. CASE UNCHANGED disk
    BY <1>1, <1>2 DEF FileInv, disk
<1>3. ASSUME NEW w \in Writers, Open(w)
      PROVE  FALSE
    BY <1>3 DEF Open, NoPromise
<1>4. ASSUME NEW w \in Writers, WritePlayers(w)
      PROVE  /\ file'.kind = "text" /\ Reads(file'.text)
             /\ promise'.from = promise'.to /\ Tells(file'.text, promise'.from)
    <2> DEFINE old == writer[w].text
               text == [old EXCEPT !.players = [i \in DOMAIN players |-> PlayerRepr(players[i])]]
    <2>1. writer[w].at = "players" /\ IsWriting(w)
        BY <1>4 DEF WritePlayers, IsWriting
    <2>2. file' = Written(text)
        <3> HIDE DEF text
        <3>1. file' \in CASE file = NoFile    -> {NoFile}
                          [] writer[w].alone -> {Written(text)}
                          [] OTHER           -> {Written(text), Torn}
            BY <1>4 DEF WritePlayers, text
        <3>2. writer[w].alone
            BY <2>1 DEF AloneInv
        <3> QED BY <3>1, <3>2
    <2>3. /\ writer[w].from = Facts /\ LootsIn(old) /\ DogsIn(old) /\ SessionsIn(old)
        BY <1>1, <2>1 DEF TextInv
    <2>4. old \in Texts
        BY DEF Types, Writings
    <2> HIDE DEF old
    <2>5. /\ text.loot_count = old.loot_count /\ text.loots = old.loots /\ text.dogs = old.dogs
          /\ text.sessions = old.sessions
          /\ text.players = [i \in DOMAIN players |-> PlayerRepr(players[i])]
        BY <2>4 DEF Texts
    <2> HIDE DEF text
    <2>6. LootsIn(text) /\ DogsIn(text) /\ SessionsIn(text)
        BY <2>3, <2>5 DEF LootsIn, DogsIn, SessionsIn, DogIds, Names
    <2>7. MemoryTyped /\ InGame /\ parted = {} /\ update # "remove"
        BY <1>1, <2>1 DEF Types, PlayersInv, AloneInv, Resting
    <2>8. text.loot_count = Len(text.loots)
        BY <2>2 DEF Written
    <2>9. Reads(text) /\ Tells(text, Facts)
        BY <2>5, <2>6, <2>7, <2>8, SaveReads, SaveTells
    <2>10. promise'.from = Facts /\ promise'.to = Facts
        BY <1>4, <2>3 DEF WritePlayers
    <2> QED BY <2>2, <2>9, <2>10 DEF Written
<1>5. CASE \E w \in Writers : WriteDogs(w) \/ WriteSessions(w)
    BY <1>2, <1>5 DEF WriteDogs, WriteSessions
<1>6. CASE \/ \E m \in Maps, id \in SessionIds : AddDogToSession(m, id)
           \/ PushPlayer \/ Update \/ UpdateStep \/ TimerFires \/ Signal \/ Stop \/ Crash \/ Start
           \/ UNCHANGED vars
    BY <1>2, <1>6 DEF AddDogToSession, PushPlayer, Update, UpdateStep, RemoveDog, ErasePlayer,
        RemovalSpins, RecordThrows, FinishUpdate, TimerFires, Signal, Stop, Crash, Start, vars
<1> QED BY <1>3, <1>4, <1>5, <1>6 DEF Next, SaveStep
\* A save in which every session has an id of its own is made into a game of the
\* players it tells of.
LEMMA LoadResumes ==
    ASSUME NEW text \in Texts, Reads(text), LoadState(text), "sessions" \notin Doubts(text),
           NEW facts, Tells(text, facts)
    PROVE  Facts' = facts
<1>1. \A m, n \in DOMAIN text.sessions : text.sessions[m].id = text.sessions[n].id => m = n
    BY DEF Doubts
<1>2. PICK order \in SetToSeqs(DOMAIN text.sessions) : players' = RestoredPlayers(text, order)
    BY DEF LoadState
<1> DEFINE n == Len(text.players)
           Fact(p) == [token |-> p.token, dog |-> p.dog.id, map |-> p.session]
<1>3. DOMAIN text.players = 1 .. n
    BY TextTyped
<1>4. /\ DOMAIN players' = 1 .. n
      /\ \A i \in 1 .. n :
            /\ players'[i].token = text.players[i].token
            /\ players'[i].dog.id = text.players[i].dog
            /\ players'[i].session \in DOMAIN text.sessions
            /\ text.sessions[players'[i].session].id = text.players[i].session
    <2> DEFINE restored == RestoredPlayers(text, order)
    <2>1. /\ DOMAIN restored = 1 .. n
          /\ \A i \in 1 .. n :
                /\ restored[i] = [token |-> text.players[i].token, dog |-> restored[i].dog,
                                  session |-> restored[i].session]
                /\ restored[i].dog.id = text.players[i].dog
                /\ restored[i].session \in DOMAIN text.sessions
                /\ text.sessions[restored[i].session].id = text.players[i].session
        BY RestoredPlayersProperties
    <2> HIDE DEF restored, n
    <2>2. \A i \in 1 .. n : restored[i].token = text.players[i].token
        BY <2>1
    <2>3. players' = restored
        BY <1>2 DEF restored
    <2> QED BY <2>1, <2>2, <2>3
<1>5. Facts' = {Fact(players'[i]) : i \in 1 .. n}
    BY <1>4 DEF Facts, ToSet
<1> HIDE DEF n
<1>6. ASSUME NEW i \in 1 .. n, NEW fact, OfPlayer(text, i, fact)
      PROVE  fact = Fact(players'[i])
    <2>1. fact.map = players'[i].session
        BY <1>1, <1>4, <1>6 DEF OfPlayer
    <2> QED BY <1>4, <1>6, <2>1 DEF OfPlayer
<1> HIDE DEF Fact
<1>7. Facts' \subseteq facts
    BY <1>3, <1>5, <1>6 DEF Tells
<1>8. facts \subseteq Facts'
    BY <1>3, <1>5, <1>6 DEF Tells
<1> QED BY <1>7, <1>8

LEMMA StartResumes ==
    ASSUME Types, FileInv, [Next]_vars
    PROVE  (/\ process = "off" /\ process' # "off" /\ promise.given /\ file # NoFile
            /\ file.text.loot_count = Len(file.text.loots)
            /\ doubts = {} /\ "sessions" \notin doubts') =>
              /\ process' = "up"
              /\ Facts' = promise.from
              /\ Facts' = promise.to
<1> SUFFICES ASSUME process = "off", process' # "off", promise.given, file # NoFile,
                    file.text.loot_count = Len(file.text.loots),
                    doubts = {}, "sessions" \notin doubts'
             PROVE  process' = "up" /\ Facts' = promise.from /\ Facts' = promise.to
    OBVIOUS
<1>1. Start
    BY DEF Next, AddDogToSession, ApiRuns, PushPlayer, Update, UpdateStep, RemoveDog,
           ErasePlayer, RemovalSpins, RecordThrows, FinishUpdate, TimerFires, SaveStep, Open, WriteDogs,
           WriteSessions, WritePlayers, Signal, Stop, Crash, vars
<1>2. /\ file.kind = "text" /\ Reads(file.text)
      /\ promise.from = promise.to /\ Tells(file.text, promise.from)
    BY DEF FileInv
<1>3. process' = "up" /\ LoadState(file.text) /\ doubts' = doubts \cup Doubts(file.text)
    <2>1. file # Torn
        BY <1>2 DEF Torn
    <2> QED BY <1>1, <1>2, <2>1 DEF Start
<1>4. file.text \in Texts
    BY DEF Types, Files
<1>5. "sessions" \notin Doubts(file.text)
    BY <1>3
<1>6. Facts' = promise.from
    BY <1>2, <1>3, <1>4, <1>5, LoadResumes
<1> QED BY <1>2, <1>3, <1>6

LEMMA SavesInitially == Init => AloneInv /\ LootsInv /\ TextInv /\ FileInv
<1>1. Init => AloneInv
    BY DEF Init, AloneInv, IsWriting, Idle, Writers
<1>2. Init => TextInv
    BY DEF Init, TextInv, IsWriting, Idle
<1>3. Init => FileInv
    BY DEF Init, FileInv, NoPromise
<1> QED BY <1>1, <1>2, <1>3, LootsInitially

\* A server that is started from the last save that was completed comes up, with
\* exactly the players there were when the save began, who are those there were when
\* it ended: their tokens, their dogs and the maps they play on.
THEOREM ResumedUnlessInDoubtHolds ==
    ASSUME SavesAlone
    PROVE  Spec => ResumedUnlessInDoubt
<1> DEFINE Inv == AloneInv /\ LootsInv /\ TextInv /\ FileInv
<1>1. Types /\ DogsInv /\ PlayersInv /\ Inv /\ [Next]_vars => Inv'
    BY SavesStayAlone, LootsKept, TextKept, FileKept
<1>2. Types /\ Inv /\ [Next]_vars =>
        [(/\ process = "off" /\ process' # "off" /\ promise.given /\ file # NoFile
          /\ file.text.loot_count = Len(file.text.loots)
          /\ doubts = {} /\ "sessions" \notin doubts') =>
            /\ process' = "up"
            /\ Facts' = promise.from
            /\ Facts' = promise.to]_vars
    BY StartResumes
<1>3. Init => Inv
    BY SavesInitially
<1>4. Spec => []PlayersInv
    <2>1. Types /\ RemovalTyped /\ DogsInv /\ PlayersInv /\ [Next]_vars => PlayersInv'
        BY PlayersKept
    <2> QED BY <2>1, PlayersInitially, SpecTyped, SpecDogs, PTL DEF Spec
<1> QED BY <1>1, <1>2, <1>3, <1>4, SpecTyped, SpecDogs, PTL DEF Spec, ResumedUnlessInDoubt

=============================================================================
