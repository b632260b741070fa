-------------------------- MODULE SelectionProofs --------------------------
(***************************************************************************)
(* What a selection becomes when its sequence grows at the end or loses    *)
(* its head.                                                               *)
(***************************************************************************)
EXTENDS Selection, Integers, FiniteSetTheorems, SequenceTheorems, TLAPS

\* c lists the members of I upwards.
Lists(c, I, m) ==
    /\ c \in [1..m -> I]
    /\ \A k, l \in 1..m : k < l => c[k] < c[l]
    /\ \A i \in I : \E k \in 1..m : c[k] = i

LEMMA Places ==
    ASSUME NEW n \in Nat, NEW I \in SUBSET (1..n)
    PROVE  /\ IsFiniteSet(I) /\ Cardinality(I) \in Nat
           /\ \A J \in SUBSET I : IsFiniteSet(J) /\ Cardinality(J) \in Nat
<1>1. IsFiniteSet(1..n)
    BY FS_Interval
<1>. QED
    BY <1>1, FS_Subset, FS_CardinalityType

\* Members have different ranks, the smaller one the lower.
LEMMA RanksGrow ==
    ASSUME NEW n \in Nat, NEW I \in SUBSET (1..n), NEW i \in I
    PROVE  /\ Rank(I, i) \in 1..Cardinality(I)
           /\ \A j \in I : i < j => Rank(I, i) < Rank(I, j)
<1>. DEFINE Upto(j) == {h \in I : h <= j}
<1>0. \A h \in I : h \in Nat
    OBVIOUS
<1>1. \A j \in I : Upto(j) \subseteq I /\ IsFiniteSet(Upto(j)) /\ Rank(I, j) = Cardinality(Upto(j))
                   /\ Rank(I, j) \in Nat
    <2>1. SUFFICES ASSUME NEW j \in I
                   PROVE  /\ Upto(j) \subseteq I /\ IsFiniteSet(Upto(j))
                          /\ Rank(I, j) = Cardinality(Upto(j)) /\ Rank(I, j) \in Nat
        OBVIOUS
    <2>2. Upto(j) \subseteq I /\ Rank(I, j) = Cardinality(Upto(j))
        BY DEF Rank
    <2>. HIDE DEF Upto
    <2>3. IsFiniteSet(Upto(j)) /\ Cardinality(Upto(j)) \in Nat
        BY <2>2, Places
    <2>. QED
        BY <2>2, <2>3, Zenon
<1>2. Rank(I, i) <= Cardinality(I)
    <2>1. Upto(i) \subseteq I /\ IsFiniteSet(I) /\ Rank(I, i) = Cardinality(Upto(i))
        BY <1>1, Places
    <2>. HIDE DEF Upto
    <2>. QED
        BY <2>1, FS_Subset
<1>3. Rank(I, i) # 0
    <2>1. i \in Upto(i)
        OBVIOUS
    <2>. HIDE DEF Upto
    <2>. QED
        BY <1>1, <2>1, FS_EmptySet
<1>4. ASSUME NEW j \in I, i < j PROVE Rank(I, i) < Rank(I, j)
    <2>1. Upto(i) \subseteq Upto(j) /\ j \in Upto(j) /\ j \notin Upto(i)
        <3>1. i \in Nat /\ j \in Nat
            BY <1>0
        <3>2. \A h \in I : h <= i => h <= j
            BY <1>0, <1>4, <3>1
        <3>3. ~(j <= i) /\ j <= j
            BY <1>4, <3>1
        <3>. QED
            BY <3>2, <3>3
    <2>. HIDE DEF Upto
    <2>2. Cardinality(Upto(i)) <= Cardinality(Upto(j)) /\ Cardinality(Upto(i)) # Cardinality(Upto(j))
        BY <1>1, <2>1, FS_Subset
    <2>. QED
        BY <1>1, <2>2
<1>5. Rank(I, i) \in Nat /\ Cardinality(I) \in Nat
    BY <1>1, Places
<1>. QED
    BY <1>2, <1>3, <1>4, <1>5

\* Every number up to the size of the set is a rank.
LEMMA RanksReached ==
    ASSUME NEW n \in Nat, NEW I \in SUBSET (1..n), NEW k \in 1..Cardinality(I)
    PROVE  \E i \in I : Rank(I, i) = k
<1>. DEFINE m == Cardinality(I)
            f == [i \in I |-> Rank(I, i)]
<1>0. \A i \in I : i \in Nat
    OBVIOUS
<1>1. IsFiniteSet(I) /\ m \in Nat
    BY Places
<1>2. IsFiniteSet(1..m) /\ Cardinality(1..m) = m
    BY <1>1, FS_Interval
<1>3. f \in [I -> 1..m]
    BY RanksGrow
<1>4. \A i, j \in I : f[i] = f[j] => i = j
    <2>1. ASSUME NEW i \in I, NEW j \in I, i # j PROVE f[i] # f[j]
        <3>1. i < j \/ j < i
            BY <1>0, <2>1
        <3>2. f[i] = Rank(I, i) /\ f[j] = Rank(I, j) /\ f[i] \in Nat /\ f[j] \in Nat
            BY <1>1, <1>3
        <3>3. f[i] < f[j] \/ f[j] < f[i]
            BY <3>1, <3>2, RanksGrow
        <3>. QED
            BY <3>2, <3>3
    <2>. QED
        BY <2>1
<1>5. f \in Injection(I, 1..m)
    BY <1>3, <1>4 DEF Injection, IsInjective
<1>6. f \in Surjection(I, 1..m)
    BY <1>1, <1>2, <1>5, FS_Injection
<1>7. \E i \in I : f[i] = k
    BY <1>6 DEF Surjection
<1>. QED
    BY <1>7

LEMMA InOrderLists ==
    ASSUME NEW n \in Nat, NEW I \in SUBSET (1..n)
    PROVE  Lists(InOrder(I), I, Cardinality(I))
<1>. DEFINE m == Cardinality(I)
            c == InOrder(I)
<1>0. \A i \in I : i \in Nat
    OBVIOUS
<1>6. m \in Nat
    BY Places
<1>1. \A k \in 1..m : c[k] \in I /\ Rank(I, c[k]) = k
    BY RanksReached DEF InOrder
<1>2. c \in [1..m -> I]
    BY <1>1 DEF InOrder
<1>3. \A i, j \in I : Rank(I, i) \in Nat /\ (i < j => Rank(I, i) < Rank(I, j))
    <2>1. ASSUME NEW i \in I PROVE Rank(I, i) \in Nat
        BY <1>6, RanksGrow
    <2>. QED
        BY <2>1, RanksGrow
<1>. HIDE DEF c, m
<1>4. ASSUME NEW k \in 1..m, NEW l \in 1..m, k < l PROVE c[k] < c[l]
    <2>1. c[k] \in I /\ c[l] \in I /\ Rank(I, c[k]) = k /\ Rank(I, c[l]) = l /\ k \in Nat /\ l \in Nat
        BY <1>1, <1>6
    <2>2. c[l] < c[k] => l < k
        BY <1>3, <2>1
    <2>3. c[k] = c[l] => k = l
        BY <2>1
    <2>. QED
        <3>1. c[k] \in Nat /\ c[l] \in Nat
            BY <1>0, <2>1
        <3>2. c[k] # c[l] /\ ~(c[l] < c[k])
            BY <1>4, <2>1, <2>2, <2>3
        <3>. QED
            BY <3>1, <3>2
<1>5. ASSUME NEW i \in I PROVE \E k \in 1..m : c[k] = i
    <2>1. Rank(I, i) \in 1..m
        BY RanksGrow DEF m
    <2>2. PICK k \in 1..m : k = Rank(I, i)
        BY <2>1
    <2>3. c[k] \in I /\ Rank(I, c[k]) = Rank(I, i)
        BY <1>1, <2>2
    <2>4. (c[k] < i => Rank(I, c[k]) < Rank(I, i)) /\ (i < c[k] => Rank(I, i) < Rank(I, c[k]))
        BY <1>3, <2>3
    <2>5. Rank(I, i) \in Nat /\ c[k] \in Nat /\ i \in Nat
        BY <1>0, <1>3, <2>3
    <2>6. ~(c[k] < i) /\ ~(i < c[k])
        BY <2>3, <2>4, <2>5
    <2>7. c[k] = i
        BY <2>5, <2>6
    <2>. QED
        BY <2>7
<1>. QED
    BY <1>2, <1>4, <1>5 DEF Lists, c, m

\* There is one such list only.
LEMMA ListedOnce ==
    ASSUME NEW n \in Nat, NEW I \in SUBSET (1..n), NEW m \in Nat, NEW c, Lists(c, I, m)
    PROVE  Cardinality(I) = m /\ InOrder(I) = c
<1>0. c \in [1..m -> I] /\ \A i \in I : i \in Nat
    BY DEF Lists
<1>1. \A k, l \in 1..m : c[k] = c[l] => k = l
    <2>1. ASSUME NEW k \in 1..m, NEW l \in 1..m, k # l PROVE c[k] # c[l]
        <3>1. k < l \/ l < k
            BY <2>1
        <3>2. c[k] < c[l] \/ c[l] < c[k]
            BY <3>1 DEF Lists
        <3>3. c[k] \in Nat /\ c[l] \in Nat
            BY <1>0
        <3>. QED
            BY <3>2, <3>3
    <2>. QED
        BY <2>1
<1>2. ASSUME NEW p \in 0..m, NEW J, J = {c[k] : k \in 1..p} PROVE IsFiniteSet(J) /\ Cardinality(J) = p
    <2>. DEFINE f == [k \in 1..p |-> c[k]]
    <2>1. f \in [1..p -> J] /\ \A k, l \in 1..p : f[k] = f[l] => k = l
        BY <1>1, <1>2
    <2>2. \A j \in J : \E k \in 1..p : f[k] = j
        BY <1>2
    <2>3. f \in Surjection(1..p, J) /\ f \in Injection(1..p, J)
        BY <2>1, <2>2 DEF Surjection, Injection, IsInjective
    <2>4. IsFiniteSet(1..p) /\ Cardinality(1..p) = p
        BY FS_Interval
    <2>. QED
        BY <2>3, <2>4, FS_Surjection
<1>3. Cardinality(I) = m
    <2>1. I = {c[k] : k \in 1..m}
        BY <1>0 DEF Lists
    <2>. QED
        BY <1>2, <2>1
<1>4. ASSUME NEW k \in 1..m PROVE Rank(I, c[k]) = k
    <2>1. {j \in I : j <= c[k]} = {c[l] : l \in 1..k}
        <3>1. ASSUME NEW l \in 1..m PROVE c[l] <= c[k] <=> l \in 1..k
            <4>1. l < k => c[l] < c[k]
                BY DEF Lists
            <4>2. k < l => c[k] < c[l]
                BY DEF Lists
            <4>3. c[k] \in Nat /\ c[l] \in Nat
                BY <1>0
            <4>. QED
                BY <4>1, <4>2, <4>3
        <3>2. \A i \in I : \E l \in 1..m : c[l] = i
            BY DEF Lists
        <3>3. \A l \in 1..k : l \in 1..m /\ c[l] \in I /\ c[l] <= c[k]
            BY <1>0, <3>1
        <3>4. \A j \in I : j <= c[k] => \E l \in 1..k : c[l] = j
            BY <3>1, <3>2
        <3>. QED
            BY <3>3, <3>4
    <2>. QED
        BY <1>2, <2>1 DEF Rank
<1>5. ASSUME NEW k \in 1..m PROVE InOrder(I)[k] = c[k]
    <2>1. \A i \in I : Rank(I, i) = k <=> i = c[k]
        BY <1>0, <1>4, RanksGrow DEF Lists
    <2>2. c[k] \in I
        BY <1>0
    <2>. QED
        BY <1>3, <2>1, <2>2 DEF InOrder
<1>. QED
    BY <1>0, <1>3, <1>5 DEF InOrder

-----------------------------------------------------------------------------
(***************************************************************************)
(* One place more at the end; all places one further down.                 *)
(***************************************************************************)

LEMMA PlaceAdded ==
    ASSUME NEW n \in Nat, NEW I \in SUBSET (1..n)
    PROVE  LET J == I \cup {n + 1}
               m == Cardinality(I)
           IN  /\ Cardinality(J) = m + 1
               /\ \A k \in 1..m : InOrder(J)[k] = InOrder(I)[k]
               /\ InOrder(J)[m + 1] = n + 1
<1>. DEFINE J == I \cup {n + 1}
            m == Cardinality(I)
            b == InOrder(I)
            c == [k \in 1..(m + 1) |-> IF k = m + 1 THEN n + 1 ELSE b[k]]
<1>0. m \in Nat /\ J \in SUBSET (1..(n + 1)) /\ Lists(b, I, m) /\ \A i \in I : i \in Nat /\ i < n + 1
    <2>1. J \in SUBSET (1..(n + 1)) /\ \A i \in I : i \in Nat /\ i < n + 1
        OBVIOUS
    <2>. QED
        BY <2>1, Places, InOrderLists
<1>. HIDE DEF b, m
<1>1. b \in [1..m -> I]
    BY <1>0 DEF Lists
<1>2. c \in [1..(m + 1) -> J]
    BY <1>0, <1>1
<1>3. ASSUME NEW k \in 1..(m + 1), NEW l \in 1..(m + 1), k < l PROVE c[k] < c[l]
    <2>1. k \in 1..m /\ c[k] = b[k]
        BY <1>0, <1>3
    <2>2. CASE l = m + 1
        BY <1>0, <1>1, <2>1, <2>2
    <2>3. CASE l # m + 1
        <3>1. l \in 1..m /\ c[l] = b[l]
            BY <1>0, <2>3
        <3>. QED
            BY <1>0, <1>3, <2>1, <3>1 DEF Lists
    <2>. QED
        BY <2>2, <2>3
<1>4. ASSUME NEW j \in J PROVE \E k \in 1..(m + 1) : c[k] = j
    <2>1. CASE j \in I
        <3>1. PICK k \in 1..m : b[k] = j
            BY <1>0, <2>1 DEF Lists
        <3>2. k \in 1..(m + 1) /\ c[k] = j
            BY <1>0, <3>1
        <3>. QED
            BY <3>2
    <2>2. CASE j = n + 1
        BY <1>0, <2>2
    <2>. QED
        BY <2>1, <2>2
<1>5. Lists(c, J, m + 1)
    BY <1>2, <1>3, <1>4 DEF Lists
<1>6. Cardinality(J) = m + 1 /\ InOrder(J) = c
    <2>. HIDE DEF c, J
    <2>1. n + 1 \in Nat /\ m + 1 \in Nat
        BY <1>0
    <2>. QED
        BY <1>0, <1>5, <2>1, ListedOnce
<1>7. (\A k \in 1..m : c[k] = b[k]) /\ c[m + 1] = n + 1
    BY <1>0
<1>. QED
    BY <1>6, <1>7 DEF b, m

LEMMA PlacesShift ==
    ASSUME NEW n \in Nat, NEW I \in SUBSET (1..(n + 1)), 1 \notin I
    PROVE  LET J == {i \in 1..n : i + 1 \in I}
           IN  /\ Cardinality(I) = Cardinality(J)
               /\ \A k \in 1..Cardinality(J) : InOrder(I)[k] = InOrder(J)[k] + 1
<1>. DEFINE J == {i \in 1..n : i + 1 \in I}
            m == Cardinality(J)
            b == InOrder(J)
            c == [k \in 1..m |-> b[k] + 1]
<1>0. m \in Nat /\ J \in SUBSET (1..n) /\ Lists(b, J, m)
    BY Places, InOrderLists
<1>1. (\A j \in J : j \in Nat /\ j + 1 \in I) /\ \A i \in I : i \in Nat /\ i - 1 \in J
    OBVIOUS
<1>. HIDE DEF b, m, J
<1>2. b \in [1..m -> J]
    BY <1>0 DEF Lists
<1>3. c \in [1..m -> I]
    BY <1>1, <1>2
<1>4. ASSUME NEW k \in 1..m, NEW l \in 1..m, k < l PROVE c[k] < c[l]
    <2>1. b[k] < b[l]
        BY <1>0, <1>4 DEF Lists
    <2>2. b[k] \in Nat /\ b[l] \in Nat
        BY <1>1, <1>2
    <2>. QED
        BY <2>1, <2>2
<1>5. ASSUME NEW i \in I PROVE \E k \in 1..m : c[k] = i
    <2>1. PICK k \in 1..m : b[k] = i - 1
        BY <1>0, <1>1 DEF Lists
    <2>2. c[k] = i
        BY <1>1, <2>1
    <2>. QED
        BY <2>2
<1>6. Lists(c, I, m)
    BY <1>3, <1>4, <1>5 DEF Lists
<1>7. Cardinality(I) = m /\ InOrder(I) = c
    <2>. HIDE DEF c
    <2>1. n + 1 \in Nat
        OBVIOUS
    <2>. QED
        BY <1>0, <1>6, <2>1, ListedOnce
<1>8. \A k \in 1..m : c[k] = b[k] + 1
    OBVIOUS
<1>. QED
    BY <1>7, <1>8 DEF b, m, J

LEMMA PlacesShiftFirst ==
    ASSUME NEW n \in Nat, NEW I \in SUBSET (1..(n + 1)), 1 \in I
    PROVE  LET J == {i \in 1..n : i + 1 \in I}
           IN  /\ Cardinality(I) = Cardinality(J) + 1
               /\ InOrder(I)[1] = 1
               /\ \A k \in 1..Cardinality(J) : InOrder(I)[k + 1] = InOrder(J)[k] + 1
<1>. DEFINE J == {i \in 1..n : i + 1 \in I}
            m == Cardinality(J)
            b == InOrder(J)
            c == [k \in 1..(m + 1) |-> IF k = 1 THEN 1 ELSE b[k - 1] + 1]
<1>0. m \in Nat /\ J \in SUBSET (1..n) /\ Lists(b, J, m)
    BY Places, InOrderLists
<1>1. (\A j \in J : j \in Nat \ {0} /\ j + 1 \in I) /\ \A i \in I : i \in Nat /\ (i # 1 => i - 1 \in J)
    OBVIOUS
<1>. HIDE DEF b, m, J
<1>2. b \in [1..m -> J]
    BY <1>0 DEF Lists
<1>3. \A k \in 1..(m + 1) : k # 1 => k - 1 \in 1..m /\ c[k] = b[k - 1] + 1
    BY <1>0
<1>9. c[1] = 1 /\ \A k \in 1..m : c[k + 1] = b[k] + 1
    <2>1. 1 \in 1..(m + 1) /\ \A k \in 1..m : k + 1 \in 1..(m + 1) /\ k + 1 # 1 /\ (k + 1) - 1 = k
        BY <1>0
    <2>. QED
        BY <2>1
<1>4. c \in [1..(m + 1) -> I]
    <2>1. \A k \in 1..(m + 1) : c[k] \in I
        BY <1>1, <1>2, <1>3, <1>9
    <2>. QED
        BY <2>1
<1>. HIDE DEF c
<1>5. ASSUME NEW k \in 1..(m + 1), NEW l \in 1..(m + 1), k < l PROVE c[k] < c[l]
    <2>1. l # 1 /\ l - 1 \in 1..m /\ c[l] = b[l - 1] + 1
        BY <1>0, <1>3, <1>5
    <2>2. b[l - 1] \in Nat \ {0}
        BY <1>1, <1>2, <2>1
    <2>3. CASE k = 1
        BY <1>9, <2>1, <2>2, <2>3
    <2>4. CASE k # 1
        <3>1. k - 1 \in 1..m /\ c[k] = b[k - 1] + 1 /\ k - 1 < l - 1
            BY <1>0, <1>3, <1>5, <2>4
        <3>2. b[k - 1] < b[l - 1]
            BY <1>0, <2>1, <3>1 DEF Lists
        <3>3. b[k - 1] \in Nat
            BY <1>1, <1>2, <3>1
        <3>. QED
            BY <2>1, <2>2, <3>1, <3>2, <3>3
    <2>. QED
        BY <2>3, <2>4
<1>6. ASSUME NEW i \in I PROVE \E k \in 1..(m + 1) : c[k] = i
    <2>1. CASE i = 1
        <3>1. 1 \in 1..(m + 1)
            BY <1>0
        <3>. QED
            BY <1>9, <2>1, <3>1
    <2>2. CASE i # 1
        <3>1. PICK k \in 1..m : b[k] = i - 1
            BY <1>0, <1>1, <2>2 DEF Lists
        <3>2. c[k + 1] = i /\ k + 1 \in 1..(m + 1)
            BY <1>0, <1>1, <1>9, <3>1
        <3>. QED
            BY <3>2
    <2>. QED
        BY <2>1, <2>2
<1>7. Lists(c, I, m + 1)
    BY <1>4, <1>5, <1>6 DEF Lists
<1>8. Cardinality(I) = m + 1 /\ InOrder(I) = c
    <2>1. n + 1 \in Nat /\ m + 1 \in Nat
        BY <1>0
    <2>. QED
        BY <1>0, <1>7, <2>1, ListedOnce
<1>. QED
    BY <1>8, <1>9 DEF b, m, J

-----------------------------------------------------------------------------
(***************************************************************************)
(* The selected members.                                                   *)
(***************************************************************************)

LEMMA SelectedAt ==
    \A s, I : Selected(s, I) = [k \in 1..Cardinality(I) |-> s[InOrder(I)[k]]]
<1>1. SUFFICES ASSUME NEW s, NEW I
               PROVE  Selected(s, I) = [k \in 1..Cardinality(I) |-> s[InOrder(I)[k]]]
    OBVIOUS
<1>. DEFINE F(J) == [k \in 1..Cardinality(J) |-> s[InOrder(J)[k]]]
<1>2. Selected(s, I) = CHOOSE r \in {F(J) : J \in {I}} : TRUE
    BY DEF Selected
<1>. HIDE DEF F
<1>3. {F(J) : J \in {I}} = {F(I)}
    OBVIOUS
<1>4. (CHOOSE r \in {F(I)} : TRUE) = F(I)
    OBVIOUS
<1>5. Selected(s, I) = F(I)
    BY <1>2, <1>3, <1>4, Zenon
<1>. QED
    BY <1>5 DEF F

LEMMA SelectedType ==
    ASSUME NEW n \in Nat, NEW I \in SUBSET (1..n), NEW S, NEW s, \A i \in I : s[i] \in S
    PROVE  /\ Selected(s, I) \in Seq(S)
           /\ Len(Selected(s, I)) = Cardinality(I)
<1>1. \A k \in 1..Cardinality(I) : InOrder(I)[k] \in I
    BY InOrderLists DEF Lists
<1>2. Cardinality(I) \in Nat
    BY Places
<1>3. Selected(s, I) \in [1..Cardinality(I) -> S]
    BY <1>1, SelectedAt
<1>. QED
    BY <1>2, <1>3

LEMMA SelectedNone == ASSUME NEW s PROVE Selected(s, {}) = << >>
<1>1. Cardinality({}) = 0
    BY FS_EmptySet
<1>2. Selected(s, {}) = [k \in 1..0 |-> s[InOrder({})[k]]]
    BY <1>1, SelectedAt
<1>. QED
    BY <1>2

\* The members that were there stay selected, and a new one comes last.
LEMMA SelectedGrows ==
    ASSUME NEW n \in Nat, NEW I \in SUBSET (1..n), NEW s, NEW t,
           \A i \in I : t[i] = s[i]
    PROVE  /\ Selected(t, I) = Selected(s, I)
           /\ Selected(t, I \cup {n + 1}) = Selected(s, I) \o <<t[n + 1]>>
<1>. DEFINE S == {s[i] : i \in I} \cup {t[n + 1]}
            J == I \cup {n + 1}
            m == Cardinality(I)
            w == t[n + 1]
            a == Selected(s, I)
            b == Selected(t, J)
<1>0. m \in Nat /\ \A k \in 1..m : InOrder(I)[k] \in I
    BY Places, InOrderLists DEF Lists
<1>1. Selected(t, I) = Selected(s, I)
    BY <1>0, SelectedAt
<1>2. b = a \o <<w>>
    <2>0. w \in S /\ \A i \in I : s[i] \in S
        OBVIOUS
    <2>. HIDE DEF S
    <2>1. a \in Seq(S) /\ Len(a) = m /\ \A k \in 1..m : a[k] = s[InOrder(I)[k]]
        BY <2>0, SelectedType, SelectedAt
    <2>2. J \in SUBSET (1..(n + 1)) /\ n + 1 \in Nat /\ \A j \in J : t[j] \in S
        <3>1. \A j \in I : t[j] \in S
            BY <2>0
        <3>2. J \in SUBSET (1..(n + 1)) /\ n + 1 \in Nat
            OBVIOUS
        <3>. QED
            BY <2>0, <3>1, <3>2
    <2>3. b \in Seq(S) /\ Len(b) = Cardinality(J)
        <3>. HIDE DEF J
        <3>. QED
            BY <2>2, SelectedType
    <2>4. /\ Cardinality(J) = m + 1 /\ InOrder(J)[m + 1] = n + 1
          /\ \A k \in 1..m : InOrder(J)[k] = InOrder(I)[k]
        BY PlaceAdded
    <2>5. \A k \in 1..(m + 1) : b[k] = t[InOrder(J)[k]]
        BY <2>4, SelectedAt
    <2>. HIDE DEF J, m, w, a, b
    <2>6. /\ a \o <<w>> \in Seq(S) /\ Len(a \o <<w>>) = m + 1
          /\ \A k \in 1..(m + 1) : (a \o <<w>>)[k] = IF k <= m THEN a[k] ELSE <<w>>[k - m]
        <3>1. <<w>> \in Seq(S) /\ Len(<<w>>) = 1
            BY <2>0
        <3>. QED
            BY <2>1, <3>1, ConcatProperties
    <2>7. ASSUME NEW k \in 1..(m + 1) PROVE b[k] = (a \o <<w>>)[k]
        <3>1. CASE k = m + 1
            <4>1. b[k] = w
                BY <2>4, <2>5, <3>1 DEF w
            <4>2. ~(k <= m) /\ k - m = 1
                BY <1>0, <3>1
            <4>. QED
                BY <2>6, <4>1, <4>2
        <3>2. CASE k # m + 1
            <4>1. k \in 1..m /\ k <= m
                BY <1>0, <3>2
            <4>2. b[k] = a[k]
                <5>1. InOrder(I)[k] \in I /\ a[k] = s[InOrder(I)[k]]
                    BY <1>0, <2>1, <4>1
                <5>2. b[k] = t[InOrder(I)[k]]
                    BY <2>4, <2>5, <4>1
                <5>. QED
                    BY <5>1, <5>2
            <4>. QED
                BY <2>6, <4>1, <4>2
        <3>. QED
            BY <3>1, <3>2
    <2>. QED
        BY <2>3, <2>4, <2>6, <2>7, SeqEqual
<1>. QED
    BY <1>1, <1>2

\* Without its head, a sequence has the members selected that it had, except the head.
LEMMA SelectedShrinks ==
    ASSUME NEW n \in Nat, NEW I \in SUBSET (1..(n + 1)), NEW s, NEW t,
           \A i \in 1..n : t[i] = s[i + 1]
    PROVE  LET J == {i \in 1..n : i + 1 \in I}
           IN  Selected(s, I) = IF 1 \in I THEN <<s[1]>> \o Selected(t, J) ELSE Selected(t, J)
<1>. DEFINE S == {s[i] : i \in I}
            J == {i \in 1..n : i + 1 \in I}
            m == Cardinality(J)
            a == Selected(t, J)
            b == Selected(s, I)
            w == s[1]
<1>0. /\ J \in SUBSET (1..n) /\ \A j \in J : t[j] \in S /\ t[j] = s[j + 1]
      /\ \A i \in I : s[i] \in S
    OBVIOUS
<1>. HIDE DEF J, S
<1>1. m \in Nat /\ \A k \in 1..m : InOrder(J)[k] \in J
    BY <1>0, Places, InOrderLists DEF Lists
<1>2. a \in Seq(S) /\ Len(a) = m /\ \A k \in 1..m : a[k] = s[InOrder(J)[k] + 1]
    BY <1>0, <1>1, SelectedType, SelectedAt
<1>3. b \in Seq(S) /\ Len(b) = Cardinality(I)
    <2>1. n + 1 \in Nat
        OBVIOUS
    <2>. QED
        BY <1>0, <2>1, SelectedType
<1>4. \A k \in 1..Cardinality(I) : b[k] = s[InOrder(I)[k]]
    BY SelectedAt
<1>5. CASE 1 \notin I
    <2>1. Cardinality(I) = m /\ \A k \in 1..m : InOrder(I)[k] = InOrder(J)[k] + 1
        BY <1>5, PlacesShift DEF J
    <2>. HIDE DEF m, a, b
    <2>2. \A k \in 1..m : b[k] = a[k]
        BY <1>2, <1>4, <2>1
    <2>. QED
        BY <1>2, <1>3, <1>5, <2>1, <2>2, SeqEqual DEF J, a, b
<1>6. CASE 1 \in I
    <2>1. /\ Cardinality(I) = m + 1 /\ InOrder(I)[1] = 1
          /\ \A k \in 1..m : InOrder(I)[k + 1] = InOrder(J)[k] + 1
        BY <1>6, PlacesShiftFirst DEF J
    <2>2. w \in S
        BY <1>0, <1>6
    <2>. HIDE DEF m, a, b, w
    <2>3. /\ <<w>> \o a \in Seq(S) /\ Len(<<w>> \o a) = m + 1
          /\ \A k \in 1..(m + 1) : (<<w>> \o a)[k] = IF k <= 1 THEN <<w>>[k] ELSE a[k - 1]
        <3>1. <<w>> \in Seq(S) /\ Len(<<w>>) = 1
            BY <2>2
        <3>2. 1 + m = m + 1
            BY <1>1
        <3>. QED
            BY <1>2, <3>1, <3>2, ConcatProperties
    <2>4. ASSUME NEW k \in 1..(m + 1) PROVE b[k] = (<<w>> \o a)[k]
        <3>1. CASE k = 1
            BY <1>1, <1>4, <2>1, <2>3, <3>1 DEF w
        <3>2. CASE k # 1
            <4>1. PICK l \in 1..m : k = l + 1
                <5>1. k - 1 \in 1..m /\ k = (k - 1) + 1
                    BY <1>1, <3>2
                <5>. QED
                    BY <5>1
            <4>2. b[k] = a[l]
                BY <1>2, <1>4, <2>1, <4>1
            <4>3. ~(k <= 1) /\ k - 1 = l
                BY <1>1, <4>1
            <4>. QED
                BY <2>3, <4>2, <4>3
        <3>. QED
            BY <3>1, <3>2
    <2>5. b = <<w>> \o a
        BY <1>3, <2>1, <2>3, <2>4, SeqEqual
    <2>. QED
        BY <1>6, <2>5 DEF J, a, b, w
<1>. QED
    BY <1>5, <1>6

LEMMA ChosenType ==
    ASSUME NEW S, NEW s \in Seq(S), NEW T, NEW V, NEW g \in [T -> V]
    PROVE  Chosen(s, g) \in Seq(V)
<1>. DEFINE I == {i \in 1..Len(s) : s[i] \in DOMAIN g}
            v == [i \in 1..Len(s) |-> g[s[i]]]
<1>1. Len(s) \in Nat /\ I \in SUBSET (1..Len(s)) /\ \A i \in I : v[i] \in V
    OBVIOUS
<1>. HIDE DEF I, v
<1>2. Selected(v, I) \in Seq(V)
    BY <1>1, SelectedType
<1>. QED
    BY <1>2 DEF Chosen, I, v

LEMMA ChosenNone == ASSUME NEW g PROVE Chosen(<< >>, g) = << >>
<1>. DEFINE s == << >>
            I == {i \in 1..Len(s) : s[i] \in DOMAIN g}
<1>1. I = {}
    OBVIOUS
<1>2. Selected([i \in 1..Len(s) |-> g[s[i]]], I) = << >>
    BY <1>1, SelectedNone
<1>. QED
    BY <1>2 DEF Chosen

LEMMA ChosenGrows ==
    ASSUME NEW S, NEW s \in Seq(S), NEW w \in S, NEW T, NEW g, DOMAIN g = T
    PROVE  Chosen(Append(s, w), g) =
               IF w \in T THEN Chosen(s, g) \o <<g[w]>> ELSE Chosen(s, g)
<1>. DEFINE n == Len(s)
            r == Append(s, w)
            I == {i \in 1..n : s[i] \in DOMAIN g}
            J == {i \in 1..Len(r) : r[i] \in DOMAIN g}
            v == [i \in 1..n |-> g[s[i]]]
            u == [i \in 1..Len(r) |-> g[r[i]]]
<1>1. /\ n \in Nat /\ Len(r) = n + 1 /\ r[n + 1] = w
      /\ \A i \in 1..n : r[i] = s[i]
    BY AppendProperties
<1>. HIDE DEF n, r
<1>2. I \in SUBSET (1..n) /\ \A i \in I : u[i] = v[i]
    BY <1>1
<1>3. u[n + 1] = g[w]
    BY <1>1
<1>4. J = IF w \in T THEN I \cup {n + 1} ELSE I
    <2>1. ASSUME NEW i \in 1..n PROVE i \in 1..(n + 1) /\ (i \in J <=> i \in I)
        BY <1>1, <2>1
    <2>2. n + 1 \in J <=> w \in T
        BY <1>1
    <2>3. \A i \in J : i \in 1..n \/ i = n + 1
        BY <1>1
    <2>4. I \subseteq 1..n
        OBVIOUS
    <2>. HIDE DEF I, J
    <2>5. CASE w \in T
        BY <2>1, <2>2, <2>3, <2>4, <2>5
    <2>6. CASE w \notin T
        <3>1. \A i \in J : i \in I
            BY <2>1, <2>2, <2>3, <2>6
        <3>2. \A i \in I : i \in J
            BY <2>1, <2>4
        <3>3. J = I
            BY <3>1, <3>2
        <3>. QED
            BY <2>6, <3>3
    <2>. QED
        BY <2>5, <2>6
<1>5. Chosen(s, g) = Selected(v, I) /\ Chosen(r, g) = Selected(u, J)
    BY DEF Chosen, n
<1>. HIDE DEF I, J, u, v
<1>6. /\ Selected(u, I) = Selected(v, I)
      /\ Selected(u, I \cup {n + 1}) = Selected(v, I) \o <<u[n + 1]>>
    <2>1. n \in Nat
        BY <1>1
    <2>2. I \in SUBSET (1..n)
        BY <1>2
    <2>3. \A i \in I : u[i] = v[i]
        BY <1>2
    <2>. QED
        <3>1. \A x, y : (\A i \in I : y[i] = x[i]) =>
                  /\ Selected(y, I) = Selected(x, I)
                  /\ Selected(y, I \cup {n + 1}) = Selected(x, I) \o <<y[n + 1]>>
            BY <2>1, <2>2, SelectedGrows
        <3>. QED
            BY <2>3, <3>1, Zenon
<1>. QED
    BY <1>3, <1>4, <1>5, <1>6 DEF r

LEMMA ChosenShrinks ==
    ASSUME NEW S, NEW s \in Seq(S), s # << >>, NEW T, NEW g, DOMAIN g = T
    PROVE  Chosen(s, g) =
               IF Head(s) \in T THEN <<g[Head(s)]>> \o Chosen(Tail(s), g) ELSE Chosen(Tail(s), g)
<1>. DEFINE r == Tail(s)
            n == Len(r)
            I == {i \in 1..Len(s) : s[i] \in DOMAIN g}
            J == {i \in 1..n : r[i] \in DOMAIN g}
            v == [i \in 1..Len(s) |-> g[s[i]]]
            u == [i \in 1..n |-> g[r[i]]]
<1>1. /\ r \in Seq(S) /\ n \in Nat /\ Len(s) = n + 1 /\ s[1] = Head(s)
      /\ \A i \in 1..n : r[i] = s[i + 1]
    <2>1. r \in Seq(S) /\ n = Len(s) - 1 /\ \A i \in 1..n : r[i] = s[i + 1]
        BY HeadTailProperties
    <2>2. Len(s) \in Nat \ {0}
        BY EmptySeq
    <2>3. s[1] = Head(s)
        OBVIOUS
    <2>. QED
        BY <2>1, <2>2, <2>3
<1>. HIDE DEF n, r
<1>2. /\ I \in SUBSET (1..(n + 1)) 
      /\ \A i \in 1..n : u[i] = v[i + 1]
    BY <1>1
<1>3. 1 \in 1..(n + 1) /\ v[1] = g[Head(s)] /\ (1 \in I <=> Head(s) \in T)
    BY <1>1
<1>4. J = {i \in 1..n : i + 1 \in I}
    <2>1. ASSUME NEW i \in 1..n PROVE i \in J <=> i + 1 \in I
        BY <1>1, <2>1
    <2>. QED
        BY <2>1
<1>5. Chosen(s, g) = Selected(v, I) /\ Chosen(r, g) = Selected(u, J)
    BY DEF Chosen, n
<1>. HIDE DEF I, J, u, v
<1>6. Selected(v, I) = IF 1 \in I THEN <<v[1]>> \o Selected(u, J) ELSE Selected(u, J)
    <2>1. n \in Nat
        BY <1>1
    <2>2. I \in SUBSET (1..(n + 1))
        BY <1>2
    <2>3. \A i \in 1..n : u[i] = v[i + 1]
        BY <1>2
    <2>4. LET K == {i \in 1..n : i + 1 \in I}
          IN  Selected(v, I) = IF 1 \in I THEN <<v[1]>> \o Selected(u, K) ELSE Selected(u, K)
        <3>1. \A x, y : (\A i \in 1..n : y[i] = x[i + 1]) =>
                  LET K == {i \in 1..n : i + 1 \in I}
                  IN  Selected(x, I) = IF 1 \in I THEN <<x[1]>> \o Selected(y, K) ELSE Selected(y, K)
            BY <2>1, <2>2, SelectedShrinks
        <3>. QED
            BY <2>3, <3>1, Zenon
    <2>. QED
        BY <1>4, <2>4, Zenon
<1>. QED
    BY <1>3, <1>5, <1>6 DEF r

-----------------------------------------------------------------------------
(***************************************************************************)
(* Short sequences and what is chosen of them.                             *)
(***************************************************************************)

LEMMA Joined ==
    ASSUME NEW a, NEW b
    PROVE  /\ << >> \o <<a>> = <<a>> /\ <<a>> \o << >> = <<a>>
           /\ <<a>> \o <<b>> = <<a, b>> /\ << >> \o << >> = << >>
<1>1. << >> \in Seq({a}) /\ <<a>> \in Seq({a})
    OBVIOUS
<1>2. << >> \o <<a>> = <<a>> /\ <<a>> \o << >> = <<a>>
    BY <1>1, ConcatEmptySeq
<1>3. <<a>> \o <<b>> = <<a, b>>
    <2>. DEFINE both == <<a>> \o <<b>>
    <2>1. /\ <<a>> \in Seq({a, b}) /\ <<b>> \in Seq({a, b}) /\ <<a, b>> \in Seq({a, b})
          /\ Len(<<a>>) = 1 /\ Len(<<b>>) = 1 /\ Len(<<a, b>>) = 2
        OBVIOUS
    <2>2. /\ both \in Seq({a, b}) /\ Len(both) = 2
          /\ \A i \in 1..2 : both[i] = IF i <= 1 THEN <<a>>[i] ELSE <<b>>[i - 1]
        BY <2>1, ConcatProperties
    <2>3. both[1] = a /\ both[2] = b
        BY <2>2
    <2>4. \A i \in 1..2 : both[i] = <<a, b>>[i]
        BY <2>3
    <2>. QED
        BY <2>1, <2>2, <2>4, SeqEqual
<1>4. << >> \o << >> = << >>
    BY <1>1, ConcatEmptySeq
<1>. QED
    BY <1>2, <1>3, <1>4

LEMMA WordOn ==
    ASSUME NEW S, NEW s \in Seq(S), NEW w \in S, NEW g
    PROVE  /\ w \in DOMAIN g => Chosen(Append(s, w), g) = Chosen(s, g) \o <<g[w]>>
           /\ w \notin DOMAIN g => Chosen(Append(s, w), g) = Chosen(s, g)
BY ChosenGrows

LEMMA WordOff ==
    ASSUME NEW S, NEW s \in Seq(S), s # << >>, NEW g
    PROVE  /\ Head(s) \in DOMAIN g => Chosen(s, g) = <<g[Head(s)]>> \o Chosen(Tail(s), g)
           /\ Head(s) \notin DOMAIN g => Chosen(s, g) = Chosen(Tail(s), g)
BY ChosenShrinks

LEMMA ChosenHas ==
    ASSUME NEW S, NEW s \in Seq(S), NEW g, NEW i \in 1..Len(s), s[i] \in DOMAIN g
    PROVE  \E k \in 1..Len(Chosen(s, g)) : Chosen(s, g)[k] = g[s[i]]
<1>. DEFINE n == Len(s)
            I == {j \in 1..n : s[j] \in DOMAIN g}
            t == [j \in 1..n |-> g[s[j]]]
<1>1. n \in Nat /\ I \in SUBSET (1..n) /\ i \in I /\ t[i] = g[s[i]]
    BY LenProperties
<1>2. Chosen(s, g) = Selected(t, I)
    BY DEF Chosen
<1>. HIDE DEF n, I, t
<1>3. Chosen(s, g) = [k \in 1..Cardinality(I) |-> t[InOrder(I)[k]]]
    BY <1>2, SelectedAt
<1>4. Cardinality(I) \in Nat
    BY <1>1, Places
<1>5. PICK k \in 1..Cardinality(I) : InOrder(I)[k] = i
    BY <1>1, InOrderLists DEF Lists
<1>6. Len(Chosen(s, g)) = Cardinality(I)
    <2>1. \A f : Len([j \in 1..Cardinality(I) |-> t[f[j]]]) = Cardinality(I)
        BY <1>4
    <2>. QED
        BY <1>3, <2>1
<1>7. Chosen(s, g)[k] = g[s[i]]
    BY <1>1, <1>3, <1>5
<1>. QED
    BY <1>5, <1>6, <1>7

LEMMA OneChosen ==
    ASSUME NEW a, NEW g
    PROVE  Chosen(<<a>>, g) = IF a \in DOMAIN g THEN <<g[a]>> ELSE << >>
<1>1. <<a>> \in Seq({a}) /\ <<a>> # << >> /\ Head(<<a>>) = a /\ Tail(<<a>>) = << >>
    OBVIOUS
<1>2. /\ a \in DOMAIN g => Chosen(<<a>>, g) = <<g[a]>> \o Chosen(<< >>, g)
      /\ a \notin DOMAIN g => Chosen(<<a>>, g) = Chosen(<< >>, g)
    BY <1>1, WordOff
<1>3. <<g[a]>> \o << >> = <<g[a]>>
    BY Joined
<1>. QED
    BY <1>2, <1>3, ChosenNone

LEMMA TwoChosen ==
    ASSUME NEW a, NEW b, NEW g, a \notin DOMAIN g
    PROVE  Chosen(<<a, b>>, g) = Chosen(<<b>>, g)
<1>1. <<a, b>> \in Seq({a, b}) /\ <<a, b>> # << >> /\ Head(<<a, b>>) = a /\ Tail(<<a, b>>) = <<b>>
    OBVIOUS
<1>. QED
    BY <1>1, WordOff

LEMMA FirstTaken ==
    ASSUME NEW S, NEW c \in S, NEW s \in Seq(S)
    PROVE  /\ <<c>> \o s # << >> /\ Head(<<c>> \o s) = c /\ Tail(<<c>> \o s) = s
           /\ Append(s, c) = s \o <<c>>
<1>. DEFINE r == <<c>> \o s
<1>1. /\ r \in Seq(S) /\ Len(r) = 1 + Len(s) /\ r[1] = c
      /\ \A i \in 1..Len(s) : r[i + 1] = s[i]
    <2>1. <<c>> \in Seq(S) /\ Len(<<c>>) = 1 /\ <<c>>[1] = c
        OBVIOUS
    <2>2. Len(s) \in Nat
        BY LenProperties
    <2>3. r \in Seq(S) /\ Len(r) = 1 + Len(s)
        BY <2>1, ConcatProperties
    <2>4. \A i \in 1..(1 + Len(s)) : r[i] = IF i <= 1 THEN <<c>>[i] ELSE s[i - 1]
        BY <2>1, ConcatProperties
    <2>5. r[1] = c
        BY <2>1, <2>2, <2>4
    <2>6. \A i \in 1..Len(s) : i + 1 \in 1..(1 + Len(s)) /\ ~(i + 1 <= 1) /\ (i + 1) - 1 = i
        BY <2>2
    <2>. HIDE DEF r
    <2>7. \A i \in 1..Len(s) : r[i + 1] = s[i]
        BY <2>4, <2>6
    <2>. QED
        BY <2>3, <2>5, <2>7
<1>. HIDE DEF r
<1>2. Len(s) \in Nat
    BY LenProperties
<1>3. r # << >>
    BY <1>1, <1>2
<1>4. Head(r) = c /\ Tail(r) \in Seq(S) /\ Len(Tail(r)) = Len(s)
      /\ \A i \in 1..Len(s) : Tail(r)[i] = r[i + 1]
    <2>1. /\ Head(r) = r[1] /\ Tail(r) \in Seq(S) /\ Len(Tail(r)) = Len(r) - 1
          /\ \A i \in 1..(Len(r) - 1) : Tail(r)[i] = r[i + 1]
        BY <1>1, <1>3, HeadTailProperties
    <2>2. Len(r) - 1 = Len(s)
        BY <1>1, <1>2
    <2>. QED
        BY <1>1, <2>1, <2>2
<1>5. Tail(r) = s
    BY <1>1, <1>4, SeqEqual
<1>. QED
    BY <1>3, <1>4, <1>5, AppendIsConcat DEF r

LEMMA Regrouped ==
    ASSUME NEW S, NEW a \in Seq(S), NEW b \in Seq(S), NEW c \in Seq(S), NEW d \in Seq(S)
    PROVE  /\ a \o b \o c \o d = (a \o b) \o (c \o d)
           /\ a \o b \o c \o d = (a \o (b \o c)) \o d
           /\ a \o b \o c \o d = a \o (b \o c \o d)
           /\ a \o b \o c \o d \in Seq(S)
<1>1. \A x, y \in Seq(S) : x \o y \in Seq(S)
    BY ConcatProperties
<1>. DEFINE ab == a \o b
            bc == b \o c
<1>2. ab \in Seq(S) /\ bc \in Seq(S)
    BY <1>1, Zenon
<1>3. ab \o c = a \o bc
    BY ConcatAssociative, SMTT(60)
<1>. HIDE DEF ab, bc
<1>4. (ab \o c) \o d = ab \o (c \o d)
    BY <1>2, ConcatAssociative, SMTT(60)
<1>5. (a \o bc) \o d = a \o (bc \o d)
    BY <1>2, ConcatAssociative, SMTT(60)
<1>6. (ab \o c) \o d \in Seq(S)
    <2>1. ab \o c \in Seq(S)
        BY <1>1, <1>2, Zenon
    <2>. QED
        BY <1>1, <2>1, Zenon
<1>. QED
    BY <1>3, <1>4, <1>5, <1>6 DEF ab, bc
=============================================================================
