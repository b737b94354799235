----------------------------- MODULE DemoProofs -----------------------------
(* Theorems about what is made of a demo: the rounds the parser keeps of it  *)
(* (Rounds), the score it derives from them (Scores) and what the match page *)
(* shows of that (MatchView), for demos of any length, halves of any length  *)
(* and any number of overtimes.                                              *)
EXTENDS Rounds, MatchView, FiniteSetTheorems, SequenceTheorems, TLAPS

-----------------------------------------------------------------------------
(* Induction.                                                              *)

\* Without an operator as parameter: for a property P, T is the set of the numbers that
\* have it, or of those that do not.
LEMMA NatLeast ==
    ASSUME NEW T, T \subseteq Nat, T # {}
    PROVE  \E m \in T : \A k \in T : m <= k
<1>1. PICK t \in T : TRUE
  OBVIOUS
<1> DEFINE S == 1..t
           Below == {s \in SUBSET S : \E k \in T : s = 1..k}
<1>2. t \in Nat
  OBVIOUS
<1>3. S \in Below
  BY <1>1
<1>4. IsWellFoundedOn(StrictSubsetOrdering(S), SUBSET S)
  <2>1. IsFiniteSet(S)
    BY <1>2, FS_Interval
  <2> HIDE DEF S
  <2>2. FiniteSubsetsOf(S) = SUBSET S
    BY <2>1, FS_FiniteSubsetsOfFinite
  <2> QED
    BY <2>2, FS_StrictSubsetOrderingWellFounded
<1>5. Below \subseteq SUBSET S /\ Below # {}
  BY <1>3
<1>6. PICK s \in Below : \A r \in Below : ~(<<r, s>> \in StrictSubsetOrdering(S))
  <2> HIDE DEF Below, S
  <2> QED
    BY <1>4, <1>5, WFMin
<1>7. PICK m \in T : s = 1..m
  OBVIOUS
<1>8. m \in Nat /\ (m = 0 \/ m \in s)
  BY <1>7
<1>9. m <= t
  BY <1>2, <1>7, <1>8
<1>10. ASSUME NEW k \in T, k < m PROVE FALSE
  <2>1. 1..k \in SUBSET S
    BY <1>2, <1>8, <1>9, <1>10
  <2>2. 1..k \in Below
    BY <2>1
  <2>3. 1..k \subseteq s /\ 1..k # s
    BY <1>7, <1>8, <1>10
  <2> QED
    BY <1>6, <2>1, <2>2, <2>3 DEF StrictSubsetOrdering
<1> QED
  BY <1>8, <1>10

LEMMA Counting ==
    ASSUME NEW T, 0 \in T, \A n \in Nat : n \in T => n + 1 \in T
    PROVE  Nat \subseteq T
<1> SUFFICES ASSUME Nat \ T # {} PROVE FALSE
  OBVIOUS
<1>1. PICK m \in Nat \ T : \A k \in Nat \ T : m <= k
  BY NatLeast
<1>2. m # 0 /\ m - 1 \in Nat
  BY <1>1
<1>3. m - 1 \in T
  BY <1>1, <1>2
<1>4. m - 1 + 1 \in T
  BY <1>2, <1>3
<1> QED
  BY <1>1, <1>4

-----------------------------------------------------------------------------
(* The rounds of a demo: selecting from a list.                            *)

\* The place of a number in a set, counted from below, and the number at a place.
Rank(T, m) == Cardinality({k \in T : k < m})

Nth(T, i) == CHOOSE m \in T : Rank(T, m) = i - 1

\* The entries of a list at the indices in a set, in order.
Selected(data, T) == [i \in 1..Cardinality(T) |-> data[Nth(T, i)]]

FiniteNats(T) == IsFiniteSet(T) /\ T \in SUBSET Nat

LEMMA RankTyped ==
    ASSUME NEW T, FiniteNats(T), NEW m \in T
    PROVE  /\ Cardinality(T) \in Nat /\ Rank(T, m) \in Nat /\ Rank(T, m) < Cardinality(T)
           /\ IsFiniteSet({k \in T : k < m})
<1>1. PICK B : B = {k \in T : k < m}
  OBVIOUS
<1>2. m \in Nat
  BY DEF FiniteNats
<1>3. ~(m < m)
  BY <1>2
<1>4. B \in SUBSET T /\ B # T
  BY <1>1, <1>3
<1>5. IsFiniteSet(B) /\ Cardinality(B) <= Cardinality(T) /\ Cardinality(B) # Cardinality(T)
  BY <1>4, FS_Subset DEF FiniteNats
<1>6. Cardinality(B) \in Nat /\ Cardinality(T) \in Nat
  BY <1>5, FS_CardinalityType DEF FiniteNats
<1> QED
  BY <1>1, <1>5, <1>6 DEF Rank

LEMMA RankGrows ==
    ASSUME NEW T, FiniteNats(T), NEW m \in T, NEW n \in T, m < n
    PROVE  Rank(T, m) < Rank(T, n)
<1>1. PICK B, C : B = {k \in T : k < m} /\ C = {k \in T : k < n}
  OBVIOUS
<1>2. m \in Nat /\ n \in Nat
  BY DEF FiniteNats
<1>3. \A k \in T : k \in Nat
  BY DEF FiniteNats
<1>4. \A k \in T : k < m => k < n
  BY <1>2, <1>3
<1>5. B \in SUBSET C /\ m \in C /\ m \notin B
  <2>1. ~(m < m)
    BY <1>2
  <2> QED
    BY <1>1, <1>4, <2>1
<1>6. IsFiniteSet(C) /\ IsFiniteSet(B)
  BY <1>1, RankTyped
<1>7. Cardinality(B) <= Cardinality(C) /\ Cardinality(B) # Cardinality(C)
  BY <1>5, <1>6, FS_Subset
<1>8. Cardinality(B) \in Nat /\ Cardinality(C) \in Nat
  BY <1>6, FS_CardinalityType
<1> QED
  BY <1>1, <1>7, <1>8 DEF Rank

LEMMA RankTells ==
    ASSUME NEW T, FiniteNats(T), NEW m \in T, NEW n \in T
    PROVE  /\ Rank(T, m) = Rank(T, n) => m = n
           /\ Rank(T, m) < Rank(T, n) => m < n
<1>1. m \in Nat /\ n \in Nat /\ Rank(T, m) \in Nat /\ Rank(T, n) \in Nat
  BY RankTyped DEF FiniteNats
<1>2. n < m => Rank(T, n) < Rank(T, m)
  BY RankGrows
<1>3. m < n => Rank(T, m) < Rank(T, n)
  BY RankGrows
<1> QED
  BY <1>1, <1>2, <1>3

\* Every place up to the size of the set is taken.
LEMMA RankTaken ==
    ASSUME NEW T, FiniteNats(T), NEW k \in Nat, k < Cardinality(T)
    PROVE  \E m \in T : Rank(T, m) = k
<1> DEFINE K == {j \in Nat : j < Cardinality(T) => \E m \in T : Rank(T, m) = j}
<1>0. Cardinality(T) \in Nat /\ T \subseteq Nat
  BY FS_CardinalityType DEF FiniteNats
<1>1. 0 \in K
  <2> SUFFICES ASSUME 0 < Cardinality(T) PROVE \E m \in T : Rank(T, m) = 0
    OBVIOUS
  <2>1. T # {}
    BY FS_EmptySet
  <2>2. PICK m \in T : \A j \in T : m <= j
    BY <1>0, <2>1, NatLeast
  <2>3. \A j \in T : ~(j < m)
    BY <1>0, <2>2
  <2>4. {j \in T : j < m} = {}
    BY <2>3
  <2> QED
    BY <2>4, FS_EmptySet DEF Rank
<1>2. ASSUME NEW j \in Nat, j \in K PROVE j + 1 \in K
  <2> SUFFICES ASSUME j + 1 < Cardinality(T) PROVE \E m \in T : Rank(T, m) = j + 1
    OBVIOUS
  <2>1. PICK m \in T : Rank(T, m) = j
    BY <1>0, <1>2
  <2>2. PICK B : B = {i \in T : i < m}
    OBVIOUS
  <2>3. IsFiniteSet(B) /\ Cardinality(B) = j /\ m \in Nat
    BY <1>0, <2>1, <2>2, RankTyped DEF Rank
  <2>4. m \notin B
    BY <2>2, <2>3
  <2>5. Cardinality(B \union {m}) = j + 1
    BY <2>3, <2>4, FS_AddElement
  <2>6. PICK U : U = {i \in T : m < i}
    OBVIOUS
  <2>7. U # {}
    <3> SUFFICES ASSUME U = {} PROVE FALSE
      OBVIOUS
    <3>1. \A i \in T : i < m \/ i = m
      BY <1>0, <2>3, <2>6
    <3>2. T = B \union {m}
      BY <2>2, <3>1
    <3> QED
      BY <1>0, <2>5, <3>2
  <2>8. PICK n \in U : \A i \in U : n <= i
    BY <1>0, <2>6, <2>7, NatLeast
  <2>9. n \in T /\ n \in Nat /\ m < n
    BY <1>0, <2>6
  <2>10. ASSUME NEW i \in T PROVE i < n <=> (i < m \/ i = m)
    <3>1. i \in Nat /\ (m < i => n <= i)
      BY <1>0, <2>6, <2>8
    <3> QED
      BY <2>3, <2>9, <3>1
  <2>11. {i \in T : i < n} = B \union {m}
    BY <2>2, <2>10
  <2> QED
    BY <2>5, <2>9, <2>11 DEF Rank
<1>3. k \in K
  <2> HIDE DEF K
  <2> QED
    BY <1>1, <1>2, Counting
<1> QED
  BY <1>3

LEMMA NthIs ==
    ASSUME NEW T, FiniteNats(T), NEW i \in 1..Cardinality(T)
    PROVE  Nth(T, i) \in T /\ Rank(T, Nth(T, i)) = i - 1
<1>1. Cardinality(T) \in Nat
  BY FS_CardinalityType DEF FiniteNats
<1>2. i - 1 \in Nat /\ i - 1 < Cardinality(T)
  BY <1>1
<1>3. \E m \in T : Rank(T, m) = i - 1
  BY <1>2, RankTaken
<1> QED
  BY <1>3 DEF Nth

LEMMA NthGrows ==
    ASSUME NEW T, FiniteNats(T), NEW i \in 1..Cardinality(T), NEW j \in 1..Cardinality(T), i < j
    PROVE  Nth(T, i) < Nth(T, j)
<1>1. Nth(T, i) \in T /\ Nth(T, j) \in T
  BY NthIs
<1>2. Rank(T, Nth(T, i)) = i - 1 /\ Rank(T, Nth(T, j)) = j - 1
  BY NthIs
<1>3. i - 1 < j - 1
  <2>1. Cardinality(T) \in Nat
    BY FS_CardinalityType DEF FiniteNats
  <2> QED
    BY <2>1
<1> QED
  BY <1>1, <1>2, <1>3, RankTells

\* The numbers at the places are all the numbers of the set.
LEMMA NthAll ==
    ASSUME NEW T, FiniteNats(T), NEW m \in T
    PROVE  \E i \in 1..Cardinality(T) : Nth(T, i) = m
<1>1. PICK r \in Nat : r = Rank(T, m) /\ r < Cardinality(T) /\ Cardinality(T) \in Nat
  BY RankTyped
<1>2. PICK i : i = r + 1 /\ i \in 1..Cardinality(T) /\ i - 1 = Rank(T, m)
  BY <1>1
<1>3. Nth(T, i) \in T /\ Rank(T, Nth(T, i)) = Rank(T, m)
  BY <1>2, NthIs
<1> QED
  BY <1>2, <1>3, RankTells

\* A number greater than all of a set takes the place behind them.
LEMMA NthNext ==
    ASSUME NEW S, FiniteNats(S), NEW x \in Nat, \A k \in S : k < x
    PROVE  /\ FiniteNats(S \union {x})
           /\ Cardinality(S) \in Nat
           /\ Cardinality(S \union {x}) = Cardinality(S) + 1
           /\ \A i \in 1..Cardinality(S) : Nth(S \union {x}, i) = Nth(S, i)
           /\ Nth(S \union {x}, Cardinality(S) + 1) = x
<1>1. x \notin S
  OBVIOUS
<1>2. PICK T : T = S \union {x}
  OBVIOUS
<1>3. FiniteNats(T) /\ Cardinality(T) = Cardinality(S) + 1 /\ Cardinality(S) \in Nat
  BY <1>1, <1>2, FS_AddElement, FS_CardinalityType DEF FiniteNats
<1>4. ASSUME NEW m \in S PROVE Rank(T, m) = Rank(S, m)
  <2>1. m < x /\ m \in Nat
    BY DEF FiniteNats
  <2>2. ~(x < m)
    BY <2>1
  <2>3. {k \in T : k < m} = {k \in S : k < m}
    BY <1>2, <2>2
  <2> QED
    BY <2>3 DEF Rank
<1>5. Rank(T, x) = Cardinality(S)
  <2>1. {k \in T : k < x} = S
    BY <1>2
  <2> QED
    BY <2>1 DEF Rank
<1>6. ASSUME NEW i \in 1..Cardinality(S) PROVE Nth(T, i) = Nth(S, i)
  <2>1. i \in 1..Cardinality(T)
    BY <1>3
  <2>2. Nth(S, i) \in S /\ Rank(S, Nth(S, i)) = i - 1
    BY NthIs
  <2>3. Nth(T, i) \in T /\ Rank(T, Nth(T, i)) = i - 1
    BY <1>3, <2>1, NthIs
  <2>4. Nth(S, i) \in T /\ Rank(T, Nth(S, i)) = i - 1
    BY <1>2, <1>4, <2>2
  <2>5. Rank(T, Nth(T, i)) = Rank(T, Nth(S, i))
    BY <2>3, <2>4
  <2> QED
    BY <1>3, <2>3, <2>4, <2>5, RankTells
<1>7. Nth(T, Cardinality(S) + 1) = x
  <2>1. PICK i : i = Cardinality(S) + 1
    OBVIOUS
  <2>2. i \in 1..Cardinality(T) /\ i - 1 = Cardinality(S)
    BY <1>3, <2>1
  <2>3. Nth(T, i) \in T /\ Rank(T, Nth(T, i)) = Rank(T, x) /\ x \in T
    BY <1>2, <1>3, <1>5, <2>2, NthIs
  <2> QED
    BY <1>3, <2>1, <2>3, RankTells
<1> QED
  BY <1>2, <1>3, <1>6, <1>7

LEMMA SelectedTyped ==
    ASSUME NEW X, NEW data \in Seq(X), NEW T, FiniteNats(T), T \in SUBSET DOMAIN data
    PROVE  Selected(data, T) \in Seq(X) /\ Len(Selected(data, T)) = Cardinality(T)
<1>1. Cardinality(T) \in Nat
  BY FS_CardinalityType DEF FiniteNats
<1>2. \A i \in 1..Cardinality(T) : Nth(T, i) \in DOMAIN data
  BY NthIs
<1>3. \A i \in 1..Cardinality(T) : data[Nth(T, i)] \in X
  BY <1>2
<1> QED
  BY <1>1, <1>3 DEF Selected

LEMMA SelectedNext ==
    ASSUME NEW X, NEW data \in Seq(X), NEW S, FiniteNats(S), S \in SUBSET DOMAIN data,
           NEW x \in DOMAIN data, \A k \in S : k < x
    PROVE  Selected(data, S \union {x}) = Append(Selected(data, S), data[x])
<1>1. PICK T : T = S \union {x}
  OBVIOUS
<1>2. x \in Nat
  OBVIOUS
<1>3. /\ Cardinality(S) \in Nat /\ Cardinality(T) = Cardinality(S) + 1
      /\ \A i \in 1..Cardinality(S) : Nth(T, i) = Nth(S, i)
      /\ Nth(T, Cardinality(S) + 1) = x
  BY <1>1, <1>2, NthNext
<1>4. PICK c \in Nat : c = Cardinality(S)
  BY <1>3
<1>5. Selected(data, S) \in Seq(X) /\ Len(Selected(data, S)) = c /\ data[x] \in X
  BY <1>4, SelectedTyped
<1>6. Append(Selected(data, S), data[x])
        = [i \in 1..(c + 1) |-> IF i = c + 1 THEN data[x] ELSE Selected(data, S)[i]]
  <2>1. PICK s \in Seq(X), e \in X : s = Selected(data, S) /\ e = data[x] /\ Len(s) = c
    BY <1>5
  <2>2. Append(s, e) \in Seq(X)
    OBVIOUS
  <2>3. PICK t \in Seq(X) : t = Append(s, e)
    BY <2>2
  <2>4. Len(t) = c + 1 /\ t[c + 1] = e /\ \A i \in 1..c : t[i] = s[i]
    BY <2>1, <2>3
  <2>5. DOMAIN t = 1..(c + 1) /\ t = [i \in DOMAIN t |-> t[i]]
    BY <2>4
  <2>6. \A i \in 1..(c + 1) : t[i] = IF i = c + 1 THEN e ELSE s[i]
    BY <2>4
  <2> QED
    BY <2>1, <2>3, <2>5, <2>6
<1>7. Selected(data, T) = [i \in 1..(c + 1) |-> data[Nth(T, i)]]
  BY <1>3, <1>4 DEF Selected
<1>8. ASSUME NEW i \in 1..(c + 1)
      PROVE  data[Nth(T, i)] = IF i = c + 1 THEN data[x] ELSE Selected(data, S)[i]
  <2>1. CASE i = c + 1
    BY <1>3, <1>4, <2>1
  <2>2. CASE i # c + 1
    <3>1. i \in 1..Cardinality(S)
      BY <1>4, <2>2
    <3> QED
      BY <1>3, <2>2, <3>1 DEF Selected
  <2> QED
    BY <2>1, <2>2
<1> QED
  BY <1>1, <1>6, <1>7, <1>8

-----------------------------------------------------------------------------
(* The filter of live rounds.                                              *)

LiveRounds == {i \in DOMAIN isLive : isLive[i]}

LEMMA FiniteBelow ==
    ASSUME NEW n \in Nat, NEW T \in SUBSET (1..n)
    PROVE  FiniteNats(T)
<1>1. IsFiniteSet(1..n) /\ 1..n \in SUBSET Nat
  BY FS_Interval
<1> QED
  BY <1>1, FS_Subset DEF FiniteNats

LEMMA MaxIs ==
    ASSUME NEW n \in Nat, NEW T \in SUBSET (1..n), T # {}
    PROVE  Max(T) \in T /\ \A y \in T : y <= Max(T)
<1> DEFINE U == {u \in Nat : \A y \in T : y <= u}
<1>1. n \in U
  OBVIOUS
<1>2. PICK u \in U : \A k \in U : u <= k
  <2>1. U \subseteq Nat /\ U # {}
    BY <1>1
  <2> HIDE DEF U
  <2> QED
    BY <2>1, NatLeast
<1>3. u \in T
  <2> SUFFICES ASSUME u \notin T PROVE FALSE
    OBVIOUS
  <2>1. \A y \in T : y \in Nat /\ y >= 1 /\ y <= u /\ y # u
    BY <1>2
  <2>2. u \in Nat /\ u # 0
    <3>1. PICK y \in T : TRUE
      OBVIOUS
    <3> QED
      BY <1>2, <2>1, <3>1
  <2>3. PICK v \in Nat : u = v + 1
    <3>1. u - 1 \in Nat /\ u = (u - 1) + 1
      BY <2>2
    <3> QED
      BY <3>1
  <2>4. \A y \in T : y <= v
    BY <2>1, <2>3
  <2>5. v \in U
    BY <2>4
  <2> QED
    BY <1>2, <2>3, <2>5
<1>4. \A y \in T : u >= y
  BY <1>2
<1>5. Max(T) \in T /\ \A y \in T : Max(T) >= y
  BY <1>3, <1>4 DEF Max
<1>6. \A y \in T : y \in Nat
  OBVIOUS
<1> QED
  BY <1>5, <1>6

\* What the loop over the indices of a list keeps, when it has looked at those in S.
LEMMA FilterStep ==
    ASSUME NEW X, NEW data \in Seq(X), Len(data) = Len(isLive), isLive \in Seq(BOOLEAN),
           NEW S \in SUBSET DOMAIN data, S # {}
    PROVE  LET x == Max(S)
           IN  /\ x \in S /\ S \ {x} \in SUBSET DOMAIN data
               /\ Selected(data, S \intersect LiveRounds)
                    = IF isLive[x] THEN Append(Selected(data, (S \ {x}) \intersect LiveRounds), data[x])
                      ELSE Selected(data, (S \ {x}) \intersect LiveRounds)
<1>1. PICK n \in Nat : n = Len(data) /\ DOMAIN data = 1..n /\ DOMAIN isLive = 1..n
  OBVIOUS
<1>2. PICK x \in S : x = Max(S) /\ \A y \in S : y <= x
  BY <1>1, MaxIs
<1>3. PICK A : A = (S \ {x}) \intersect LiveRounds
  OBVIOUS
<1>4. FiniteNats(A) /\ A \in SUBSET DOMAIN data
  BY <1>1, <1>3, FiniteBelow
<1>5. \A k \in A : k < x
  <2>1. \A k \in A : k \in 1..n /\ k <= x /\ k # x
    BY <1>1, <1>2, <1>3
  <2>2. x \in 1..n
    BY <1>1
  <2> QED
    BY <2>1, <2>2
<1>6. CASE isLive[x]
  <2>1. S \intersect LiveRounds = A \union {x}
    BY <1>1, <1>3, <1>6 DEF LiveRounds
  <2>2. x \in DOMAIN data
    OBVIOUS
  <2>3. Selected(data, A \union {x}) = Append(Selected(data, A), data[x])
    BY <1>4, <1>5, <2>2, SelectedNext
  <2> QED
    BY <1>2, <1>3, <1>6, <2>1, <2>3
<1>7. CASE ~isLive[x]
  <2>1. S \intersect LiveRounds = A
    BY <1>3, <1>7 DEF LiveRounds
  <2> QED
    BY <1>2, <1>3, <1>7, <2>1
<1> QED
  BY <1>6, <1>7

\* A function that looks at the indices of a list one after the other, as the loop does.
Filters(f, data) ==
    \A S \in SUBSET DOMAIN data :
        f[S] = IF S = {} THEN <<>>
               ELSE IF isLive[Max(S)] THEN Append(f[S \ {Max(S)}], data[Max(S)])
               ELSE f[S \ {Max(S)}]

LEMMA SelectedNone ==
    ASSUME NEW data
    PROVE  Selected(data, {}) = <<>>
BY FS_EmptySet DEF Selected

LEMMA FiltersUnique ==
    ASSUME NEW X, NEW data \in Seq(X), Len(data) = Len(isLive), isLive \in Seq(BOOLEAN),
           NEW f, Filters(f, data), NEW D \in SUBSET DOMAIN data
    PROVE  f[D] = Selected(data, D \intersect LiveRounds)
<1> DEFINE W == {S \in SUBSET DOMAIN data : f[S] # Selected(data, S \intersect LiveRounds)}
<1> SUFFICES ASSUME W # {} PROVE FALSE
  OBVIOUS
<1>1. IsWellFoundedOn(StrictSubsetOrdering(DOMAIN data), SUBSET DOMAIN data)
  <2>1. IsFiniteSet(DOMAIN data)
    <3>1. Len(data) \in Nat /\ DOMAIN data = 1..Len(data)
      OBVIOUS
    <3> QED
      BY <3>1, FS_Interval
  <2> QED
    BY <2>1, FS_StrictSubsetOrderingWellFounded, FS_FiniteSubsetsOfFinite
<1>2. PICK S \in W : \A R \in W : ~(<<R, S>> \in StrictSubsetOrdering(DOMAIN data))
  <2>1. W \subseteq SUBSET DOMAIN data
    OBVIOUS
  <2> HIDE DEF W
  <2> QED
    BY <1>1, <2>1, WFMin
<1>3. S \in SUBSET DOMAIN data /\ f[S] # Selected(data, S \intersect LiveRounds)
  OBVIOUS
<1>4. S # {}
  <2> SUFFICES ASSUME S = {} PROVE FALSE
    OBVIOUS
  <2>1. S \intersect LiveRounds = {} /\ f[S] = <<>>
    BY <1>3 DEF Filters
  <2> QED
    BY <1>3, <2>1, SelectedNone
<1>5. PICK x, R : x = Max(S) /\ R = S \ {x}
  OBVIOUS
<1>6. /\ x \in S /\ R \in SUBSET DOMAIN data
      /\ Selected(data, S \intersect LiveRounds)
           = IF isLive[x] THEN Append(Selected(data, R \intersect LiveRounds), data[x])
             ELSE Selected(data, R \intersect LiveRounds)
  BY <1>3, <1>4, <1>5, FilterStep
<1>7. f[S] = IF isLive[x] THEN Append(f[R], data[x]) ELSE f[R]
  BY <1>3, <1>4, <1>5 DEF Filters
<1>8. R \notin W
  <2>1. <<R, S>> \in StrictSubsetOrdering(DOMAIN data)
    BY <1>3, <1>5, <1>6 DEF StrictSubsetOrdering
  <2> HIDE DEF W
  <2> QED
    BY <1>2, <2>1
<1>9. f[R] = Selected(data, R \intersect LiveRounds)
  BY <1>6, <1>8
<1> QED
  BY <1>3, <1>6, <1>7, <1>9

LEMMA FilterSelects ==
    ASSUME NEW X, NEW data \in Seq(X), Len(data) = Len(isLive), isLive \in Seq(BOOLEAN)
    PROVE  FilterByLiveRounds(data) = Selected(data, LiveRounds)
<1> DEFINE D == DOMAIN data
           Step(f, S) == IF S = {} THEN <<>>
                         ELSE IF isLive[Max(S)] THEN Append(f[S \ {Max(S)}], data[Max(S)])
                         ELSE f[S \ {Max(S)}]
           Id == [i \in D |-> i]
           IdStep(f, S) == IF S = {} THEN <<>>
                           ELSE IF isLive[Id[Max(S)]]
                                  THEN Append(f[S \ {Max(S)}], data[Id[Max(S)]])
                           ELSE f[S \ {Max(S)}]
           loop == CHOOSE f : f = [S \in SUBSET DOMAIN Id |-> IdStep(f, S)]
<1>1. PICK g : g = [S \in SUBSET D |-> Selected(data, S \intersect LiveRounds)]
  OBVIOUS
<1>2. ASSUME NEW S \in SUBSET D PROVE g[S] = Step(g, S)
  <2>1. CASE S = {}
    <3>1. S \intersect LiveRounds = {}
      BY <2>1
    <3> QED
      BY <1>1, <2>1, <3>1, SelectedNone
  <2>2. CASE S # {}
    <3>1. PICK x, R : x = Max(S) /\ R = S \ {x}
      OBVIOUS
    <3>2. /\ R \in SUBSET DOMAIN data
          /\ Selected(data, S \intersect LiveRounds)
               = IF isLive[x] THEN Append(Selected(data, R \intersect LiveRounds), data[x])
                 ELSE Selected(data, R \intersect LiveRounds)
      BY <2>2, <3>1, FilterStep
    <3>3. g[S] = Selected(data, S \intersect LiveRounds) /\ g[R] = Selected(data, R \intersect LiveRounds)
      BY <1>1, <3>2
    <3> QED
      BY <2>2, <3>1, <3>2, <3>3
  <2> QED
    BY <2>1, <2>2
<1>3. ASSUME NEW f, NEW S \in SUBSET D PROVE IdStep(f, S) = Step(f, S)
  <2>1. CASE S = {}
    BY <2>1
  <2>2. CASE S # {}
    <3>1. Max(S) \in D
      BY <2>2, FilterStep
    <3>2. Id[Max(S)] = Max(S)
      BY <3>1
    <3> HIDE DEF Id
    <3> QED
      BY <2>2, <3>2
  <2> QED
    BY <2>1, <2>2
<1>4. Filters(loop, data)
  <2>1. g = [S \in SUBSET D |-> IdStep(g, S)]
    <3> HIDE DEF Step, IdStep
    <3> QED
      BY <1>1, <1>2, <1>3
  <2>2. DOMAIN Id = D
    OBVIOUS
  <2>3. loop = [S \in SUBSET D |-> IdStep(loop, S)]
    <3> HIDE DEF IdStep, Id
    <3> QED
      BY <2>1, <2>2
  <2>4. \A S \in SUBSET D : loop[S] = IdStep(loop, S)
    <3> HIDE DEF IdStep, loop
    <3> QED
      BY <2>3
  <2>5. \A S \in SUBSET D : loop[S] = Step(loop, S)
    <3> HIDE DEF Step, IdStep, loop
    <3> QED
      BY <1>3, <2>4
  <2> HIDE DEF loop
  <2> QED
    BY <2>5 DEF Filters
<1>5. loop[D] = Selected(data, D \intersect LiveRounds)
  <2> HIDE DEF loop
  <2> QED
    BY <1>4, FiltersUnique
<1>6. D \intersect LiveRounds = LiveRounds
  BY DEF LiveRounds
<1>7. FilterByLiveRounds(data) = loop[DOMAIN Id]
  BY DEF FilterByLiveRounds, FoldLeftDomain, FoldLeft, MapThenFoldSet
<1>8. DOMAIN Id = D
  OBVIOUS
<1> QED
  BY <1>5, <1>6, <1>7, <1>8

-----------------------------------------------------------------------------
(* The arrays while the demo is parsed.                                    *)

KillEntries == [no: Numbered, total: 0..MaxKills]
RoundEntries == [no: Numbered, ended: BOOLEAN, planter: Numbered \union {0}]
WinnerEntries == [no: Numbered, nil: BOOLEAN]

\* An entry of each array for every RoundStart, and winners only of a round that has ended.
Entry(i) ==
    /\ kills[i].no = i
    /\ allRounds[i].no = i /\ allRounds[i].planter \in {0, i}
    /\ winners[i].no = i
    /\ winners[i].nil \/ allRounds[i].ended

Building ==
    /\ Len(kills) = Len(isLive) /\ Len(allRounds) = Len(isLive) /\ Len(winners) = Len(isLive)
    /\ planter \in {0, Len(isLive)}
    /\ \A i \in DOMAIN isLive : Entry(i)

StartsHeard == IF heard = <<>> THEN 0 ELSE Last(heard)

\* The flag of a round says what was heard by its end, and the next round starts with what
\* was heard by the end of the last.
LiveAsHeard ==
    /\ \A i \in DOMAIN isLive : isLive[i] <=> OnAir(i)
    /\ live <=> (heard # <<>> /\ OnAir(Len(heard)))
    /\ mode = "esea" => starts = StartsHeard % 4

ParseSound ==
    /\ ParseTypeOK
    /\ Len(isLive) = Len(heard)
    /\ Parsing => Building
    /\ Aligned
    /\ BombInItsRound
    /\ UseLiveMode => LiveAsHeard
    /\ KeptRoundsAreReal

LEMMA SetLastIs ==
    ASSUME NEW X, NEW s \in Seq(X), s # <<>>, NEW e \in X
    PROVE  /\ SetLast(s, e) \in Seq(X) /\ Len(SetLast(s, e)) = Len(s)
           /\ SetLast(s, e)[Len(s)] = e
           /\ \A i \in 1..Len(s) : i # Len(s) => SetLast(s, e)[i] = s[i]
<1>1. Len(s) \in Nat \ {0} /\ DOMAIN s = 1..Len(s)
  OBVIOUS
<1>2. SetLast(s, e) = [i \in 1..Len(s) |-> IF i = Len(s) THEN e ELSE s[i]]
  BY <1>1 DEF SetLast
<1>3. Len(s) \in 1..Len(s)
  BY <1>1
<1>4. SetLast(s, e) \in Seq(X) /\ Len(SetLast(s, e)) = Len(s)
  BY <1>1 DEF SetLast
<1> QED
  BY <1>2, <1>3, <1>4

LEMMA AppendIs ==
    ASSUME NEW X, NEW s \in Seq(X), NEW e \in X
    PROVE  /\ Append(s, e) \in Seq(X) /\ Len(Append(s, e)) = Len(s) + 1 /\ Len(s) \in Nat
           /\ Append(s, e) # <<>>
           /\ \A i \in 1..(Len(s) + 1) : Append(s, e)[i] = IF i = Len(s) + 1 THEN e ELSE s[i]
OBVIOUS

LEMMA LastIs ==
    ASSUME NEW X, NEW s \in Seq(X), s # <<>>
    PROVE  Len(s) \in Nat \ {0} /\ Last(s) = s[Len(s)] /\ Last(s) \in X /\ Len(s) \in DOMAIN s
<1>1. Len(s) \in Nat \ {0} /\ DOMAIN s = 1..Len(s)
  OBVIOUS
<1>2. s[Len(s)] \in X
  BY <1>1
<1> QED
  BY <1>1, <1>2 DEF Last

\* What the arrays' invariant says while the demo is parsed.
LEMMA BuildingSuffices ==
    ParseTypeOK /\ Parsing /\ Building => Aligned /\ BombInItsRound /\ KeptRoundsAreReal
<1> SUFFICES ASSUME ParseTypeOK, Parsing, Building
             PROVE  Aligned /\ BombInItsRound /\ KeptRoundsAreReal
  OBVIOUS
<1>1. PICK n \in Nat : n = Len(isLive) /\ DOMAIN isLive = 1..n
  BY DEF ParseTypeOK
<1>2. DOMAIN kills = 1..n /\ DOMAIN allRounds = 1..n /\ DOMAIN winners = 1..n
  BY <1>1 DEF Building, ParseTypeOK
<1>3. \A i \in 1..n : Entry(i)
  BY <1>1 DEF Building
<1>4. /\ Numbers(kills) = [i \in 1..n |-> i]
      /\ Numbers(allRounds) = [i \in 1..n |-> i]
      /\ Numbers(winners) = [i \in 1..n |-> i]
  BY <1>2, <1>3 DEF Numbers, Entry
<1>5. Aligned
  BY <1>1, <1>2, <1>4 DEF Aligned, Building
<1>6. BombInItsRound
  BY <1>2, <1>3 DEF BombInItsRound, Entry
<1>7. KeptRoundsAreReal
  BY DEF KeptRoundsAreReal, Parsing
<1> QED
  BY <1>5, <1>6, <1>7

LEMMA ParseInitSound == ParseInit => ParseSound
<1> SUFFICES ASSUME ParseInit PROVE ParseSound
  OBVIOUS
<1>1. ParseTypeOK
  <2>1. MaxRoundStarts[mode] \in Nat
    BY BoundsAssumption DEF ParseInit
  <2> QED
    BY <2>1 DEF ParseInit, ParseTypeOK, Phases
<1>2. Building
  BY DEF ParseInit, Building
<1>3. ASSUME UseLiveMode PROVE LiveAsHeard
  <2>1. mode # "other" /\ isLive = <<>> /\ heard = <<>> /\ starts = 0
    BY <1>3 DEF ParseInit, UseLiveMode
  <2>2. ~live
    BY <2>1 DEF ParseInit
  <2>3. StartsHeard % 4 = 0
    BY <2>1 DEF StartsHeard
  <2> QED
    BY <2>1, <2>2, <2>3 DEF LiveAsHeard
<1> QED
  BY <1>1, <1>2, <1>3, BuildingSuffices DEF ParseSound, ParseInit, Parsing

\* The lists that are built, all of the length of isLive.
LEMMA ListsBuilt ==
    ASSUME ParseSound, Parsing
    PROVE  /\ mode \in Modes /\ MaxRoundStarts[mode] \in Nat
           /\ kills \in Seq(KillEntries) /\ allRounds \in Seq(RoundEntries)
           /\ winners \in Seq(WinnerEntries) /\ isLive \in Seq(BOOLEAN)
           /\ heard \in Seq(0..MaxStarts)
           /\ Len(kills) \in Nat /\ Len(kills) <= MaxRoundStarts[mode]
           /\ Len(isLive) = Len(kills) /\ Len(allRounds) = Len(kills)
           /\ Len(winners) = Len(kills) /\ Len(heard) = Len(kills)
           /\ planter \in {0, Len(kills)}
           /\ \A i \in 1..Len(kills) : Entry(i)
<1>1. /\ kills \in Seq(KillEntries) /\ allRounds \in Seq(RoundEntries)
      /\ winners \in Seq(WinnerEntries) /\ isLive \in Seq(BOOLEAN)
      /\ heard \in Seq(0..MaxStarts) /\ Len(heard) <= MaxRoundStarts[mode] /\ mode \in Modes
  BY DEF ParseSound, ParseTypeOK, KillEntries, RoundEntries, WinnerEntries
<1>2. Building /\ Len(isLive) = Len(heard)
  BY DEF ParseSound
<1>3. Len(isLive) = Len(kills) /\ DOMAIN isLive = 1..Len(kills) /\ Len(kills) \in Nat
  BY <1>1, <1>2 DEF Building
<1> QED
  BY <1>1, <1>2, <1>3, BoundsAssumption DEF Building

\* A step that goes on parsing.
LEMMA StillParsing ==
    ASSUME ParseTypeOK', Parsing', Building', (Len(isLive) = Len(heard))',
           (UseLiveMode => LiveAsHeard)'
    PROVE  ParseSound'
<1>1. (ParseTypeOK /\ Parsing /\ Building => Aligned /\ BombInItsRound /\ KeptRoundsAreReal)'
  BY BuildingSuffices, PTL
<1> QED
  BY <1>1 DEF ParseSound

LEMMA RoundStartSound ==
    ASSUME ParseSound, RoundStart
    PROVE  ParseSound'
<1>0. Parsing /\ Parsing' /\ mode' = mode
  BY DEF RoundStart, Parsing
<1>1. PICK n \in Nat : n = Len(kills) /\ n + 1 <= MaxRoundStarts[mode] /\ MaxRoundStarts[mode] \in Nat
  BY <1>0, ListsBuilt DEF RoundStart
<1>2. /\ kills \in Seq(KillEntries) /\ allRounds \in Seq(RoundEntries)
      /\ winners \in Seq(WinnerEntries) /\ isLive \in Seq(BOOLEAN) /\ heard \in Seq(0..MaxStarts)
      /\ Len(kills) = n /\ Len(allRounds) = n /\ Len(winners) = n /\ Len(isLive) = n
      /\ Len(heard) = n
  BY <1>0, <1>1, ListsBuilt
<1>3. n + 1 \in Numbered /\ Numbered' = Numbered
  BY <1>0, <1>1 DEF Numbered
<1>4. PICK k \in KillEntries, r \in RoundEntries, w \in WinnerEntries, h \in 0..MaxStarts :
        /\ k = [no |-> n + 1, total |-> 0] /\ r = ZeroRound(n + 1)
        /\ w = [no |-> n + 1, nil |-> TRUE] /\ h = StartsHeard
  <2>1. [no |-> n + 1, total |-> 0] \in KillEntries
    BY <1>3, BoundsAssumption DEF KillEntries
  <2>2. ZeroRound(n + 1) \in RoundEntries
    BY <1>3 DEF RoundEntries, ZeroRound
  <2>3. [no |-> n + 1, nil |-> TRUE] \in WinnerEntries
    BY <1>3 DEF WinnerEntries
  <2>4. StartsHeard \in 0..MaxStarts
    BY <1>2, BoundsAssumption, LastIs DEF StartsHeard
  <2> QED
    BY <2>1, <2>2, <2>3, <2>4
<1>5. /\ kills' = Append(kills, k) /\ allRounds' = Append(allRounds, r)
      /\ winners' = Append(winners, w) /\ isLive' = Append(isLive, live)
      /\ heard' = Append(heard, h) /\ live \in BOOLEAN /\ planter' = 0
      /\ UNCHANGED <<live, starts>>
  BY <1>1, <1>4 DEF RoundStart, ResetRoundState, StartsHeard, ParseSound, ParseTypeOK
<1>6. /\ kills' \in Seq(KillEntries) /\ Len(kills') = n + 1
      /\ \A i \in 1..(n + 1) : kills'[i] = IF i = n + 1 THEN k ELSE kills[i]
  BY <1>2, <1>4, <1>5, AppendIs
<1>7. /\ allRounds' \in Seq(RoundEntries) /\ Len(allRounds') = n + 1
      /\ \A i \in 1..(n + 1) : allRounds'[i] = IF i = n + 1 THEN r ELSE allRounds[i]
  BY <1>2, <1>4, <1>5, AppendIs
<1>8. /\ winners' \in Seq(WinnerEntries) /\ Len(winners') = n + 1
      /\ \A i \in 1..(n + 1) : winners'[i] = IF i = n + 1 THEN w ELSE winners[i]
  BY <1>2, <1>4, <1>5, AppendIs
<1>9. /\ isLive' \in Seq(BOOLEAN) /\ Len(isLive') = n + 1
      /\ \A i \in 1..(n + 1) : isLive'[i] = IF i = n + 1 THEN live ELSE isLive[i]
  BY <1>2, <1>5, AppendIs
<1>10. /\ heard' \in Seq(0..MaxStarts) /\ Len(heard') = n + 1 /\ heard' # <<>>
       /\ \A i \in 1..(n + 1) : heard'[i] = IF i = n + 1 THEN h ELSE heard[i]
  BY <1>2, <1>4, <1>5, AppendIs
<1>11. ParseTypeOK'
  BY <1>0, <1>1, <1>3, <1>5, <1>6, <1>7, <1>8, <1>9, <1>10
     DEF ParseSound, ParseTypeOK, KillEntries, RoundEntries, WinnerEntries, Parsing, RoundStart
<1>12. Building'
  <2>1. ASSUME NEW i \in 1..(n + 1) PROVE Entry(i)'
    <3>1. CASE i = n + 1
      BY <1>4, <1>6, <1>7, <1>8, <3>1 DEF Entry, ZeroRound
    <3>2. CASE i # n + 1
      <4>1. i \in 1..n
        BY <3>2
      <4>2. Entry(i)
        BY <1>0, <1>1, <4>1, ListsBuilt
      <4> QED
        BY <1>6, <1>7, <1>8, <3>2, <4>2 DEF Entry
    <3> QED
      BY <3>1, <3>2
  <2>2. DOMAIN isLive' = 1..(n + 1)
    BY <1>9
  <2> QED
    BY <1>5, <1>6, <1>7, <1>8, <1>9, <2>1, <2>2 DEF Building
<1>13. ASSUME UseLiveMode PROVE LiveAsHeard'
  <2>1. LiveAsHeard /\ mode \in {"valve", "esea"}
    BY <1>13 DEF ParseSound, UseLiveMode
  <2>2. ASSUME NEW i \in 1..n PROVE OnAir(i)' <=> OnAir(i)
    <3>1. heard'[i] = heard[i]
      BY <1>10
    <3> QED
      BY <1>0, <2>1, <3>1 DEF OnAir
  <2>3. OnAir(n + 1)' <=> live
    <3>1. heard'[n + 1] = h
      BY <1>10
    <3>2. CASE heard = <<>>
      <4>1. ~live /\ h = 0
        BY <1>4, <2>1, <3>2 DEF LiveAsHeard, StartsHeard
      <4>2. heard'[n + 1] = 0 /\ ~(0 > 0) /\ mode' \in {"valve", "esea"}
        BY <1>0, <2>1, <3>1, <4>1
      <4> QED
        BY <4>1, <4>2 DEF OnAir
    <3>3. CASE heard # <<>>
      <4>1. h = heard[n]
        BY <1>2, <1>4, <3>3, LastIs DEF StartsHeard
      <4>2. live <=> OnAir(n)
        BY <1>2, <2>1, <3>3 DEF LiveAsHeard
      <4> QED
        BY <1>0, <2>1, <3>1, <4>1, <4>2 DEF OnAir
    <3> QED
      BY <3>2, <3>3
  <2>4. ASSUME NEW i \in 1..(n + 1) PROVE isLive'[i] <=> OnAir(i)'
    <3>1. CASE i = n + 1
      BY <1>9, <2>3, <3>1
    <3>2. CASE i # n + 1
      <4>1. i \in 1..n /\ i \in DOMAIN isLive
        BY <1>2, <3>2
      <4> QED
        BY <1>9, <2>1, <2>2, <3>2, <4>1 DEF LiveAsHeard
    <3> QED
      BY <3>1, <3>2
  <2>5. StartsHeard' = StartsHeard
    <3>1. Last(heard') = h
      BY <1>10 DEF Last
    <3> QED
      BY <1>4, <1>10, <3>1 DEF StartsHeard
  <2>6. DOMAIN isLive' = 1..(n + 1)
    BY <1>9
  <2>7. live' = live /\ starts' = starts
    BY <1>5
  <2>8. (mode = "esea" => starts = StartsHeard % 4)'
    BY <1>0, <2>1, <2>5, <2>7 DEF LiveAsHeard
  <2> QED
    BY <1>10, <2>3, <2>4, <2>6, <2>7, <2>8 DEF LiveAsHeard
<1> QED
  BY <1>0, <1>9, <1>10, <1>11, <1>12, <1>13, StillParsing DEF UseLiveMode

\* A step that touches the entries of the last round only, and neither flags nor history.
LEMMA LastEntrySound ==
    ASSUME ParseSound, Parsing, Parsing', kills # <<>>,
           UNCHANGED <<mode, isLive, live, starts, heard>>,
           kills' \in Seq(KillEntries), allRounds' \in Seq(RoundEntries),
           winners' \in Seq(WinnerEntries),
           Len(kills') = Len(kills), Len(allRounds') = Len(kills), Len(winners') = Len(kills),
           planter' \in {0, Len(kills)},
           \A i \in 1..Len(kills) : i # Len(kills) =>
              kills'[i] = kills[i] /\ allRounds'[i] = allRounds[i] /\ winners'[i] = winners[i],
           Entry(Len(kills))'
    PROVE  ParseSound'
<1>1. PICK n \in Nat \ {0} : n = Len(kills) /\ n <= MaxRoundStarts[mode] /\ MaxRoundStarts[mode] \in Nat
  BY ListsBuilt, LastIs
<1>2. /\ Len(isLive) = n /\ isLive \in Seq(BOOLEAN) /\ Len(heard) = n
      /\ \A i \in 1..n : Entry(i)
  BY <1>1, ListsBuilt
<1>3. Numbered' = Numbered /\ n \in Numbered
  BY <1>1 DEF Numbered
<1>4. ParseTypeOK'
  BY <1>1, <1>3 DEF ParseSound, ParseTypeOK, KillEntries, RoundEntries, WinnerEntries, Parsing
<1>5. Building'
  <2>1. ASSUME NEW i \in 1..n PROVE Entry(i)'
    BY <1>1, <1>2 DEF Entry
  <2>2. DOMAIN isLive' = 1..n
    BY <1>2
  <2> QED
    BY <1>1, <1>2, <2>1, <2>2 DEF Building
<1>6. (UseLiveMode => LiveAsHeard)'
  BY DEF ParseSound, UseLiveMode, LiveAsHeard, OnAir, StartsHeard
<1>7. (Len(isLive) = Len(heard))'
  BY <1>2
<1> QED
  BY <1>4, <1>5, <1>6, <1>7, StillParsing

LEMMA KillSound ==
    ASSUME ParseSound, Kill
    PROVE  ParseSound'
<1>1. Parsing /\ Parsing' /\ kills # <<>>
  BY DEF Kill, Parsing
<1>2. PICK n \in Nat \ {0} : n = Len(kills) /\ Last(kills) = kills[n] /\ Last(kills) \in KillEntries
  BY <1>1, ListsBuilt, LastIs
<1>3. PICK k : k = [Last(kills) EXCEPT !.total = @ + 1]
  OBVIOUS
<1>4. k \in KillEntries /\ k.no = kills[n].no
  BY <1>2, <1>3, BoundsAssumption DEF Kill, KillEntries
<1>5. /\ kills' \in Seq(KillEntries) /\ Len(kills') = n
      /\ \A i \in 1..n : kills'[i] = IF i = n THEN k ELSE kills[i]
  <2>1. kills \in Seq(KillEntries)
    BY <1>1, ListsBuilt
  <2>2. /\ SetLast(kills, k) \in Seq(KillEntries) /\ Len(SetLast(kills, k)) = Len(kills)
        /\ SetLast(kills, k)[Len(kills)] = k
        /\ \A i \in 1..Len(kills) : i # Len(kills) => SetLast(kills, k)[i] = kills[i]
    <3>1. k \in KillEntries /\ kills # <<>>
      BY <1>1, <1>4
    <3> QED
      BY <2>1, <3>1, SetLastIs
  <2>3. kills' = SetLast(kills, k)
    BY <1>3 DEF Kill
  <2> QED
    BY <1>2, <2>2, <2>3
<1>6. Entry(n)' /\ UNCHANGED <<mode, allRounds, winners, isLive, live, starts, planter, heard>>
  <2>1. Entry(n)
    BY <1>1, <1>2, ListsBuilt
  <2> QED
    BY <1>2, <1>4, <1>5, <2>1 DEF Kill, Entry
<1> QED
  BY <1>1, <1>2, <1>5, <1>6, ListsBuilt, LastEntrySound

LEMMA BombPlantedSound ==
    ASSUME ParseSound, BombPlanted
    PROVE  ParseSound'
<1>1. Parsing /\ Parsing' /\ planter' = Len(kills)
      /\ UNCHANGED <<mode, phase, kills, allRounds, winners, isLive, live, starts, heard>>
  BY DEF BombPlanted, Parsing
<1>2. PICK n \in Nat : n = Len(kills) /\ n <= MaxRoundStarts[mode] /\ MaxRoundStarts[mode] \in Nat
                       /\ Len(isLive) = n
  BY <1>1, ListsBuilt
<1>3. planter' \in Numbered \union {0}
  BY <1>1, <1>2 DEF Numbered
<1>4. ParseTypeOK'
  BY <1>1, <1>3 DEF ParseSound, ParseTypeOK, Numbered
<1>5. Building'
  BY <1>1, <1>2 DEF ParseSound, Building, Entry
<1>6. (UseLiveMode => LiveAsHeard)' /\ (Len(isLive) = Len(heard))'
  BY <1>1 DEF ParseSound, UseLiveMode, LiveAsHeard, OnAir, StartsHeard
<1> QED
  BY <1>1, <1>4, <1>5, <1>6, StillParsing

LEMMA RoundEndSound ==
    ASSUME ParseSound, NEW players \in BOOLEAN, RoundEnd(players)
    PROVE  ParseSound'
<1>1. Parsing /\ Parsing' /\ allRounds # <<>>
  BY DEF RoundEnd, Parsing
<1>2. kills # <<>> /\ winners # <<>>
  BY <1>1, ListsBuilt
<1>3. PICK n \in Nat \ {0} :
        /\ n = Len(kills) /\ Len(allRounds) = n /\ Len(winners) = n
        /\ Last(allRounds) = allRounds[n] /\ Last(allRounds) \in RoundEntries
        /\ Last(winners) = winners[n] /\ Last(winners) \in WinnerEntries
  BY <1>1, <1>2, ListsBuilt, LastIs
<1>4. PICK r, w : /\ r = [Last(allRounds) EXCEPT !.ended = TRUE, !.planter = planter]
                  /\ w = [Last(winners) EXCEPT !.nil = ~players]
  OBVIOUS
<1>5. planter \in {0, n} /\ planter \in Numbered \union {0}
  BY <1>1, <1>3, ListsBuilt DEF ParseSound, ParseTypeOK
<1>6. /\ r \in RoundEntries /\ r.no = allRounds[n].no /\ r.ended /\ r.planter = planter
      /\ w \in WinnerEntries /\ w.no = winners[n].no /\ w.nil = ~players
  BY <1>3, <1>4, <1>5 DEF RoundEntries, WinnerEntries
<1>7. /\ allRounds' \in Seq(RoundEntries) /\ Len(allRounds') = n
      /\ \A i \in 1..n : allRounds'[i] = IF i = n THEN r ELSE allRounds[i]
  <2>1. allRounds \in Seq(RoundEntries)
    BY <1>1, ListsBuilt
  <2>2. /\ SetLast(allRounds, r) \in Seq(RoundEntries)
        /\ Len(SetLast(allRounds, r)) = Len(allRounds)
        /\ SetLast(allRounds, r)[Len(allRounds)] = r
        /\ \A i \in 1..Len(allRounds) :
              i # Len(allRounds) => SetLast(allRounds, r)[i] = allRounds[i]
    <3>1. r \in RoundEntries /\ allRounds # <<>>
      BY <1>1, <1>6
    <3> QED
      BY <2>1, <3>1, SetLastIs
  <2>3. allRounds' = SetLast(allRounds, r)
    BY <1>4 DEF RoundEnd
  <2> QED
    BY <1>3, <2>2, <2>3
<1>8. /\ winners' \in Seq(WinnerEntries) /\ Len(winners') = n
      /\ \A i \in 1..n : winners'[i] = IF i = n THEN w ELSE winners[i]
  <2>1. winners \in Seq(WinnerEntries)
    BY <1>1, ListsBuilt
  <2>2. /\ SetLast(winners, w) \in Seq(WinnerEntries) /\ Len(SetLast(winners, w)) = Len(winners)
        /\ SetLast(winners, w)[Len(winners)] = w
        /\ \A i \in 1..Len(winners) : i # Len(winners) => SetLast(winners, w)[i] = winners[i]
    <3>1. w \in WinnerEntries /\ winners # <<>>
      BY <1>2, <1>6
    <3> QED
      BY <2>1, <3>1, SetLastIs
  <2>3. winners' = SetLast(winners, w)
    BY <1>4 DEF RoundEnd
  <2> QED
    BY <1>3, <2>2, <2>3
<1>9. UNCHANGED <<mode, kills, isLive, live, starts, planter, heard>>
  BY DEF RoundEnd
<1>10. Entry(n)'
  <2>1. Entry(n)
    BY <1>1, <1>3, ListsBuilt
  <2>2. allRounds'[n] = r /\ winners'[n] = w
    BY <1>7, <1>8
  <2> QED
    BY <1>1, <1>5, <1>6, <1>9, <2>1, <2>2 DEF Entry
<1>11. kills \in Seq(KillEntries)
  BY <1>1, ListsBuilt
<1> QED
  BY <1>1, <1>2, <1>3, <1>5, <1>7, <1>8, <1>9, <1>10, <1>11, LastEntrySound

LEMMA MatchStartSound ==
    ASSUME ParseSound, MatchStart
    PROVE  ParseSound'
<1>1. Parsing /\ Parsing' /\ isLive # <<>> /\ UseLiveMode /\ LiveAsHeard
      /\ UNCHANGED <<mode, phase, kills, allRounds, winners, planter>>
  BY DEF MatchStart, Parsing, UseLiveMode, ParseSound
<1>2. PICK n \in Nat \ {0} :
        /\ n = Len(isLive) /\ Len(heard) = n /\ heard \in Seq(0..MaxStarts) /\ heard # <<>>
        /\ isLive \in Seq(BOOLEAN)
  BY <1>1, ListsBuilt, LastIs
<1>3. PICK h \in Nat : h = heard[n] /\ h = Last(heard) /\ h < MaxStarts
  BY <1>2, LastIs, BoundsAssumption DEF MatchStart
<1>4. StartsHeard = h
  BY <1>2, <1>3 DEF StartsHeard
<1>5. PICK flag \in BOOLEAN : GoLive(flag) /\ (flag <=> mode = "valve" \/ (h + 1) % 4 = 0)
  <2>1. CASE mode = "valve"
    BY <2>1 DEF MatchStart
  <2>2. CASE mode = "esea"
    <3>1. starts = h % 4
      BY <1>1, <1>4, <2>2 DEF LiveAsHeard
    <3>2. starts = 3 <=> (h + 1) % 4 = 0
      BY <3>1
    <3> QED
      BY <2>2, <3>2 DEF MatchStart
  <2> QED
    BY <1>1, <2>1, <2>2 DEF UseLiveMode
<1>6. h + 1 \in 0..MaxStarts
  BY <1>3, BoundsAssumption
<1>7. /\ heard' \in Seq(0..MaxStarts) /\ Len(heard') = n /\ heard' # <<>>
      /\ \A i \in 1..n : heard'[i] = IF i = n THEN h + 1 ELSE heard[i]
  <2>1. PICK e \in 0..MaxStarts : e = h + 1
    BY <1>6
  <2>2. /\ SetLast(heard, e) \in Seq(0..MaxStarts) /\ Len(SetLast(heard, e)) = Len(heard)
        /\ SetLast(heard, e)[Len(heard)] = e
        /\ \A i \in 1..Len(heard) : i # Len(heard) => SetLast(heard, e)[i] = heard[i]
    <3>1. heard \in Seq(0..MaxStarts) /\ heard # <<>>
      BY <1>2
    <3>2. PICK X : X = 0..MaxStarts
      OBVIOUS
    <3> QED
      BY <3>1, <3>2, SetLastIs
  <2>3. heard' = SetLast(heard, e)
    BY <1>3, <2>1 DEF MatchStart
  <2> QED
    BY <1>2, <2>1, <2>2, <2>3
<1>8. /\ isLive' \in Seq(BOOLEAN) /\ Len(isLive') = n /\ live' = flag
      /\ \A i \in 1..n : isLive'[i] = IF i = n THEN flag ELSE isLive[i]
  <2>1. isLive' = SetLast(isLive, flag) /\ live' = flag
    BY <1>5 DEF GoLive
  <2>2. /\ SetLast(isLive, flag) \in Seq(BOOLEAN) /\ Len(SetLast(isLive, flag)) = Len(isLive)
        /\ SetLast(isLive, flag)[Len(isLive)] = flag
        /\ \A i \in 1..Len(isLive) : i # Len(isLive) => SetLast(isLive, flag)[i] = isLive[i]
    BY <1>1, <1>2, SetLastIs
  <2> QED
    BY <1>2, <2>1, <2>2
<1>9. starts' \in 0..3 /\ (mode = "esea" => starts' = (h + 1) % 4)
  <2>1. CASE mode = "valve"
    BY <2>1 DEF MatchStart, ParseSound, ParseTypeOK
  <2>2. CASE mode = "esea"
    <3>1. starts = h % 4 /\ starts' = (starts + 1) % 4
      BY <1>1, <1>4, <2>2 DEF LiveAsHeard, MatchStart, CountStart
    <3> QED
      BY <3>1
  <2> QED
    BY <1>1, <2>1, <2>2 DEF UseLiveMode
<1>10. ParseTypeOK'
  BY <1>1, <1>2, <1>7, <1>8, <1>9 DEF ParseSound, ParseTypeOK, Numbered
<1>11. Building'
  <2>1. DOMAIN isLive' = DOMAIN isLive
    BY <1>2, <1>8
  <2> QED
    BY <1>1, <1>2, <1>8, <2>1 DEF ParseSound, Building, Entry
<1>12. LiveAsHeard'
  <2>1. OnAir(n)' <=> flag
    <3>1. heard'[n] = h + 1 /\ h + 1 > 0
      BY <1>7
    <3>2. mode' \in {"valve", "esea"} /\ mode' = mode
      BY <1>1 DEF UseLiveMode
    <3> QED
      BY <1>5, <3>1, <3>2 DEF OnAir
  <2>2. ASSUME NEW i \in 1..n PROVE isLive'[i] <=> OnAir(i)'
    <3>1. CASE i = n
      BY <1>8, <2>1, <3>1
    <3>2. CASE i # n
      <4>1. i \in DOMAIN isLive /\ heard'[i] = heard[i] /\ isLive'[i] = isLive[i]
        BY <1>2, <1>7, <1>8, <3>2
      <4>2. OnAir(i)' <=> OnAir(i)
        BY <1>1, <4>1 DEF OnAir, UseLiveMode
      <4> QED
        BY <1>1, <4>1, <4>2 DEF LiveAsHeard
    <3> QED
      BY <3>1, <3>2
  <2>3. DOMAIN isLive' = 1..n
    BY <1>8
  <2>4. StartsHeard' = h + 1
    BY <1>7 DEF StartsHeard, Last
  <2>5. (mode = "esea" => starts = StartsHeard % 4)'
    BY <1>1, <1>9, <2>4
  <2> QED
    BY <1>7, <1>8, <2>1, <2>2, <2>3, <2>5 DEF LiveAsHeard
<1> QED
  BY <1>1, <1>7, <1>8, <1>10, <1>11, <1>12, StillParsing

\* A parse that stops without a crop.
LEMMA StoppedSound ==
    ASSUME ParseSound, phase' \in Phases, phase' # "parsing", phase' # "done",
           UNCHANGED <<mode, kills, allRounds, winners, isLive, live, starts, planter, heard>>
    PROVE  ParseSound'
<1>1. ParseTypeOK'
  BY DEF ParseSound, ParseTypeOK, Numbered
<1>2. Aligned' /\ BombInItsRound' /\ KeptRoundsAreReal'
  BY DEF ParseSound, Aligned, BombInItsRound, KeptRoundsAreReal, Numbers, Parsing
<1>3. (UseLiveMode => LiveAsHeard)'
  BY DEF ParseSound, UseLiveMode, LiveAsHeard, OnAir, StartsHeard
<1> QED
  BY <1>1, <1>2, <1>3 DEF ParseSound, Parsing

\* What the crop keeps of the arrays, at the indices in at, of which there are c.
Cropped(c, at) ==
    /\ c \in Nat
    /\ at \in [1..c -> DOMAIN kills]
    /\ Len(kills') = c /\ Len(allRounds') = c /\ Len(winners') = c
    /\ \A i \in 1..c : /\ kills'[i] = kills[at[i]]
                       /\ allRounds'[i] = allRounds[at[i]]
                       /\ winners'[i] = winners[at[i]]

LEMMA CroppedSound ==
    ASSUME ParseSound, Parsing, phase' = "done",
           UNCHANGED <<mode, isLive, live, starts, planter, heard>>,
           kills' \in Seq(KillEntries), allRounds' \in Seq(RoundEntries),
           winners' \in Seq(WinnerEntries),
           NEW c, NEW at, Cropped(c, at), KeptRoundsAreReal'
    PROVE  ParseSound'
<1>1. PICK n \in Nat : n = Len(kills) /\ DOMAIN kills = 1..n /\ \A i \in 1..n : Entry(i)
  BY ListsBuilt
<1>2. ASSUME NEW i \in 1..c
      PROVE  /\ kills'[i].no = at[i] /\ winners'[i].no = at[i] /\ allRounds'[i].no = at[i]
             /\ allRounds'[i].planter \in {0, at[i]}
  <2>1. at[i] \in 1..n
    BY <1>1 DEF Cropped
  <2>2. Entry(at[i])
    BY <1>1, <2>1
  <2> QED
    BY <2>2 DEF Entry, Cropped
<1>3. DOMAIN kills' = 1..c /\ DOMAIN allRounds' = 1..c /\ DOMAIN winners' = 1..c
  BY DEF Cropped
<1>4. Aligned'
  BY <1>2, <1>3 DEF Aligned, Numbers, Parsing
<1>5. BombInItsRound'
  BY <1>2, <1>3 DEF BombInItsRound
<1>6. ParseTypeOK'
  BY DEF ParseSound, ParseTypeOK, Numbered, KillEntries, RoundEntries, WinnerEntries, Phases
<1>7. (UseLiveMode => LiveAsHeard)'
  BY DEF ParseSound, UseLiveMode, LiveAsHeard, OnAir, StartsHeard
<1> QED
  BY <1>4, <1>5, <1>6, <1>7 DEF ParseSound, Parsing

LEMMA SelectedAt ==
    ASSUME NEW X, NEW data \in Seq(X), Len(data) = Len(isLive), isLive \in Seq(BOOLEAN)
    PROVE  /\ FiniteNats(LiveRounds) /\ LiveRounds \in SUBSET DOMAIN data
           /\ FilterByLiveRounds(data) \in Seq(X)
           /\ Len(FilterByLiveRounds(data)) = Cardinality(LiveRounds)
           /\ Cardinality(LiveRounds) \in Nat
           /\ \A i \in 1..Cardinality(LiveRounds) :
                 /\ Nth(LiveRounds, i) \in DOMAIN data
                 /\ FilterByLiveRounds(data)[i] = data[Nth(LiveRounds, i)]
<1>1. PICK n \in Nat : n = Len(data) /\ DOMAIN data = 1..n /\ DOMAIN isLive = 1..n
  OBVIOUS
<1>2. LiveRounds \in SUBSET (1..n)
  BY <1>1 DEF LiveRounds
<1>3. FiniteNats(LiveRounds) /\ LiveRounds \in SUBSET DOMAIN data
  BY <1>1, <1>2, FiniteBelow
<1>4. Cardinality(LiveRounds) \in Nat
  BY <1>3, FS_CardinalityType DEF FiniteNats
<1>5. FilterByLiveRounds(data) = Selected(data, LiveRounds)
  BY FilterSelects
<1>6. \A i \in 1..Cardinality(LiveRounds) : Nth(LiveRounds, i) \in DOMAIN data
  BY <1>3, NthIs
<1> QED
  BY <1>3, <1>4, <1>5, <1>6, SelectedTyped DEF Selected

LEMMA LiveCropSound ==
    ASSUME ParseSound, Parsing, UseLiveMode, ~LiveWithoutWinners, phase' = "done", Crop,
           UNCHANGED <<mode, isLive, live, starts, planter, heard>>
    PROVE  ParseSound'
<1>1. PICK c, L : c = Cardinality(LiveRounds) /\ L = LiveRounds
  OBVIOUS
<1>2. PICK n \in Nat : n = Len(kills) /\ DOMAIN kills = 1..n /\ \A i \in 1..n : Entry(i)
  BY ListsBuilt
<1>3. /\ kills \in Seq(KillEntries) /\ allRounds \in Seq(RoundEntries)
      /\ winners \in Seq(WinnerEntries) /\ isLive \in Seq(BOOLEAN)
      /\ Len(kills) = Len(isLive) /\ Len(allRounds) = Len(isLive) /\ Len(winners) = Len(isLive)
      /\ Len(heard) = Len(isLive) /\ heard \in Seq(0..MaxStarts)
  BY ListsBuilt
<1>4. /\ kills' = FilterByLiveRounds(kills)
      /\ allRounds' = FilterByLiveRounds(allRounds)
      /\ winners' = FilterByLiveRounds(winners)
  BY DEF Crop
<1>5. /\ FiniteNats(L) /\ c \in Nat
      /\ kills' \in Seq(KillEntries) /\ Len(kills') = c
      /\ \A i \in 1..c : Nth(L, i) \in DOMAIN kills /\ kills'[i] = kills[Nth(L, i)]
  BY <1>1, <1>3, <1>4, SelectedAt
<1>6. /\ allRounds' \in Seq(RoundEntries) /\ Len(allRounds') = c
      /\ \A i \in 1..c : allRounds'[i] = allRounds[Nth(L, i)]
  BY <1>1, <1>3, <1>4, SelectedAt
<1>7. /\ winners' \in Seq(WinnerEntries) /\ Len(winners') = c
      /\ \A i \in 1..c : winners'[i] = winners[Nth(L, i)]
  BY <1>1, <1>3, <1>4, SelectedAt
<1>8. PICK at : at = [i \in 1..c |-> Nth(L, i)]
  OBVIOUS
<1>9. Cropped(c, at)
  BY <1>5, <1>6, <1>7, <1>8 DEF Cropped
<1>10. DOMAIN allRounds' = 1..c
  BY <1>6
<1>11. ASSUME NEW i \in 1..c
       PROVE  Nth(L, i) \in L /\ allRounds'[i].no = Nth(L, i) /\ allRounds'[i].ended
  <2>1. Nth(L, i) \in L /\ Nth(L, i) \in 1..n
    BY <1>1, <1>2, <1>5, NthIs
  <2>2. Entry(Nth(L, i)) /\ Nth(L, i) \in DOMAIN isLive /\ isLive[Nth(L, i)]
    BY <1>1, <1>2, <2>1 DEF LiveRounds
  <2>3. ~winners[Nth(L, i)].nil
    BY <2>2 DEF LiveWithoutWinners
  <2> QED
    BY <1>6, <2>1, <2>2, <2>3 DEF Entry
<1>12. {allRounds'[i].no : i \in DOMAIN allRounds'} = {m \in DOMAIN heard : OnAir(m)}
  <2>1. {allRounds'[i].no : i \in DOMAIN allRounds'} = {Nth(L, i) : i \in 1..c}
    BY <1>10, <1>11
  <2>2. {Nth(L, i) : i \in 1..c} = L
    BY <1>1, <1>5, <1>11, NthAll
  <2>3. LiveAsHeard /\ DOMAIN heard = DOMAIN isLive
    BY <1>3 DEF ParseSound
  <2>4. L = {m \in DOMAIN heard : OnAir(m)}
    BY <1>1, <2>3 DEF LiveRounds, LiveAsHeard
  <2> QED
    BY <2>1, <2>2, <2>4
<1>13. \A i, j \in DOMAIN allRounds' : i < j => allRounds'[i].no < allRounds'[j].no
  BY <1>1, <1>5, <1>10, <1>11, NthGrows
<1>14. KeptRoundsAreReal'
  <2>1. \A m \in DOMAIN heard : OnAir(m)' <=> OnAir(m)
    BY DEF OnAir
  <2>2. \A i \in DOMAIN allRounds' : allRounds'[i].ended
    BY <1>10, <1>11
  <2> QED
    BY <1>12, <1>13, <2>1, <2>2 DEF KeptRoundsAreReal
<1> QED
  BY <1>5, <1>6, <1>7, <1>9, <1>14, CroppedSound

LEMMA StartRoundIs ==
    ASSUME ParseSound, Parsing, kills # <<>>
    PROVE  /\ StartRound \in Nat
           /\ QuietRounds = {} => StartRound = 0
           /\ QuietRounds # {} => /\ StartRound < Len(kills)
                                  /\ \A q \in QuietRounds : StartRound <= q + 1
<1>1. PICK n \in Nat \ {0} : n = Len(kills) /\ DOMAIN kills = 1..n
  BY ListsBuilt, LastIs
<1>2. QuietRounds \subseteq Nat
  BY <1>1 DEF QuietRounds
<1>3. CASE QuietRounds = {}
  BY <1>3 DEF StartRound
<1>4. CASE QuietRounds # {}
  <2>1. PICK m \in QuietRounds : \A q \in QuietRounds : m <= q
    BY <1>2, <1>4, NatLeast
  <2>2. PICK x \in QuietRounds : x = Min(QuietRounds) /\ \A q \in QuietRounds : x <= q
    BY <2>1 DEF Min
  <2>3. x \in Nat /\ x + 2 <= n
    BY <1>1, <1>2 DEF QuietRounds
  <2>4. StartRound = x + 1
    BY <1>4, <2>2 DEF StartRound
  <2>5. \A q \in QuietRounds : q \in Nat /\ x <= q
    BY <1>2, <2>2
  <2>6. \A q \in QuietRounds : x + 1 <= q + 1
    BY <2>3, <2>5
  <2> QED
    BY <1>1, <1>4, <2>3, <2>4, <2>6
<1> QED
  BY <1>3, <1>4

LEMMA FromStartIs ==
    ASSUME NEW X, NEW data \in Seq(X), StartRound \in Nat,
           NEW c \in Nat, StartRound + 1 + c = Len(data)
    PROVE  /\ FromStart(data) \in Seq(X) /\ Len(FromStart(data)) = c
           /\ \A i \in 1..c : /\ FromStart(data)[i] = data[StartRound + 1 + i]
                              /\ StartRound + 1 + i \in DOMAIN data
<1>1. PICK m \in Nat, n \in Nat :
        /\ m = StartRound + 2 /\ n = Len(data) /\ n = m + c - 1 /\ m >= 1
        /\ DOMAIN data = 1..n
  OBVIOUS
<1>2. \A i \in m..n : data[i] \in X
  <2>1. \A i \in m..n : i \in 1..n
    BY <1>1
  <2>2. \A i \in DOMAIN data : data[i] \in X
    OBVIOUS
  <2> QED
    BY <1>1, <2>1, <2>2
<1>3. FromStart(data) = SubSeq(data, m, n)
  BY <1>1 DEF FromStart
<1>4. /\ SubSeq(data, m, n) \in Seq(X)
      /\ Len(SubSeq(data, m, n)) = IF m <= n THEN n - m + 1 ELSE 0
      /\ \A i \in 1..(n - m + 1) : SubSeq(data, m, n)[i] = data[m + i - 1]
  BY <1>2, SubSeqProperties
<1>5. n - m + 1 = c /\ (m <= n <=> c > 0)
  BY <1>1
<1>6. ASSUME NEW i \in 1..c
      PROVE  m + i - 1 = StartRound + 1 + i /\ StartRound + 1 + i \in DOMAIN data
  <2>1. i \in Nat /\ i >= 1 /\ i <= c
    OBVIOUS
  <2>2. PICK k \in Nat : k = StartRound + 1 + i /\ k <= n /\ k >= 1 /\ m + i - 1 = k
    BY <1>1, <2>1
  <2> QED
    BY <1>1, <2>2
<1> QED
  BY <1>3, <1>4, <1>5, <1>6

\* What CropToRealRounds keeps of a demo of neither live mode.
LEMMA OtherCrop ==
    ASSUME ParseSound, Parsing, ~UseLiveMode, kills # <<>>, Crop
    PROVE  \E c \in Nat :
              /\ StartRound + 1 + c = Len(kills)
              /\ kills' \in Seq(KillEntries) /\ allRounds' \in Seq(RoundEntries)
              /\ winners' \in Seq(WinnerEntries)
              /\ Cropped(c, [i \in 1..c |-> StartRound + 1 + i])
<1>1. PICK s \in Nat, n \in Nat \ {0} :
        /\ s = StartRound /\ n = Len(kills) /\ s + 1 <= n
        /\ Len(allRounds) = n /\ Len(winners) = n
        /\ kills \in Seq(KillEntries) /\ allRounds \in Seq(RoundEntries)
        /\ winners \in Seq(WinnerEntries)
  <2>1. Len(kills) \in Nat \ {0} /\ StartRound \in Nat
    BY ListsBuilt, LastIs, StartRoundIs
  <2>2. StartRound + 1 <= Len(kills)
    BY <2>1, StartRoundIs
  <2> QED
    BY <2>1, <2>2, ListsBuilt
<1>2. PICK c \in Nat : s + 1 + c = n
  <2>1. n - (s + 1) \in Nat /\ s + 1 + (n - (s + 1)) = n
    BY <1>1
  <2> QED
    BY <2>1
<1>3. kills' = FromStart(kills) /\ allRounds' = FromStart(allRounds) /\ winners' = FromStart(winners)
  BY DEF Crop
<1>4. /\ kills' \in Seq(KillEntries) /\ Len(kills') = c
      /\ \A i \in 1..c : kills'[i] = kills[s + 1 + i] /\ s + 1 + i \in DOMAIN kills
  BY <1>1, <1>2, <1>3, FromStartIs
<1>5. /\ allRounds' \in Seq(RoundEntries) /\ Len(allRounds') = c
      /\ \A i \in 1..c : allRounds'[i] = allRounds[s + 1 + i]
  BY <1>1, <1>2, <1>3, FromStartIs
<1>6. /\ winners' \in Seq(WinnerEntries) /\ Len(winners') = c
      /\ \A i \in 1..c : winners'[i] = winners[s + 1 + i]
  BY <1>1, <1>2, <1>3, FromStartIs
<1>7. PICK at : at = [i \in 1..c |-> StartRound + 1 + i]
  OBVIOUS
<1>8. Cropped(c, at)
  BY <1>1, <1>4, <1>5, <1>6, <1>7 DEF Cropped
<1> QED
  BY <1>1, <1>2, <1>4, <1>5, <1>6, <1>7, <1>8

LEMMA OtherCropSound ==
    ASSUME ParseSound, Parsing, ~UseLiveMode, kills # <<>>, phase' = "done", Crop,
           UNCHANGED <<mode, isLive, live, starts, planter, heard>>
    PROVE  ParseSound'
<1>1. PICK c \in Nat :
        /\ kills' \in Seq(KillEntries) /\ allRounds' \in Seq(RoundEntries)
        /\ winners' \in Seq(WinnerEntries)
        /\ Cropped(c, [i \in 1..c |-> StartRound + 1 + i])
  BY OtherCrop
<1>2. KeptRoundsAreReal'
  BY DEF KeptRoundsAreReal, UseLiveMode
<1> QED
  BY <1>1, <1>2, CroppedSound

LEMMA EndOfDemoSound ==
    ASSUME ParseSound, EndOfDemo \/ ParseError
    PROVE  ParseSound'
<1>1. Parsing /\ UNCHANGED <<mode, isLive, live, starts, planter, heard>>
  BY DEF EndOfDemo, ParseError
<1>2. \/ /\ phase' \in Phases /\ phase' # "parsing" /\ phase' # "done"
         /\ UNCHANGED <<kills, allRounds, winners>>
      \/ /\ phase' = "done" /\ Crop
         /\ IF UseLiveMode THEN ~LiveWithoutWinners ELSE kills # <<>>
  BY DEF EndOfDemo, ParseError, Phases
<1>3. CASE /\ phase' \in Phases /\ phase' # "parsing" /\ phase' # "done"
           /\ UNCHANGED <<kills, allRounds, winners>>
  BY <1>1, <1>3, StoppedSound
<1>4. CASE /\ phase' = "done" /\ Crop
           /\ IF UseLiveMode THEN ~LiveWithoutWinners ELSE kills # <<>>
  BY <1>1, <1>4, LiveCropSound, OtherCropSound
<1> QED
  BY <1>2, <1>3, <1>4

LEMMA ParseNextSound == ParseSound /\ [ParseNext]_parseVars => ParseSound'
<1> SUFFICES ASSUME ParseSound, [ParseNext]_parseVars PROVE ParseSound'
  OBVIOUS
<1>1. CASE UNCHANGED parseVars
  <2>1. UNCHANGED <<mode, phase, kills, allRounds, winners, isLive, live, starts, planter, heard>>
    BY <1>1 DEF parseVars
  <2>2. ParseTypeOK' /\ (Parsing => Building)' /\ (Len(isLive) = Len(heard))'
    BY <2>1 DEF ParseSound, ParseTypeOK, Numbered, Parsing, Building, Entry
  <2>3. Aligned' /\ BombInItsRound'
    BY <2>1 DEF ParseSound, Aligned, Numbers, Parsing, BombInItsRound
  <2>4. (UseLiveMode => LiveAsHeard)'
    BY <2>1 DEF ParseSound, UseLiveMode, LiveAsHeard, OnAir, StartsHeard
  <2>5. KeptRoundsAreReal'
    BY <2>1 DEF ParseSound, KeptRoundsAreReal, UseLiveMode, OnAir
  <2> QED
    BY <2>2, <2>3, <2>4, <2>5 DEF ParseSound
<1>2. CASE ParseNext
  BY <1>2, RoundStartSound, KillSound, BombPlantedSound, MatchStartSound, RoundEndSound,
     EndOfDemoSound DEF ParseNext
<1> QED
  BY <1>1, <1>2

LEMMA ParseInvariance == ParseSpec => []ParseSound
BY ParseInitSound, ParseNextSound, PTL DEF ParseSpec

\* The arrays have entries of their types, and the count of match starts never leaves 0..3,
\* in demos of any length (parse.go, the handlers; CropToRealRounds).
THEOREM ParseTypeCorrect == ParseSpec => []ParseTypeOK
<1>1. ParseSound => ParseTypeOK
  BY DEF ParseSound
<1> QED
  BY <1>1, ParseInvariance, PTL

\* An index means the same round in every array, whichever rounds the crop throws away of
\* however many (CropToRealRounds; compute.go goes by it).
THEOREM ArraysStayAligned == ParseSpec => []Aligned
<1>1. ParseSound => Aligned
  BY DEF ParseSound
<1> QED
  BY <1>1, ParseInvariance, PTL

\* No bomb is recorded for a round other than the one it was planted in, though a round may
\* start before the last has ended (resetRoundState, RoundEnd).
THEOREM BombsStayInTheirRounds == ParseSpec => []BombInItsRound
<1>1. ParseSound => BombInItsRound
  BY DEF ParseSound
<1> QED
  BY <1>1, ParseInvariance, PTL

\* The filter of live rounds keeps the rounds on air, all of them, once, in order, and none
\* that did not end: its loop is proved to select just the flagged indices, from lists of
\* any length (filterByLiveRoundsInt, filterByLiveRoundsWinners).
THEOREM RealRoundsAreKept == ParseSpec => []KeptRoundsAreReal
<1>1. ParseSound => KeptRoundsAreReal
  BY DEF ParseSound
<1> QED
  BY <1>1, ParseInvariance, PTL

LEMMA CropStep ==
    ASSUME ParseSound, ParseNext, phase' = "done", ~UseLiveMode,
           NEW n \in DOMAIN kills, n \notin {kills'[i].no : i \in DOMAIN kills'}
    PROVE  n = 1 \/ (QuietRounds # {} /\ \A q \in QuietRounds : n <= q + 2)
<1>1. Parsing /\ kills # <<>> /\ Crop
  BY DEF ParseNext, RoundStart, Kill, BombPlanted, MatchStart, RoundEnd, EndOfDemo, ParseError, Parsing
<1>2. PICK c \in Nat :
        /\ StartRound + 1 + c = Len(kills)
        /\ Cropped(c, [i \in 1..c |-> StartRound + 1 + i])
  BY <1>1, OtherCrop
<1>3. PICK s \in Nat : s = StartRound
  BY <1>1, StartRoundIs
<1>4. DOMAIN kills = 1..(s + 1 + c) /\ \A i \in 1..(s + 1 + c) : kills[i].no = i
  <2>1. PICK k \in Nat : /\ k = Len(kills) /\ DOMAIN kills = 1..k
                          /\ \A i \in 1..k : kills[i].no = i
    BY <1>1, ListsBuilt DEF Entry
  <2> QED
    BY <1>2, <1>3, <2>1
<1>5. DOMAIN kills' = 1..c /\ \A i \in 1..c : kills'[i] = kills[s + 1 + i]
  <2>1. kills' \in Seq(KillEntries)
    BY <1>1, OtherCrop
  <2> QED
    BY <1>2, <1>3, <2>1 DEF Cropped
<1>6. n <= s + 1
  <2> SUFFICES ASSUME ~(n <= s + 1) PROVE FALSE
    OBVIOUS
  <2>1. PICK i \in 1..c : n = s + 1 + i
    <3>1. n \in 1..(s + 1 + c) /\ n > s + 1
      BY <1>4
    <3>2. n - (s + 1) \in 1..c /\ n = s + 1 + (n - (s + 1))
      BY <3>1
    <3> QED
      BY <3>2
  <2>2. kills'[i].no = n /\ i \in DOMAIN kills'
    BY <1>4, <1>5, <2>1
  <2> QED
    BY <2>2
<1>7. n \in Nat /\ n >= 1
  BY <1>4
<1>8. CASE QuietRounds = {}
  <2>1. s = 0
    BY <1>1, <1>3, <1>8, StartRoundIs
  <2> QED
    BY <1>6, <1>7, <2>1
<1>9. CASE QuietRounds # {}
  <2>1. \A q \in QuietRounds : s <= q + 1 /\ q \in Nat
    BY <1>1, <1>3, <1>4, <1>9, StartRoundIs DEF QuietRounds
  <2>2. \A q \in QuietRounds : n <= q + 2
    BY <1>6, <1>7, <2>1
  <2> QED
    BY <1>9, <2>2
<1> QED
  BY <1>8, <1>9

\* Of a demo of no live mode only the first round and those up to the end of the first
\* three without a kill are lost, however long the demo (CropToRealRounds).
THEOREM PlayedRoundsAreKept == ParseSpec => NoPlayedRoundLost
<1>1. ParseSound /\ [ParseNext]_parseVars =>
        [phase' = "done" /\ ~UseLiveMode
           => \A n \in DOMAIN kills :
                 n \notin {kills'[i].no : i \in DOMAIN kills'} =>
                     \/ n = 1
                     \/ QuietRounds # {} /\ \A q \in QuietRounds : n <= q + 2]_parseVars
  BY CropStep
<1> QED
  BY <1>1, ParseInvariance, PTL DEF ParseSpec, NoPlayedRoundLost

-----------------------------------------------------------------------------
(* The game.                                                               *)

\* The rounds a match of a kind can have: a short one has no overtime.
Playable(n) == n \in Nat \ {0} /\ (kind = "short" => n <= 2 * ShortHalf)

LEMMA HalfFacts ==
    ASSUME kind \in Kinds
    PROVE  /\ HalfLength(kind) \in Nat /\ HalfLength(kind) > 0
           /\ kind = "long" => HalfLength(kind) % 3 = 0
BY HalvesAssumption DEF HalfLength, Kinds

LEMMA InitTyped == Init => TypeOK
BY HalvesAssumption DEF Init, TypeOK

LEMMA NextTyped == TypeOK /\ [Next]_vars => TypeOK'
<1> SUFFICES ASSUME TypeOK, Next PROVE TypeOK'
  BY DEF vars, TypeOK
<1>1. PICK team \in Teams : PlayRound(team)
  BY DEF Next
<1>2. Recorded(PlaysOn(team, Len(played) + 1)) \in Sides
  BY DEF Recorded, PlaysOn, Sides
<1>3. Len(played) < MaxRounds /\ Len(played) \in Nat /\ played \in Seq(Teams) /\ rounds \in Seq(Sides)
  BY <1>1 DEF PlayRound, TypeOK
<1>4. played' \in Seq(Teams) /\ Len(played') = Len(played) + 1
  BY <1>1, <1>3 DEF PlayRound
<1>5. rounds' \in Seq(Sides) /\ Len(rounds') = Len(rounds) + 1
  BY <1>1, <1>2, <1>3 DEF PlayRound
<1>6. Len(played') <= MaxRounds
  BY <1>3, <1>4, HalvesAssumption
<1> QED
  BY <1>1, <1>4, <1>5, <1>6 DEF PlayRound, TypeOK

\* A round played is one that a match of the kind can have.
AllPlayable == \A n \in Rounds : Playable(n)

LEMMA InitPlayable == Init => AllPlayable
BY DEF Init, AllPlayable, Rounds

LEMMA NextPlayable == TypeOK /\ AllPlayable /\ [Next]_vars => AllPlayable'
<1> SUFFICES ASSUME TypeOK, AllPlayable, Next PROVE AllPlayable'
  BY DEF vars, AllPlayable, Rounds, Playable
<1>1. PICK team \in Teams : PlayRound(team)
  BY DEF Next
<1>2. Len(rounds') = Len(rounds) + 1 /\ rounds' \in Seq(Sides) /\ Len(rounds) \in Nat
  <2>1. Recorded(PlaysOn(team, Len(played) + 1)) \in Sides
    BY DEF Recorded, PlaysOn, Sides
  <2> QED
    BY <1>1, <2>1 DEF PlayRound, TypeOK
<1>3. kind' = kind /\ (kind = "short" => Len(rounds) + 1 <= 2 * ShortHalf)
  BY <1>1, <1>2, HalvesAssumption DEF PlayRound, TypeOK
<1>4. \A n \in 1..Len(rounds') : n \in Nat \ {0} /\ (kind = "short" => n <= 2 * ShortHalf)
  BY <1>2, <1>3, HalvesAssumption
<1> QED
  BY <1>2, <1>3, <1>4 DEF AllPlayable, Rounds, Playable

LEMMA Invariance == Spec => [](TypeOK /\ AllPlayable)
BY InitTyped, NextTyped, InitPlayable, NextPlayable, PTL DEF Spec

\* Every round played has a side on record (RoundEnd).
THEOREM ScoresTypeCorrect == Spec => []TypeOK
BY Invariance, PTL

\* Within overtime, in sets of six rounds: where the game swaps the sides.
LEMMA OvertimeChanges ==
    ASSUME kind = "long", NEW n \in Nat, n > 2 * Half
    PROVE  Changes(n) = 1 + (n - 2 * Half + 2) \div 6
BY HalvesAssumption DEF Changes, HalfLength

\* A number of changes is even or odd: that is all PlaysOn looks at.
LEMMA SideByParity ==
    ASSUME NEW team \in Teams, NEW m \in Nat, NEW n \in Nat
    PROVE  /\ Changes(m) % 2 = Changes(n) % 2 => PlaysOn(team, m) = PlaysOn(team, n)
           /\ (Changes(m) % 2 = 0) # (Changes(n) % 2 = 0) => PlaysOn(team, m) = Other(PlaysOn(team, n))
BY DEF PlaysOn, Other

\* getScore swaps the sides behind a round just when the game did.
THEOREM SwitchesAreChanges ==
    ASSUME kind \in Kinds, NEW team \in Teams, NEW n, Playable(n), Playable(n + 1)
    PROVE  Switches(n, HalfLength(kind)) <=> PlaysOn(team, n + 1) # PlaysOn(team, n)
<1>1. PICK half : half = HalfLength(kind)
  OBVIOUS
<1>2. half \in Nat /\ half > 0 /\ n \in Nat /\ n > 0
  BY <1>1, HalfFacts DEF Playable
<1>3. CASE n < 2 * half
  <2>1. Switches(n, half) <=> n = half
    BY <1>2, <1>3 DEF Switches
  <2>2. Changes(n) = IF n <= half THEN 0 ELSE 1
    BY <1>1, <1>2, <1>3 DEF Changes
  <2>3. Changes(n + 1) = IF n + 1 <= half THEN 0 ELSE 1
    BY <1>1, <1>2, <1>3 DEF Changes
  <2>4. (Changes(n + 1) % 2 = 0) # (Changes(n) % 2 = 0) <=> n = half
    BY <1>2, <2>2, <2>3
  <2> QED
    BY <1>1, <2>1, <2>4 DEF PlaysOn
<1>4. CASE n >= 2 * half
  <2>1. kind = "long" /\ half = Half /\ Half % 3 = 0 /\ Half \in Nat /\ Half > 0
    BY <1>1, <1>2, <1>4, HalvesAssumption DEF Playable, Kinds, HalfLength
  <2>2. PICK k \in Nat : n = 2 * Half + k
    <3>1. n - 2 * Half \in Nat /\ n = 2 * Half + (n - 2 * Half)
      BY <1>2, <1>4, <2>1
    <3> QED
      BY <3>1
  <2>3. Changes(n + 1) = 1 + (k + 3) \div 6
    <3>1. PICK m : m = n + 1
      OBVIOUS
    <3>2. m > 2 * Half /\ m \in Nat /\ m - 2 * Half + 2 = k + 3
      BY <2>1, <2>2, <3>1
    <3>3. Changes(m) = 1 + (m - 2 * Half + 2) \div 6
      BY <2>1, <3>2, OvertimeChanges
    <3> QED
      BY <3>1, <3>2, <3>3
  <2>4. Switches(n, half) <=> k > 0 /\ (k - 3) % 6 = 0
    BY <1>2, <2>1, <2>2 DEF Switches
  <2>5. CASE k = 0
    <3>1. n = 2 * half /\ n > half
      BY <1>2, <2>1, <2>2, <2>5
    <3>2. Changes(n) = 1
      BY <1>1, <1>2, <3>1 DEF Changes
    <3>3. Changes(n + 1) = 1
      BY <2>3, <2>5
    <3>4. PlaysOn(team, n + 1) = PlaysOn(team, n)
      BY <3>2, <3>3 DEF PlaysOn
    <3>5. ~Switches(n, half)
      BY <2>4, <2>5
    <3> QED
      BY <1>1, <3>4, <3>5
  <2>6. CASE k > 0
    <3>1. Changes(n) = 1 + (k + 2) \div 6
      <4>1. n > 2 * Half /\ n - 2 * Half + 2 = k + 2
        BY <2>1, <2>2, <2>6
      <4> QED
        BY <1>2, <2>1, <4>1, OvertimeChanges
    <3>2. ((1 + (k + 3) \div 6) % 2 = 0) # ((1 + (k + 2) \div 6) % 2 = 0) <=> (k - 3) % 6 = 0
      BY <2>6
    <3> QED
      BY <1>1, <2>3, <2>4, <2>6, <3>1, <3>2 DEF PlaysOn
  <2> QED
    BY <2>5, <2>6
<1> QED
  BY <1>2, <1>3, <1>4

-----------------------------------------------------------------------------
(* The page.                                                               *)

\* A round of overtime: its set of six, and its place in it.
LEMMA SetsOfSix ==
    ASSUME NEW half \in Nat, NEW n \in Nat, n > 2 * half
    PROVE  \E k \in Nat, j \in 1..6 : n = 2 * half + 6 * k + j /\ (n - 2 * half - 1) \div 6 = k
<1>1. PICK d \in Nat : n = 2 * half + d + 1
  <2>1. n - 2 * half - 1 \in Nat /\ n = 2 * half + (n - 2 * half - 1) + 1
    OBVIOUS
  <2> QED
    BY <2>1
<1>2. PICK k \in Nat, j \in 1..6 : d + 1 = 6 * k + j
  <2>1. d \div 6 \in Nat /\ (d % 6) + 1 \in 1..6 /\ d + 1 = 6 * (d \div 6) + (d % 6) + 1
    OBVIOUS
  <2> QED
    BY <2>1
<1>3. n - 2 * half - 1 = 6 * k + (j - 1) /\ (6 * k + (j - 1)) \div 6 = k
  BY <1>1, <1>2
<1> QED
  BY <1>1, <1>2, <1>3

\* And whether the sides have changed in it.
LEMMA OvertimeRound ==
    ASSUME kind = "long", NEW n \in Nat, n > 2 * Half
    PROVE  \E k \in Nat, j \in 1..6 :
              /\ n = 2 * Half + 6 * k + j
              /\ CeilSixth(n - 2 * Half) = k + 1
              /\ ((n - 1) % 6) + 1 = j
              /\ Changes(n) = 1 + k + (IF j <= 3 THEN 0 ELSE 1)
<1>1. PICK t \in Nat : Half = 3 * t
  <2>1. Half \div 3 \in Nat /\ Half = 3 * (Half \div 3)
    BY HalvesAssumption
  <2> QED
    BY <2>1
<1>2. PICK k \in Nat, j \in 1..6 : n = 2 * Half + 6 * k + j
  <2>1. Half \in Nat
    BY HalvesAssumption
  <2> QED
    BY <2>1, SetsOfSix
<1>3. n - 2 * Half = 6 * k + j
  BY <1>1, <1>2
<1>4. CeilSixth(n - 2 * Half) = k + 1
  BY <1>3 DEF CeilSixth
<1>5. ((n - 1) % 6) + 1 = j
  BY <1>1, <1>2
<1>6. Changes(n) = 1 + (6 * k + j + 2) \div 6
  BY <1>3, OvertimeChanges
<1>7. (6 * k + j + 2) \div 6 = k + (IF j <= 3 THEN 0 ELSE 1)
  OBVIOUS
<1>8. Changes(n) = 1 + k + (IF j <= 3 THEN 0 ELSE 1)
  BY <1>6, <1>7
<1> QED
  BY <1>2, <1>4, <1>5, <1>8

LEMMA FirstSide ==
    ASSUME kind \in Kinds
    PROVE  Changes(1) = 0
BY HalfFacts DEF Changes

\* The sides of the rounds, from the side of the first one.
LEMMA SideFromStart ==
    ASSUME kind \in Kinds, NEW team \in Teams, NEW n, Playable(n), Changes(n) \in Nat
    PROVE  PlaysOn(team, n) = IF Changes(n) % 2 = 0 THEN PlaysOn(team, 1) ELSE Other(PlaysOn(team, 1))
<1>1. Changes(1) % 2 = 0
  BY FirstSide
<1>2. PlaysOn(team, 1) = IF team = "first CT" THEN "CT" ELSE "T"
  BY <1>1 DEF PlaysOn
<1>3. CASE team = "first CT"
  BY <1>2, <1>3 DEF PlaysOn, Other
<1>4. CASE team # "first CT"
  BY <1>2, <1>4 DEF PlaysOn, Other
<1> QED
  BY <1>3, <1>4

\* playerColor counts the changes of side forwards as the game makes them.
LEMMA PlayerSideRight ==
    ASSUME kind \in Kinds, halfLength = HalfLength(kind), NEW team \in Teams, NEW n, Playable(n)
    PROVE  PlayerSide(PlaysOn(team, 1), n) = PlaysOn(team, n)
<1>1. HalfLength(kind) \in Nat /\ HalfLength(kind) > 0 /\ n \in Nat /\ n > 0
  BY HalfFacts DEF Playable
<1>2. CASE n <= HalfLength(kind)
  <2>1. Changes(n) = 0
    BY <1>2 DEF Changes
  <2> QED
    BY <1>2, <2>1, SideFromStart DEF PlayerSide
<1>3. CASE n > HalfLength(kind) /\ n <= 2 * HalfLength(kind)
  <2>1. Changes(n) = 1
    BY <1>1, <1>3 DEF Changes
  <2> QED
    BY <1>1, <1>3, <2>1, SideFromStart DEF PlayerSide
<1>4. CASE n > 2 * HalfLength(kind)
  <2>1. kind = "long" /\ HalfLength(kind) = Half /\ Half \in Nat
    BY <1>1, <1>4, HalvesAssumption DEF Playable, Kinds, HalfLength
  <2>2. PICK k \in Nat, j \in 1..6 :
          /\ CeilSixth(n - 2 * Half) = k + 1
          /\ ((n - 1) % 6) + 1 = j
          /\ Changes(n) = 1 + k + (IF j <= 3 THEN 0 ELSE 1)
    BY <1>1, <1>4, <2>1, OvertimeRound
  <2>3. Changes(n) \in Nat
    BY <2>2
  <2>4. Changes(n) % 2 = 0 <=> (((k + 1) % 2 = 0) <=> (j <= 3))
    BY <2>2
  <2>5. PlayerSide(PlaysOn(team, 1), n) =
          IF ((k + 1) % 2 = 0) = (j <= 3) THEN PlaysOn(team, 1) ELSE Other(PlaysOn(team, 1))
    <3>1. ~(n <= halfLength) /\ ~(n <= 2 * halfLength)
      BY <1>1, <1>4
    <3>2. halfLength = Half
      BY <2>1
    <3> QED
      BY <2>2, <3>1, <3>2 DEF PlayerSide
  <2> QED
    BY <2>3, <2>4, <2>5, SideFromStart
<1> QED
  BY <1>1, <1>2, <1>3, <1>4

\* Every round is in one section of a player's grid of kills, in the colour of the side
\* the player was on.
LEMMA KillSectionsRight ==
    ASSUME TypeOK, AllPlayable, halfLength = HalfLength(kind), NEW team \in Teams, NEW n \in Rounds
    PROVE  \E s \in KillSections(PlaysOn(team, 1)) :
              /\ n \in s.rounds /\ s.side = PlaysOn(team, n)
              /\ \A r \in KillSections(PlaysOn(team, 1)) : n \in r.rounds => r = s
<1> DEFINE start == PlaysOn(team, 1)
           half == HalfLength(kind)
           Side(ot) == IF ot % 2 = 0 THEN Other(start) ELSE start
           First(ot) == [rounds |-> Slice(2 * half + ot * 6, 2 * half + ot * 6 + 3), side |-> Side(ot)]
           Second(ot) == [rounds |-> Slice(2 * half + ot * 6 + 3, 2 * half + ot * 6 + 6),
                          side |-> Other(Side(ot))]
           Regular == {[rounds |-> Slice(0, half), side |-> start],
                       [rounds |-> Slice(half, 2 * half), side |-> Other(start)]}
<1>1. half \in Nat /\ half > 0 /\ n \in Nat /\ n > 0 /\ Playable(n) /\ kind \in Kinds
      /\ Len(rounds) \in Nat /\ n <= Len(rounds)
  BY HalfFacts DEF AllPlayable, Playable, TypeOK, Rounds
<1>2. KillSections(start) = Regular \union UNION {{First(ot), Second(ot)} : ot \in Overtimes}
  BY DEF KillSections
<1>3. start \in Sides /\ Other(Other(start)) = start
  BY DEF PlaysOn, Sides, Other
<1>4. \A s \in KillSections(start) : \/ s \in Regular
                                    \/ \E ot \in Overtimes : s \in {First(ot), Second(ot)}
  BY <1>2
<1>5. ASSUME NEW ot \in Overtimes
      PROVE  First(ot) \in KillSections(start) /\ Second(ot) \in KillSections(start)
  BY <1>2
<1>6. \A ot \in Overtimes : ot \in Nat
  BY <1>1 DEF Overtimes, CeilSixth
<1>7. CASE n <= 2 * half
  <2>1. Changes(n) = IF n <= half THEN 0 ELSE 1
    BY <1>1, <1>7 DEF Changes
  <2>2. PlaysOn(team, n) = IF n <= half THEN start ELSE Other(start)
    BY <1>1, <2>1, SideFromStart
  <2>3. \A ot \in Overtimes : n \notin First(ot).rounds /\ n \notin Second(ot).rounds
    BY <1>1, <1>6, <1>7 DEF Slice
  <2>4. PICK s \in Regular : /\ n \in s.rounds /\ s.side = PlaysOn(team, n)
                             /\ \A r \in Regular : n \in r.rounds => r = s
    <3>1. n \in Slice(0, half) <=> n <= half
      BY <1>1 DEF Slice, Rounds
    <3>2. n \in Slice(half, 2 * half) <=> ~(n <= half)
      BY <1>1, <1>7 DEF Slice, Rounds
    <3>3. CASE n <= half
      <4> DEFINE s == [rounds |-> Slice(0, half), side |-> start]
      <4>1. s \in Regular /\ n \in s.rounds /\ s.side = PlaysOn(team, n)
        BY <2>2, <3>1, <3>3
      <4>2. \A r \in Regular : n \in r.rounds => r = s
        BY <3>2, <3>3
      <4> QED
        BY <4>1, <4>2
    <3>4. CASE ~(n <= half)
      <4> DEFINE s == [rounds |-> Slice(half, 2 * half), side |-> Other(start)]
      <4>1. s \in Regular /\ n \in s.rounds /\ s.side = PlaysOn(team, n)
        BY <2>2, <3>2, <3>4
      <4>2. \A r \in Regular : n \in r.rounds => r = s
        BY <3>1, <3>4
      <4> QED
        BY <4>1, <4>2
    <3> QED
      BY <3>3, <3>4
  <2>5. s \in KillSections(start)
    BY <1>2
  <2>6. \A r \in KillSections(start) : n \in r.rounds => r = s
    BY <1>4, <2>3, <2>4
  <2> QED
    BY <2>4, <2>5, <2>6
<1>8. CASE n > 2 * half
  <2>1. kind = "long" /\ half = Half /\ Half \in Nat
    BY <1>1, <1>8, HalvesAssumption DEF Playable, Kinds, HalfLength
  <2>2. PICK k \in Nat, j \in 1..6 :
          /\ n = 2 * half + 6 * k + j
          /\ CeilSixth(n - 2 * half) = k + 1
          /\ Changes(n) = 1 + k + (IF j <= 3 THEN 0 ELSE 1)
    BY <1>1, <1>8, <2>1, OvertimeRound
  <2>3. PlaysOn(team, n) = IF j <= 3 THEN Side(k) ELSE Other(Side(k))
    <3>1. Changes(n) \in Nat /\ (Changes(n) % 2 = 0 <=> ((k % 2 = 0) <=> ~(j <= 3)))
      BY <2>2
    <3>2. PlaysOn(team, n) = IF (k % 2 = 0) <=> ~(j <= 3) THEN start ELSE Other(start)
      BY <1>1, <3>1, SideFromStart
    <3> QED
      BY <1>3, <3>2
  <2>4. \A s \in Regular : n \notin s.rounds
    BY <1>1, <1>8 DEF Slice
  <2>5. ASSUME NEW ot \in Overtimes
        PROVE  /\ n \in First(ot).rounds => ot = k /\ j <= 3
               /\ n \in Second(ot).rounds => ot = k /\ ~(j <= 3)
    <3>1. ot \in Nat
      BY <1>6
    <3>2. n \in First(ot).rounds <=> ot * 6 < 6 * k + j /\ 6 * k + j <= ot * 6 + 3
      BY <1>1, <2>2, <3>1 DEF Slice
    <3>3. n \in Second(ot).rounds <=> ot * 6 + 3 < 6 * k + j /\ 6 * k + j <= ot * 6 + 6
      BY <1>1, <2>2, <3>1 DEF Slice
    <3> QED
      BY <3>1, <3>2, <3>3
  <2>6. k \in Overtimes
    <3>1. CeilSixth(n - 2 * half) <= CeilSixth(Len(rounds) - 2 * half)
      BY <1>1, <1>8 DEF CeilSixth
    <3>2. CeilSixth(Len(rounds) - 2 * half) \in Nat /\ Len(rounds) > 2 * half
      BY <1>1, <1>8 DEF CeilSixth
    <3> QED
      BY <2>2, <3>1, <3>2 DEF Overtimes
  <2>7. n \in First(k).rounds \/ n \in Second(k).rounds
    BY <1>1, <2>2 DEF Slice
  <2>8. PICK s : s = IF j <= 3 THEN First(k) ELSE Second(k)
    OBVIOUS
  <2>9. s \in KillSections(start) /\ n \in s.rounds /\ s.side = PlaysOn(team, n)
    <3>1. s \in KillSections(start)
      BY <1>5, <2>6, <2>8
    <3>2. CASE j <= 3
      <4>1. s = First(k) /\ n \in First(k).rounds
        BY <2>5, <2>6, <2>7, <2>8, <3>2
      <4>2. First(k).side = PlaysOn(team, n)
        BY <2>3, <3>2
      <4> QED
        BY <3>1, <4>1, <4>2
    <3>3. CASE ~(j <= 3)
      <4>1. s = Second(k) /\ n \in Second(k).rounds
        BY <2>5, <2>6, <2>7, <2>8, <3>3
      <4>2. Second(k).side = PlaysOn(team, n)
        BY <2>3, <3>3
      <4> QED
        BY <3>1, <4>1, <4>2
    <3> QED
      BY <3>1, <3>2, <3>3
  <2>10. ASSUME NEW r \in KillSections(start), n \in r.rounds
         PROVE  r = s
    <3>1. PICK ot \in Overtimes : r = First(ot) \/ r = Second(ot)
      BY <1>4, <2>4, <2>10
    <3>2. CASE r = First(ot)
      <4>1. n \in First(ot).rounds
        BY <2>10, <3>2
      <4>2. ot = k /\ j <= 3
        BY <2>5, <4>1
      <4> HIDE DEF First, Second
      <4> QED
        BY <2>8, <3>2, <4>2
    <3>3. CASE r = Second(ot)
      <4>1. n \in Second(ot).rounds
        BY <2>10, <3>3
      <4>2. ot = k /\ ~(j <= 3)
        BY <2>5, <4>1
      <4> HIDE DEF First, Second
      <4> QED
        BY <2>8, <3>3, <4>2
    <3> QED
      BY <3>1, <3>2, <3>3
  <2> QED
    BY <2>9, <2>10
<1> QED
  BY <1>1, <1>7, <1>8

\* With the half-length the match was played with, the feed, the list of rounds and a
\* player's grid give every player in every round the colour of the side he was on.
ColoursRight ==
    halfLength = HalfLength(kind) =>
        \A team \in Teams, n \in Rounds :
            LET start == PlaysOn(team, 1)
            IN  /\ PlayerSide(start, n) = PlaysOn(team, n)
                /\ \E s \in KillSections(start) : n \in s.rounds
                /\ \A s \in KillSections(start) : n \in s.rounds => s.side = PlaysOn(team, n)

\* However long the halves and however many the overtimes, the page's two ways to count
\* the changes of side, by the number of the round (playerColor) and by sections
\* (KillsVisualization), are both the game's.
THEOREM ColoursAreTheGames == Spec => []ColoursRight
<1>1. TypeOK /\ AllPlayable => ColoursRight
  BY PlayerSideRight, KillSectionsRight DEF ColoursRight, TypeOK, AllPlayable
<1> QED
  BY <1>1, Invariance, PTL

-----------------------------------------------------------------------------
(* The score.                                                              *)

\* The side on record for a round is the one its winner played it on.
RecordedRight ==
    /\ DOMAIN rounds = DOMAIN played
    /\ \A i \in DOMAIN played : rounds[i] = PlaysOn(played[i], i)

LEMMA InitRecorded == Init => RecordedRight
BY DEF Init, RecordedRight

LEMMA NextRecorded == TypeOK /\ RecordedRight /\ [Next]_vars => RecordedRight'
<1> SUFFICES ASSUME TypeOK, RecordedRight, [Next]_vars PROVE RecordedRight'
  OBVIOUS
<1>1. ASSUME NEW team \in Teams, PlayRound(team) PROVE RecordedRight'
  <2>2. played \in Seq(Teams) /\ rounds \in Seq(Sides) /\ Len(rounds) = Len(played)
        /\ Len(played) \in Nat
    BY DEF TypeOK
  <2>3. played' = Append(played, team) /\ rounds' = Append(rounds, PlaysOn(team, Len(played) + 1))
    BY <1>1 DEF PlayRound, Recorded
  <2>4. /\ DOMAIN played' = 1..(Len(played) + 1) /\ DOMAIN rounds' = 1..(Len(played) + 1)
        /\ played'[Len(played) + 1] = team
        /\ rounds'[Len(played) + 1] = PlaysOn(team, Len(played) + 1)
        /\ \A i \in 1..Len(played) : played'[i] = played[i] /\ rounds'[i] = rounds[i]
    BY <2>2, <2>3
  <2>5. ASSUME NEW i \in 1..(Len(played) + 1) PROVE (rounds[i] = PlaysOn(played[i], i))'
    <3>1. kind' = kind
      BY <1>1 DEF PlayRound
    <3>2. CASE i = Len(played) + 1
      BY <2>4, <3>1, <3>2 DEF PlaysOn, Changes, HalfLength
    <3>3. CASE i # Len(played) + 1
      <4>1. i \in 1..Len(played)
        BY <2>2, <3>3
      <4>2. rounds[i] = PlaysOn(played[i], i)
        BY <2>2, <4>1 DEF RecordedRight
      <4> QED
        BY <2>4, <3>1, <4>1, <4>2 DEF PlaysOn, Changes, HalfLength
    <3> QED
      BY <3>2, <3>3
  <2> QED
    BY <2>4, <2>5 DEF RecordedRight
<1>2. CASE UNCHANGED vars
  BY <1>2 DEF vars, RecordedRight, PlaysOn, Changes, HalfLength
<1> QED
  BY <1>1, <1>2 DEF Next

\* What the loop of getScore is meant to do, from the last round to the first.
Loop(side, endSide, half) ==
    \A i \in 1..Len(rounds) :
        LET later == IF i = Len(rounds) THEN endSide ELSE side[i + 1]
        IN  side[i] = IF Switches(i, half) THEN Other(later) ELSE later

\* What side a round gets depends on the later rounds only.
LEMMA LoopUnique ==
    ASSUME Len(rounds) \in Nat, NEW endSide, NEW half, NEW f, NEW g,
           Loop(f, endSide, half), Loop(g, endSide, half)
    PROVE  \A i \in 1..Len(rounds) : f[i] = g[i]
<1> DEFINE n == Len(rounds)
           T == {k \in Nat : \A i \in 1..n : i > n - k => f[i] = g[i]}
<1>1. 0 \in T
  OBVIOUS
<1>2. ASSUME NEW k \in Nat, k \in T PROVE k + 1 \in T
  <2> SUFFICES ASSUME NEW i \in 1..n, i > n - (k + 1) PROVE f[i] = g[i]
    OBVIOUS
  <2>1. i = n \/ f[i + 1] = g[i + 1]
    BY <1>2
  <2> QED
    BY <2>1 DEF Loop
<1>3. n \in T
  <2> HIDE DEF T
  <2> QED
    BY <1>1, <1>2, Counting
<1> QED
  BY <1>3

\* The loop gives every round a side.
LEMMA LoopRuns ==
    ASSUME Len(rounds) \in Nat, NEW endSide \in Sides, NEW half
    PROVE  /\ CurrSide(endSide, half) \in [1..Len(rounds) -> Sides]
           /\ Loop(CurrSide(endSide, half), endSide, half)
<1> DEFINE n == Len(rounds)
           Step(side, i) == LET later == IF i = n THEN endSide ELSE side[i + 1]
                            IN  IF Switches(i, half) THEN Other(later) ELSE later
           Rest(k) == (n - k + 1)..n
           Done(k) == \E side \in [Rest(k) -> Sides] : \A i \in Rest(k) : side[i] = Step(side, i)
           T == {k \in Nat : k <= n => Done(k)}
<1>1. Done(0)
  <2>1. Rest(0) = {}
    OBVIOUS
  <2>2. [i \in {} |-> "CT"] \in [Rest(0) -> Sides]
    BY <2>1
  <2> HIDE DEF Step, Rest
  <2> QED
    BY <2>1, <2>2
<1>2. ASSUME NEW k \in Nat, k + 1 <= n, Done(k) PROVE Done(k + 1)
  <2>1. /\ Rest(k + 1) = Rest(k) \union {n - k} /\ n - k \notin Rest(k)
        /\ \A i \in Rest(k) : i \in 1..n /\ (i = n \/ i + 1 \in Rest(k))
        /\ n - k = n \/ n - k + 1 \in Rest(k)
    <3>1. n \in Nat /\ k + 1 <= n
      BY <1>2
    <3>2. Rest(k + 1) = (n - k)..n
      BY <3>1
    <3> HIDE DEF n
    <3> QED
      BY <3>1, <3>2
  <2>2. PICK old \in [Rest(k) -> Sides] : \A i \in Rest(k) : old[i] = Step(old, i)
    BY <1>2
  <2> HIDE DEF Rest
  <2> DEFINE new == [i \in Rest(k + 1) |-> IF i = n - k THEN Step(old, n - k) ELSE old[i]]
  <2>3. Step(old, n - k) \in Sides
    BY <2>1, <2>2 DEF Sides, Other
  <2>4. ASSUME NEW i \in Rest(k + 1) PROVE Step(new, i) = Step(old, i)
    <3>1. i = n \/ i + 1 \in Rest(k)
      BY <2>1
    <3>2. i = n \/ new[i + 1] = old[i + 1]
      <4> HIDE DEF Step
      <4> QED
        BY <2>1, <3>1
    <3> HIDE DEF new
    <3> QED
      BY <3>2
  <2> HIDE DEF Step
  <2>5. new \in [Rest(k + 1) -> Sides]
    BY <2>1, <2>3
  <2>6. \A i \in Rest(k + 1) : new[i] = Step(new, i)
    BY <2>1, <2>2, <2>4
  <2> HIDE DEF new
  <2> QED
    BY <2>5, <2>6
<1>3. n \in T
  <2>1. \A k \in Nat : k \in T => k + 1 \in T
    <3> HIDE DEF Done
    <3> QED
      BY <1>2
  <2>2. 0 \in T
    <3> HIDE DEF Done
    <3> QED
      BY <1>1
  <2> HIDE DEF T
  <2> QED
    BY <2>1, <2>2, Counting
<1>4. PICK side \in [1..n -> Sides] : \A i \in 1..n : side[i] = Step(side, i)
  <2>1. Rest(n) = 1..n /\ n <= n
    OBVIOUS
  <2> HIDE DEF Step, Rest
  <2> QED
    BY <1>3, <2>1
<1>5. side = [i \in 1..n |-> Step(side, i)]
  <2> HIDE DEF Step
  <2> QED
    BY <1>4
<1>6. CurrSide(endSide, half) = (CHOOSE f : f = [i \in 1..n |-> Step(f, i)])
  BY DEF CurrSide
<1>7. CurrSide(endSide, half) = [i \in 1..n |-> Step(CurrSide(endSide, half), i)]
  <2> HIDE DEF Step
  <2> QED
    BY <1>5, <1>6
<1>8. DOMAIN CurrSide(endSide, half) = 1..n
      /\ \A i \in 1..n : CurrSide(endSide, half)[i] = Step(CurrSide(endSide, half), i)
  <2> HIDE DEF Step
  <2> QED
    BY <1>7
<1>9. Loop(CurrSide(endSide, half), endSide, half) /\ Loop(side, endSide, half)
  <2>1. PICK f : f = CurrSide(endSide, half)
    OBVIOUS
  <2>2. \A i \in 1..n : f[i] = Step(f, i)
    BY <1>8, <2>1
  <2>3. Loop(f, endSide, half)
    BY <2>2 DEF Loop
  <2>4. Loop(side, endSide, half)
    BY <1>4 DEF Loop
  <2> QED
    BY <2>1, <2>3, <2>4
<1>10. \A i \in 1..n : CurrSide(endSide, half)[i] = side[i]
  BY <1>9, LoopUnique
<1>11. CurrSide(endSide, half) = side
  BY <1>7, <1>8, <1>10
<1> QED
  BY <1>9, <1>11

LEMMA TeamsOpposed ==
    ASSUME NEW n
    PROVE  /\ \A team \in Teams : PlaysOn(team, n) \in Sides
           /\ \A x, y \in Teams : x # y => PlaysOn(y, n) = Other(PlaysOn(x, n))
BY DEF PlaysOn, Sides, Teams, Other

-----------------------------------------------------------------------------
(* How a match goes.                                                       *)

LEMMA WinsTyped ==
    ASSUME NEW team, NEW n \in Nat
    PROVE  Wins(team, n) \in Nat /\ IsFiniteSet({i \in 1..n : played[i] = team})
<1>1. IsFiniteSet({i \in 1..n : played[i] = team})
  <2>1. {i \in 1..n : played[i] = team} \in SUBSET (1..n) /\ IsFiniteSet(1..n)
    BY FS_Interval
  <2> QED
    BY <2>1, FS_Subset
<1> QED
  BY <1>1, FS_CardinalityType DEF Wins

LEMMA WinsAtStart ==
    ASSUME NEW team
    PROVE  Wins(team, 0) = 0
<1>1. {i \in 1..0 : played[i] = team} = {}
  OBVIOUS
<1> QED
  BY <1>1, FS_EmptySet DEF Wins

LEMMA WinsCounted ==
    ASSUME TypeOK, NEW team \in Teams, PlayRound(team), NEW x \in Teams
    PROVE  Wins(x, Len(played))' = Wins(x, Len(played)) + (IF x = team THEN 1 ELSE 0)
<1> DEFINE n == Len(played)
           old == {i \in 1..n : played[i] = x}
           new == {i \in 1..(n + 1) : played'[i] = x}
<1>1. played \in Seq(Teams) /\ n \in Nat
  BY DEF TypeOK
<1>2. played' = Append(played, team)
  BY DEF PlayRound
<1>3. /\ Len(played') = n + 1 /\ played'[n + 1] = team
      /\ \A i \in 1..n : played'[i] = played[i]
  BY <1>1, <1>2
<1>4. Wins(x, Len(played))' = Cardinality(new)
  BY <1>3 DEF Wins
<1>5. IsFiniteSet(old) /\ Wins(x, n) = Cardinality(old) /\ n + 1 \notin old
  <2>1. IsFiniteSet(old)
    BY <1>1, WinsTyped
  <2> QED
    BY <1>1, <2>1 DEF Wins
<1>6. new = IF x = team THEN old \union {n + 1} ELSE old
  BY <1>1, <1>3
<1> HIDE DEF old, new
<1>7. Cardinality(old \union {n + 1}) = Cardinality(old) + 1
  BY <1>5, FS_AddElement
<1>8. CASE x = team
  BY <1>4, <1>5, <1>6, <1>7, <1>8
<1>9. CASE x # team
  <2>1. Cardinality(old) \in Nat
    BY <1>5, FS_CardinalityType
  <2> QED
    BY <1>4, <1>5, <1>6, <1>9, <2>1
<1> QED
  BY <1>8, <1>9

\* As many rounds as both teams have won when the set of overtime of round n begins.
Level(n) == HalfLength(kind) + 3 * ((n - 2 * HalfLength(kind) - 1) \div 6)

\* No team wins more rounds than win the match, and overtime starts level, every set of it.
Balanced ==
    LET n == Len(played)
    IN  /\ \A x, y \in Teams : x # y => Wins(x, n) + Wins(y, n) = n
        /\ \A team \in Teams : /\ Wins(team, n) <= Target(n)
                               /\ n > 2 * HalfLength(kind) => Wins(team, n) >= Level(n)

LEMMA InitBalanced == Init => Balanced
<1> SUFFICES ASSUME Init PROVE Balanced
  OBVIOUS
<1>1. Len(played) = 0 /\ kind \in Kinds
  BY DEF Init
<1>2. HalfLength(kind) \in Nat /\ HalfLength(kind) > 0
  BY <1>1, HalfFacts
<1>3. Target(0) = HalfLength(kind) + 1
  BY <1>2 DEF Target
<1>4. \A team \in Teams : Wins(team, 0) = 0
  BY WinsAtStart
<1>5. \A x, y \in Teams : Wins(x, 0) + Wins(y, 0) = 0
  BY <1>4
<1>6. ~(0 > 2 * HalfLength(kind)) /\ \A team \in Teams : Wins(team, 0) <= Target(0)
  BY <1>2, <1>3, <1>4
<1> QED
  BY <1>1, <1>5, <1>6 DEF Balanced

\* A round more: a are the rounds of the team that wins it, b those of the other.
LEMMA LevelStep ==
    ASSUME kind \in Kinds, NEW n \in Nat, NEW a \in Nat, NEW b \in Nat, a + b = n,
           a <= Target(n), a # Target(n), b <= Target(n), b # Target(n),
           n > 2 * HalfLength(kind) => a >= Level(n) /\ b >= Level(n)
    PROVE  /\ a + 1 <= Target(n + 1) /\ b <= Target(n + 1)
           /\ n + 1 > 2 * HalfLength(kind) => a + 1 >= Level(n + 1) /\ b >= Level(n + 1)
<1>1. PICK half : half = HalfLength(kind) /\ half \in Nat /\ half > 0
  BY HalfFacts
<1>2. /\ \A m \in Nat : m <= 2 * half => Target(m) = half + 1
      /\ \A m \in Nat : m > 2 * half => /\ Target(m) = half + 3 * ((m - 2 * half - 1) \div 6) + 4
                                        /\ Level(m) = half + 3 * ((m - 2 * half - 1) \div 6)
  BY <1>1 DEF Target, Level
<1>3. CASE n + 1 <= 2 * half
  <2>1. Target(n) = half + 1 /\ Target(n + 1) = half + 1
    BY <1>1, <1>2, <1>3
  <2> QED
    BY <1>1, <1>3, <2>1
<1>4. CASE n = 2 * half
  <2>1. Target(n) = half + 1
    BY <1>1, <1>2, <1>4
  <2>2. (n + 1 - 2 * half - 1) \div 6 = 0 /\ n + 1 > 2 * half /\ n + 1 \in Nat
    BY <1>1, <1>4
  <2>3. Target(n + 1) = half + 4 /\ Level(n + 1) = half
    BY <1>1, <1>2, <2>2
  <2> QED
    BY <1>1, <1>4, <2>1, <2>3
<1>5. CASE n > 2 * half
  <2>1. PICK k \in Nat, j \in 1..6 : n = 2 * half + 6 * k + j /\ (n - 2 * half - 1) \div 6 = k
    BY <1>1, <1>5, SetsOfSix
  <2>2. Target(n) = half + 3 * k + 4 /\ Level(n) = half + 3 * k
    BY <1>2, <1>5, <2>1
  <2>3. PICK l \in Nat : l = IF j < 6 THEN k ELSE k + 1
    OBVIOUS
  <2>4. Target(n + 1) = half + 3 * l + 4 /\ Level(n + 1) = half + 3 * l
    <3>1. PICK m \in Nat : m = n + 1 /\ m > 2 * half
      BY <1>1, <1>5
    <3>2. (m - 2 * half - 1) \div 6 = l
      <4>1. m - 2 * half - 1 = 6 * k + j
        BY <1>1, <2>1, <3>1
      <4>2. (6 * k + j) \div 6 = l
        BY <2>3
      <4> QED
        BY <4>1, <4>2
    <3>3. /\ Target(m) = half + 3 * ((m - 2 * half - 1) \div 6) + 4
          /\ Level(m) = half + 3 * ((m - 2 * half - 1) \div 6)
      BY <1>2, <3>1
    <3> QED
      BY <3>1, <3>2, <3>3
  <2>5. /\ a >= half + 3 * k /\ a <= half + 3 * k + 3
        /\ b >= half + 3 * k /\ b <= half + 3 * k + 3
    BY <1>1, <1>5, <2>1, <2>2
  <2> QED
    BY <1>1, <2>1, <2>3, <2>4, <2>5
<1> QED
  BY <1>1, <1>3, <1>4, <1>5

LEMMA NextBalanced == TypeOK /\ Balanced /\ [Next]_vars => Balanced'
<1> SUFFICES ASSUME TypeOK, Balanced, [Next]_vars PROVE Balanced'
  OBVIOUS
<1>1. ASSUME NEW team \in Teams, PlayRound(team) PROVE Balanced'
  <2>1. PICK n : n = Len(played) /\ n \in Nat /\ kind \in Kinds
    BY DEF TypeOK
  <2>2. kind' = kind /\ Len(played') = n + 1
    <3>1. played' = Append(played, team) /\ kind' = kind
      BY <1>1 DEF PlayRound
    <3> QED
      BY <2>1, <3>1 DEF TypeOK
  <2>3. PICK rival \in Teams : rival # team /\ Teams = {team, rival}
    BY DEF Teams
  <2>4. PICK a, b : a = Wins(team, n) /\ b = Wins(rival, n) /\ a \in Nat /\ b \in Nat
    BY <2>1, WinsTyped
  <2>5. Wins(team, Len(played))' = a + 1 /\ Wins(rival, Len(played))' = b
    <3>1. Wins(team, Len(played))' = Wins(team, Len(played)) + (IF team = team THEN 1 ELSE 0)
      BY <1>1, WinsCounted
    <3>2. Wins(rival, Len(played))' = Wins(rival, Len(played)) + (IF rival = team THEN 1 ELSE 0)
      BY <1>1, WinsCounted
    <3> QED
      BY <2>1, <2>3, <2>4, <3>1, <3>2
  <2>6. a + b = n
    BY <2>1, <2>3, <2>4 DEF Balanced
  <2>7. /\ a <= Target(n) /\ b <= Target(n) /\ a # Target(n) /\ b # Target(n)
        /\ n > 2 * HalfLength(kind) => a >= Level(n) /\ b >= Level(n)
    BY <1>1, <2>1, <2>3, <2>4 DEF Balanced, PlayRound, Won
  <2>8. /\ a + 1 <= Target(n + 1) /\ b <= Target(n + 1)
        /\ n + 1 > 2 * HalfLength(kind) => a + 1 >= Level(n + 1) /\ b >= Level(n + 1)
    BY <2>1, <2>4, <2>6, <2>7, LevelStep
  <2>9. \A x \in Teams : /\ Wins(x, Len(played))' <= Target(n + 1)
                         /\ n + 1 > 2 * HalfLength(kind) => Wins(x, Len(played))' >= Level(n + 1)
    BY <2>3, <2>5, <2>8
  <2>10. \A x, y \in Teams : x # y => Wins(x, Len(played))' + Wins(y, Len(played))' = n + 1
    BY <2>1, <2>3, <2>4, <2>5, <2>6
  <2>11. Target(Len(played))' = Target(n + 1) /\ Level(Len(played))' = Level(n + 1)
         /\ HalfLength(kind)' = HalfLength(kind)
    BY <2>2 DEF Target, Level, HalfLength
  <2> QED
    BY <2>2, <2>9, <2>10, <2>11 DEF Balanced
<1>2. CASE UNCHANGED vars
  BY <1>2 DEF vars, Balanced, Wins, Target, Level, HalfLength
<1> QED
  BY <1>1, <1>2 DEF Next

Sound == TypeOK /\ AllPlayable /\ RecordedRight /\ Balanced

LEMMA SoundInvariant == Spec => []Sound
BY Invariance, InitRecorded, NextRecorded, InitBalanced, NextBalanced, InitTyped, NextTyped,
   InitPlayable, NextPlayable, PTL DEF Spec, Sound

\* No match ends right before the sides change: getScore may start from the sides the
\* teams end on.
LEMMA EndsBetweenSwitches ==
    ASSUME Sound, Over
    PROVE  ~Switches(Len(rounds), HalfLength(kind)) /\ Len(rounds) > HalfLength(kind)
<1>1. PICK n : n = Len(rounds) /\ n = Len(played) /\ n \in Nat
  BY DEF Sound, TypeOK
<1>2. PICK half : half = HalfLength(kind) /\ half \in Nat /\ half > 0
  BY HalfFacts DEF Sound, TypeOK
<1>3. CASE Drawn
  <2>1. n = 2 * half
    BY <1>1, <1>2, <1>3 DEF Drawn
  <2> QED
    BY <1>1, <1>2, <2>1 DEF Switches
<1>4. CASE Won
  <2>1. PICK team \in Teams : Wins(team, n) = Target(n)
    BY <1>1, <1>4 DEF Won
  <2>2. PICK rival \in Teams : rival # team
    BY DEF Teams
  <2>3. PICK a \in Nat, b \in Nat : a = Wins(team, n) /\ b = Wins(rival, n)
    BY <1>1, WinsTyped
  <2>4. a + b = n /\ a = Target(n) /\ (n > 2 * half => b >= Level(n))
    BY <1>1, <1>2, <2>1, <2>2, <2>3 DEF Sound, Balanced
  <2>5. CASE n <= 2 * half
    <3>1. a = half + 1
      BY <1>1, <1>2, <2>4, <2>5 DEF Target
    <3>2. n > half /\ n # half
      BY <1>2, <2>4, <3>1
    <3> QED
      BY <1>1, <1>2, <2>5, <3>2 DEF Switches
  <2>6. CASE n > 2 * half
    <3>1. half % 3 = 0
      <4>1. n \in Rounds /\ n > 0
        BY <1>1, <1>2, <2>6 DEF Rounds, Sound, TypeOK
      <4>2. kind # "short"
        <5> SUFFICES ASSUME kind = "short" PROVE FALSE
          OBVIOUS
        <5>1. half = ShortHalf
          BY <1>2 DEF HalfLength
        <5>2. n <= 2 * ShortHalf
          BY <4>1 DEF Sound, AllPlayable, Playable
        <5> QED
          BY <1>1, <1>2, <2>6, <5>1, <5>2
      <4> QED
        BY <1>2, <4>2, HalfFacts DEF Kinds, Sound, TypeOK
    <3>2. PICK k \in Nat, j \in 1..6 : n = 2 * half + 6 * k + j /\ (n - 2 * half - 1) \div 6 = k
      BY <1>1, <1>2, <2>6, SetsOfSix
    <3>3. a = half + 3 * k + 4 /\ b >= half + 3 * k
      <4>1. ~(n <= 2 * half)
        BY <1>1, <1>2, <2>6
      <4> QED
        BY <1>2, <2>4, <2>6, <3>2, <4>1 DEF Target, Level
    <3>4. j >= 4
      BY <1>2, <2>4, <3>2, <3>3
    <3>5. (n - 3) % 6 # 0
      <4>1. PICK t \in Nat : half = 3 * t
        <5>1. half \div 3 \in Nat /\ half = 3 * (half \div 3)
          BY <1>2, <3>1
        <5> QED
          BY <5>1
      <4>2. n - 3 = 6 * (t + k) + (j - 3)
        BY <3>2, <4>1
      <4> QED
        BY <3>4, <4>2
    <3>6. n # half /\ n > half
      BY <1>1, <1>2, <2>6
    <3> QED
      BY <1>1, <1>2, <3>5, <3>6 DEF Switches
  <2> QED
    BY <1>1, <1>2, <2>5, <2>6
<1> QED
  BY <1>3, <1>4 DEF Over

\* The loop of getScore finds for every round the side the team was on.
LEMMA LoopIsTheGame ==
    ASSUME Sound, Over, NEW team \in Teams
    PROVE  \A i \in 1..Len(rounds) : CurrSide(EndSide(team), HalfLength(kind))[i] = PlaysOn(team, i)
<1>1. PICK n : n = Len(rounds) /\ n = Len(played) /\ n \in Nat
  BY DEF Sound, TypeOK
<1>2. PICK half : half = HalfLength(kind)
  OBVIOUS
<1>3. PICK game : game = [i \in 1..n |-> PlaysOn(team, i)]
  OBVIOUS
<1>4. EndSide(team) \in Sides /\ EndSide(team) = PlaysOn(team, n)
  BY <1>1, TeamsOpposed DEF EndSide
<1>5. ASSUME NEW i \in 1..n
      PROVE  LET later == IF i = n THEN EndSide(team) ELSE game[i + 1]
             IN  game[i] = IF Switches(i, half) THEN Other(later) ELSE later
  <2>1. game[i] = PlaysOn(team, i)
    BY <1>3
  <2>2. CASE i = n
    <3>1. ~Switches(i, half)
      BY <1>1, <1>2, <2>2, EndsBetweenSwitches
    <3> QED
      BY <1>4, <2>1, <2>2, <3>1
  <2>3. CASE i # n
    <3>1. i + 1 \in 1..n /\ i \in Rounds /\ i + 1 \in Rounds
      BY <1>1, <2>3 DEF Rounds, Sound, TypeOK
    <3>2. game[i + 1] = PlaysOn(team, i + 1)
      BY <1>3, <3>1
    <3>3. Playable(i) /\ Playable(i + 1) /\ kind \in Kinds
      BY <3>1 DEF Sound, AllPlayable, TypeOK
    <3>4. Switches(i, half) <=> PlaysOn(team, i + 1) # PlaysOn(team, i)
      BY <1>2, <3>3, SwitchesAreChanges
    <3>5. PlaysOn(team, i) \in Sides /\ PlaysOn(team, i + 1) \in Sides
      BY TeamsOpposed
    <3> QED
      BY <2>1, <2>3, <3>2, <3>4, <3>5 DEF Sides, Other
  <2> QED
    BY <2>2, <2>3
<1>6. Loop(game, EndSide(team), half)
  BY <1>1, <1>5 DEF Loop
<1>7. Loop(CurrSide(EndSide(team), half), EndSide(team), half)
  BY <1>1, <1>4, LoopRuns
<1>8. \A i \in 1..n : CurrSide(EndSide(team), half)[i] = game[i]
  BY <1>1, <1>6, <1>7, LoopUnique
<1> QED
  BY <1>1, <1>2, <1>3, <1>8

\* So it counts the rounds the team won, up to any round.
LEMMA ScoreIsWins ==
    ASSUME Sound, Over, NEW team \in Teams, NEW m \in 0..Len(rounds)
    PROVE  GetScore(EndSide(team), m, HalfLength(kind)) = Wins(team, m)
<1> DEFINE side == CurrSide(EndSide(team), HalfLength(kind))
<1>1. Len(rounds) \in Nat /\ Len(rounds) = Len(played) /\ played \in Seq(Teams) /\ rounds \in Seq(Sides)
  BY DEF Sound, TypeOK
<1>2. ASSUME NEW i \in 1..m PROVE rounds[i] = side[i] <=> played[i] = team
  <2>1. i \in 1..Len(rounds) /\ i \in DOMAIN played /\ played[i] \in Teams
    BY <1>1
  <2>2. rounds[i] = PlaysOn(played[i], i) /\ side[i] = PlaysOn(team, i)
    BY <2>1, LoopIsTheGame DEF Sound, RecordedRight
  <2>3. PlaysOn(team, i) \in Sides
        /\ (played[i] # team => PlaysOn(played[i], i) = Other(PlaysOn(team, i)))
    BY <2>1, TeamsOpposed
  <2> QED
    BY <2>2, <2>3 DEF Sides, Other
<1>3. {i \in 1..m : rounds[i] = side[i]} = {i \in 1..m : played[i] = team}
  BY <1>2
<1> QED
  BY <1>3 DEF GetScore, Wins

\* Whatever length getScore assumes, it gives every round to one of the teams.
LEMMA ScoresAddUp ==
    ASSUME Sound, NEW half
    PROVE  /\ GetScore("CT", Len(rounds), half) + GetScore("T", Len(rounds), half) = Len(rounds)
           /\ GetScore("CT", Len(rounds), half) \in Nat /\ GetScore("T", Len(rounds), half) \in Nat
<1>1. PICK n \in Nat : n = Len(rounds) /\ rounds \in [1..n -> Sides]
  BY DEF Sound, TypeOK
<1>2. PICK ct \in [1..n -> Sides] : ct = CurrSide("CT", half) /\ Loop(ct, "CT", half)
  BY <1>1, LoopRuns DEF Sides
<1>3. PICK t \in [1..n -> Sides] : t = CurrSide("T", half) /\ Loop(t, "T", half)
  BY <1>1, LoopRuns DEF Sides
<1>4. \A i \in 1..n : t[i] = Other(ct[i])
  <2>1. PICK g : g = [i \in 1..n |-> Other(ct[i])]
    OBVIOUS
  <2>2. ASSUME NEW i \in 1..n
        PROVE  LET later == IF i = n THEN "T" ELSE g[i + 1]
               IN  g[i] = IF Switches(i, half) THEN Other(later) ELSE later
    <3>1. ct[i] = LET later == IF i = n THEN "CT" ELSE ct[i + 1]
                  IN  IF Switches(i, half) THEN Other(later) ELSE later
      BY <1>1, <1>2 DEF Loop
    <3>2. i # n => i + 1 \in 1..n
      OBVIOUS
    <3>3. i # n => g[i + 1] = Other(ct[i + 1]) /\ ct[i + 1] \in Sides
      BY <2>1, <3>2
    <3> QED
      BY <2>1, <3>1, <3>3 DEF Sides, Other
  <2>3. Loop(g, "T", half)
    BY <1>1, <2>2 DEF Loop
  <2> QED
    BY <1>1, <1>3, <2>1, <2>3, LoopUnique
<1> DEFINE C == {i \in 1..n : rounds[i] = ct[i]}
           D == {i \in 1..n : rounds[i] = t[i]}
<1>5. C \union D = 1..n /\ C \intersect D = {}
  BY <1>1, <1>2, <1>4 DEF Sides, Other
<1>6. IsFiniteSet(1..n) /\ Cardinality(1..n) = n
  BY FS_Interval
<1>7. C \in SUBSET (1..n) /\ D \in SUBSET (1..n)
  OBVIOUS
<1>8. GetScore("CT", Len(rounds), half) = Cardinality(C) /\ GetScore("T", Len(rounds), half) = Cardinality(D)
  BY <1>1, <1>2, <1>3 DEF GetScore
<1> HIDE DEF C, D
<1>9. IsFiniteSet(C) /\ IsFiniteSet(D)
  BY <1>6, <1>7, FS_Subset
<1>10. Cardinality(C) \in Nat /\ Cardinality(D) \in Nat
  BY <1>9, FS_CardinalityType
<1>11. Cardinality(C \union D) = Cardinality(C) + Cardinality(D) - Cardinality(C \intersect D)
  BY <1>9, FS_Union
<1>12. Cardinality(C) + Cardinality(D) = n
  <2>1. Cardinality(C \intersect D) = 0
    BY <1>5, FS_EmptySet
  <2>2. Cardinality(C \union D) = n
    BY <1>5, <1>6
  <2> QED
    BY <1>10, <1>11, <2>1, <2>2
<1> QED
  BY <1>1, <1>8, <1>10, <1>12

\* A short match of full length, taken for a long one: the sides seem to change before
\* its last round.
LEMMA ShortTakenForLong ==
    ASSUME Sound, Len(rounds) = Half + 1, NEW endSide \in Sides,
           GetScore(endSide, Len(rounds), Half) = Half + 1
    PROVE  \A i \in 1..Half : rounds[i] # rounds[Half + 1]
<1>1. PICK n : n = Len(rounds) /\ n \in Nat /\ n = Half + 1 /\ Half \in Nat /\ Half > 0
  BY HalvesAssumption
<1>2. PICK g : g = [i \in 1..n |-> IF i = n THEN endSide ELSE Other(endSide)]
  OBVIOUS
<1>3. \A i \in 1..n : Switches(i, Half) <=> i = Half
  BY <1>1 DEF Switches
<1>4. ASSUME NEW i \in 1..n
      PROVE  LET later == IF i = n THEN endSide ELSE g[i + 1]
             IN  g[i] = IF Switches(i, Half) THEN Other(later) ELSE later
  <2>1. CASE i = n
    <3>1. ~Switches(i, Half)
      BY <1>1, <1>3, <2>1
    <3> QED
      BY <1>2, <2>1, <3>1
  <2>2. CASE i = Half
    <3>1. i # n /\ i + 1 = n /\ i + 1 \in 1..n
      BY <1>1, <2>2
    <3>2. g[i + 1] = endSide /\ g[i] = Other(endSide)
      BY <1>2, <3>1
    <3> QED
      BY <1>3, <2>2, <3>1, <3>2
  <2>3. CASE i # n /\ i # Half
    <3>1. i + 1 # n /\ i + 1 \in 1..n
      BY <1>1, <2>3
    <3>2. g[i + 1] = Other(endSide) /\ g[i] = Other(endSide)
      BY <1>2, <2>3, <3>1
    <3> QED
      BY <1>3, <2>3, <3>2
  <2> QED
    BY <2>1, <2>2, <2>3
<1>5. Loop(g, endSide, Half)
  BY <1>1, <1>4 DEF Loop
<1>6. Loop(CurrSide(endSide, Half), endSide, Half)
  BY <1>1, LoopRuns
<1>7. \A i \in 1..n : CurrSide(endSide, Half)[i] = g[i]
  BY <1>1, <1>5, <1>6, LoopUnique
<1> DEFINE C == {i \in 1..n : rounds[i] = CurrSide(endSide, Half)[i]}
<1>8. C \in SUBSET (1..n) /\ Cardinality(C) = n
  BY <1>1 DEF GetScore
<1>9. IsFiniteSet(1..n) /\ Cardinality(1..n) = n
  BY <1>1, FS_Interval
<1>10. C = 1..n
  <2> HIDE DEF C
  <2> QED
    BY <1>8, <1>9, FS_Subset
<1>11. \A i \in 1..n : rounds[i] = g[i]
  BY <1>7, <1>10
<1>12. rounds[n] = endSide /\ \A i \in 1..Half : rounds[i] = Other(endSide)
  BY <1>1, <1>2, <1>11
<1> QED
  BY <1>1, <1>12 DEF Sides, Other

\* The length of the match is guessed right from the score, but for the exception.
LEMMA GuessRight ==
    ASSUME Sound, Scored
    PROVE  GuessedHalf = HalfLength(kind)
<1>1. PICK n : n = Len(rounds) /\ n = Len(played) /\ n \in Nat /\ kind \in Kinds
  BY DEF Sound, TypeOK
<1>2. Half \in Nat /\ ShortHalf \in Nat /\ Half >= 3 /\ Half + 1 = 2 * ShortHalf
  BY HalvesAssumption
<1>3. Over /\ ~LooksShutOut
  BY DEF Scored
<1>4. n > HalfLength(kind) /\ HalfLength(kind) \in Nat /\ HalfLength(kind) > 0
  BY <1>1, <1>3, EndsBetweenSwitches, HalfFacts
<1>5. PICK ct \in Nat, t \in Nat : /\ ct = GetScore("CT", n, Half)
                                   /\ t = GetScore("T", n, Half)
                                   /\ ct + t = n
  BY <1>1, ScoresAddUp
<1>6. GuessesShort <=> n <= Half + 1 /\ ct # Half + 1 /\ t # Half + 1
  BY <1>1, <1>5 DEF GuessesShort
<1>7. CASE kind = "short"
  <2>1. n <= Half + 1
    <3>1. n \in Rounds
      BY <1>1, <1>4 DEF Rounds, Sound, TypeOK
    <3>2. n <= 2 * ShortHalf
      BY <1>7, <3>1 DEF Sound, AllPlayable, Playable
    <3> QED
      BY <1>1, <1>2, <3>2
  <2>2. ASSUME NEW endSide \in Sides, GetScore(endSide, n, Half) = Half + 1
        PROVE  FALSE
    <3>1. n = Half + 1
      <4>1. ct = Half + 1 \/ t = Half + 1
        BY <1>5, <2>2 DEF Sides
      <4> QED
        BY <1>1, <1>2, <1>5, <2>1, <4>1
    <3>2. \A i \in 1..Half : rounds[i] # rounds[Half + 1]
      BY <1>1, <2>2, <3>1, ShortTakenForLong
    <3> QED
      BY <1>1, <1>3, <1>7, <3>1, <3>2 DEF LooksShutOut
  <2>3. ct # Half + 1 /\ t # Half + 1
    BY <1>5, <2>2 DEF Sides
  <2> QED
    BY <1>6, <1>7, <2>1, <2>3 DEF GuessedHalf, HalfLength
<1>8. CASE kind = "long"
  <2>1. HalfLength(kind) = Half
    BY <1>8 DEF HalfLength
  <2>2. ASSUME NEW team \in Teams PROVE Wins(team, n) \in {ct, t}
    <3>1. GetScore(EndSide(team), n, Half) = Wins(team, n)
      BY <1>1, <1>3, <2>1, ScoreIsWins
    <3>2. EndSide(team) \in Sides
      BY <1>1, TeamsOpposed DEF EndSide
    <3> QED
      BY <1>5, <3>1, <3>2 DEF Sides
  <2>3. CASE n > 2 * Half
    BY <1>1, <1>2, <1>6, <2>1, <2>3 DEF GuessedHalf
  <2>4. CASE n <= 2 * Half /\ Won
    <3>1. PICK team \in Teams : Wins(team, n) = Target(n)
      BY <1>1, <2>4 DEF Won
    <3>2. Wins(team, n) = Half + 1
      BY <2>1, <2>4, <3>1 DEF Target
    <3>3. ct = Half + 1 \/ t = Half + 1
      BY <2>2, <3>2
    <3> QED
      BY <1>6, <2>1, <3>3 DEF GuessedHalf
  <2>5. CASE Drawn
    <3>1. n = 2 * Half
      BY <1>1, <2>1, <2>5 DEF Drawn
    <3> QED
      BY <1>1, <1>2, <1>6, <2>1, <3>1 DEF GuessedHalf
  <2> QED
    BY <1>1, <1>2, <1>3, <2>3, <2>4, <2>5 DEF Over
<1> QED
  BY <1>1, <1>7, <1>8 DEF Kinds

\* The score the parser reports is the score played, for halves of any length and any
\* number of overtimes: getScore's rule for the sides and its guess of the length of the
\* match are right together, but for a short match that looks like a shut-out.
THEOREM ScoresAreRight == Spec => []FinalScoreRight
<1>1. Sound => FinalScoreRight
  <2> SUFFICES ASSUME Sound, Scored, NEW team \in Teams
               PROVE  FinalScore(EndSide(team)) = Wins(team, Len(played))
    BY DEF FinalScoreRight
  <2>1. Len(rounds) \in 0..Len(rounds) /\ Len(rounds) = Len(played)
    BY DEF Sound, TypeOK
  <2>2. GetScore(EndSide(team), Len(rounds), HalfLength(kind)) = Wins(team, Len(rounds))
    BY <2>1, ScoreIsWins DEF Scored
  <2> QED
    BY <2>1, <2>2, GuessRight DEF FinalScore
<1> QED
  BY <1>1, SoundInvariant, PTL

-----------------------------------------------------------------------------
(* The page, of a match the parser takes for what it was.                  *)

\* Of the two teams one ends on either side.
LEMMA TeamsNamed ==
    /\ TeamA \in Teams /\ EndSide(TeamA) = "CT"
    /\ TeamB \in Teams /\ EndSide(TeamB) = "T"
    /\ Teams = {TeamA, TeamB} /\ TeamA # TeamB
<1>1. PICK x \in Teams, y \in Teams : x # y /\ Teams = {x, y}
  BY DEF Teams
<1>2. EndSide(x) \in Sides /\ EndSide(y) = Other(EndSide(x))
  BY <1>1, TeamsOpposed DEF EndSide
<1>3. \/ EndSide(x) = "CT" /\ EndSide(y) = "T"
      \/ EndSide(x) = "T" /\ EndSide(y) = "CT"
  BY <1>2 DEF Sides, Other
<1>4. TeamA \in Teams /\ EndSide(TeamA) = "CT"
  BY <1>1, <1>3 DEF TeamA
<1>5. TeamB \in Teams /\ EndSide(TeamB) = "T"
  BY <1>1, <1>3 DEF TeamB
<1> QED
  BY <1>1, <1>3, <1>4, <1>5

\* What computeRoundByRound and computeStartSides record is the game's.
LEMMA RecordRight ==
    ASSUME Sound, Scored, NEW team \in Teams, NEW n \in Rounds
    PROVE  /\ RoundByRound(EndSide(team))[n] = <<Wins(team, n), PlaysOn(team, n)>>
           /\ StartTeam(EndSide(team)) = PlaysOn(team, 1)
           /\ n \in 1..Len(rounds) /\ 1 \in 1..Len(rounds) /\ Len(rounds) \in Nat
<1>1. n \in 1..Len(rounds) /\ 1 \in 1..Len(rounds) /\ Len(rounds) \in Nat
  BY DEF Rounds, Sound, TypeOK
<1>2. GuessedHalf = HalfLength(kind) /\ Over
  BY GuessRight DEF Scored
<1>3. GetScore(EndSide(team), n, GuessedHalf) = Wins(team, n)
  BY <1>1, <1>2, ScoreIsWins
<1>4. /\ RoundSide(EndSide(team), n, GuessedHalf) = PlaysOn(team, n)
      /\ RoundSide(EndSide(team), 1, GuessedHalf) = PlaysOn(team, 1)
  BY <1>1, <1>2, LoopIsTheGame DEF RoundSide
<1> QED
  BY <1>1, <1>3, <1>4 DEF RoundByRound, StartTeam, StartSide, Rounds

\* Who won a round is who was on the side on record.
LEMMA WinnerRight ==
    ASSUME Sound, NEW team \in Teams, NEW n \in Rounds
    PROVE  /\ rounds[n] = PlaysOn(team, n) <=> played[n] = team
           /\ played[n] \in Teams
<1>1. n \in DOMAIN played /\ played[n] \in Teams /\ rounds[n] = PlaysOn(played[n], n)
  BY DEF Sound, TypeOK, RecordedRight, Rounds
<1>2. PlaysOn(team, n) \in Sides
      /\ (played[n] # team => PlaysOn(played[n], n) = Other(PlaysOn(team, n)))
  BY <1>1, TeamsOpposed
<1> QED
  BY <1>1, <1>2 DEF Sides, Other

\* The kill feed and the list of rounds are right in every round of every match.
THEOREM FeedIsRight == Spec => []FeedRight
<1>1. Sound => FeedRight
  <2> SUFFICES ASSUME Sound, Scored, NEW n \in Rounds
               PROVE  LET entry == ListEntry(n - 1)
                      IN  /\ \A team \in Teams : FeedSides(n - 1)[EndSide(team)] = PlaysOn(team, n)
                          /\ entry.score = <<Wins(TeamA, n), Wins(TeamB, n)>>
                          /\ entry.icon = <<played[n] = TeamA, played[n] = TeamB>>
    BY DEF FeedRight
  <2>1. n \in Nat /\ n - 1 + 1 = n
    BY DEF Rounds, Sound, TypeOK
  <2>2. ASSUME NEW team \in Teams PROVE FeedSides(n - 1)[EndSide(team)] = PlaysOn(team, n)
    <3>1. halfLength = HalfLength(kind) /\ kind \in Kinds /\ Playable(n)
      BY GuessRight DEF halfLength, Sound, TypeOK, AllPlayable
    <3>2. PlayerSide(PlaysOn(team, 1), n) = PlaysOn(team, n)
      BY <3>1, PlayerSideRight
    <3>3. EndSide(team) \in Sides
      BY TeamsOpposed DEF EndSide
    <3>4. FeedSides(n - 1)[EndSide(team)] = PlayerSide(StartTeam(EndSide(team)), n)
      BY <2>1, <3>3 DEF FeedSides
    <3> QED
      BY <3>2, <3>4, RecordRight
  <2>3. /\ RoundByRound("CT")[n] = <<Wins(TeamA, n), PlaysOn(TeamA, n)>>
        /\ RoundByRound("T")[n] = <<Wins(TeamB, n), PlaysOn(TeamB, n)>>
    BY RecordRight, TeamsNamed
  <2>4. ListEntry(n - 1).score = <<Wins(TeamA, n), Wins(TeamB, n)>>
    BY <2>1, <2>3 DEF ListEntry
  <2>5. ListEntry(n - 1).icon = <<rounds[n] = PlaysOn(TeamA, n), rounds[n] = PlaysOn(TeamB, n)>>
    BY <2>1, <2>3 DEF ListEntry
  <2>6. (rounds[n] = PlaysOn(TeamA, n)) = (played[n] = TeamA)
        /\ (rounds[n] = PlaysOn(TeamB, n)) = (played[n] = TeamB)
    BY TeamsNamed, WinnerRight
  <2> QED
    BY <2>2, <2>4, <2>5, <2>6
<1> QED
  BY <1>1, SoundInvariant, PTL

-----------------------------------------------------------------------------
(* Sums over sections.                                                     *)

\* Sections with the rounds each of them is to count, none of which two of them share.
Counted(S, X, row) ==
    /\ IsFiniteSet(S) /\ IsFiniteSet(X)
    /\ row \in [S -> SUBSET X]
    /\ \A s, r \in S : s # r => row[s] \intersect row[r] = {}

InAll(row, T) == UNION {row[s] : s \in T}

LEMMA CountedStep ==
    ASSUME NEW S, NEW X, NEW row, Counted(S, X, row), NEW T \in SUBSET S
    PROVE  /\ Cardinality(InAll(row, T)) \in Nat
           /\ T = {} => Cardinality(InAll(row, T)) = 0
           /\ \A x \in T : /\ Cardinality(row[x]) \in Nat
                           /\ Cardinality(InAll(row, T))
                                = Cardinality(row[x]) + Cardinality(InAll(row, T \ {x}))
<1>1. ASSUME NEW U \in SUBSET S PROVE IsFiniteSet(InAll(row, U)) /\ Cardinality(InAll(row, U)) \in Nat
  <2>1. InAll(row, U) \in SUBSET X
    BY DEF Counted, InAll
  <2> QED
    BY <2>1, FS_Subset, FS_CardinalityType DEF Counted
<1>2. ASSUME T = {} PROVE Cardinality(InAll(row, T)) = 0
  <2>1. InAll(row, T) = {}
    BY <1>2 DEF InAll
  <2> QED
    BY <2>1, FS_EmptySet
<1>3. ASSUME NEW x \in T
      PROVE  /\ Cardinality(row[x]) \in Nat
             /\ Cardinality(InAll(row, T)) = Cardinality(row[x]) + Cardinality(InAll(row, T \ {x}))
  <2>1. PICK A, B : A = row[x] /\ B = InAll(row, T \ {x})
    OBVIOUS
  <2>2. InAll(row, T) = A \union B
    BY <2>1 DEF InAll
  <2>3. A \intersect B = {}
    BY <2>1 DEF Counted, InAll
  <2>4. IsFiniteSet(A) /\ IsFiniteSet(B) /\ Cardinality(A) \in Nat /\ Cardinality(B) \in Nat
    <3>1. A \in SUBSET X /\ T \ {x} \in SUBSET S
      BY <2>1 DEF Counted
    <3> QED
      BY <1>1, <2>1, <3>1, FS_Subset, FS_CardinalityType DEF Counted
  <2>5. Cardinality(A \union B) = Cardinality(A) + Cardinality(B) - Cardinality(A \intersect B)
    BY <2>4, FS_Union
  <2>6. Cardinality(A \intersect B) = 0
    BY <2>3, FS_EmptySet
  <2> QED
    BY <2>1, <2>2, <2>4, <2>5, <2>6
<1> QED
  BY <1>1, <1>2, <1>3

\* A function that adds up one section after the other, in any order, counts all rounds.
LEMMA SumUnique ==
    ASSUME NEW S, NEW X, NEW row, Counted(S, X, row), NEW f,
           \A T \in SUBSET S : T = {} => f[T] = 0,
           \A T \in SUBSET S : T # {} => \E x \in T : f[T] = Cardinality(row[x]) + f[T \ {x}]
    PROVE  f[S] = Cardinality(InAll(row, S))
<1> DEFINE K == {k \in Nat : \A T \in SUBSET S :
                    Cardinality(T) = k => f[T] = Cardinality(InAll(row, T))}
<1>1. \A T \in SUBSET S : IsFiniteSet(T) /\ Cardinality(T) \in Nat
  BY FS_Subset, FS_CardinalityType DEF Counted
<1>2. 0 \in K
  <2> SUFFICES ASSUME NEW T \in SUBSET S, Cardinality(T) = 0
               PROVE  f[T] = Cardinality(InAll(row, T))
    OBVIOUS
  <2>1. T = {}
    BY <1>1, FS_EmptySet
  <2> QED
    BY <2>1, CountedStep
<1>3. ASSUME NEW k \in Nat, k \in K PROVE k + 1 \in K
  <2> SUFFICES ASSUME NEW T \in SUBSET S, Cardinality(T) = k + 1
               PROVE  f[T] = Cardinality(InAll(row, T))
    OBVIOUS
  <2>1. T # {}
    BY FS_EmptySet
  <2>2. PICK x \in T : f[T] = Cardinality(row[x]) + f[T \ {x}]
    BY <2>1
  <2>3. Cardinality(T \ {x}) = k /\ T \ {x} \in SUBSET S
    <3>1. IsFiniteSet(T)
      BY <1>1
    <3>2. Cardinality(T \ {x}) = Cardinality(T) - 1
      BY <3>1, FS_RemoveElement
    <3>3. T \ {x} \in SUBSET S
      OBVIOUS
    <3> QED
      BY <3>2, <3>3
  <2>4. f[T \ {x}] = Cardinality(InAll(row, T \ {x}))
    <3>1. \A U \in SUBSET S : Cardinality(U) = k => f[U] = Cardinality(InAll(row, U))
      BY <1>3
    <3> QED
      BY <2>3, <3>1
  <2>5. Cardinality(InAll(row, T)) = Cardinality(row[x]) + Cardinality(InAll(row, T \ {x}))
    BY <2>2, CountedStep
  <2> QED
    BY <2>2, <2>4, <2>5
<1>4. Cardinality(S) \in K
  <2>1. Cardinality(S) \in Nat
    BY <1>1
  <2> HIDE DEF K
  <2> QED
    BY <1>2, <1>3, <2>1, Counting
<1> QED
  BY <1>4

\* ScoreNumber of all sections together, of the upper team or the lower.
LEMMA SumIsCount ==
    ASSUME NEW S, NEW X, NEW row, Counted(S, X, row), NEW c \in {1, 2},
           \A s \in S : SectionScore(s)[c] = Cardinality(row[s])
    PROVE  (CHOOSE iter : iter = [T \in SUBSET S |->
               IF T = {} THEN 0
               ELSE SectionScore(CHOOSE x \in T : TRUE)[c] + iter[T \ {CHOOSE x \in T : TRUE}]])[S]
             = Cardinality(InAll(row, S))
<1> DEFINE Step(f, T) == IF T = {} THEN 0
                         ELSE SectionScore(CHOOSE x \in T : TRUE)[c] + f[T \ {CHOOSE x \in T : TRUE}]
           sum == CHOOSE iter : iter = [T \in SUBSET S |-> Step(iter, T)]
<1>1. PICK g : g = [T \in SUBSET S |-> Cardinality(InAll(row, T))]
  OBVIOUS
<1>2. ASSUME NEW T \in SUBSET S PROVE g[T] = Step(g, T)
  <2>1. CASE T = {}
    BY <1>1, <2>1, CountedStep
  <2>2. CASE T # {}
    <3>1. PICK x : x = (CHOOSE y \in T : TRUE) /\ x \in T
      BY <2>2
    <3>2. T \ {x} \in SUBSET S /\ x \in S
      BY <3>1
    <3>3. Cardinality(InAll(row, T)) = Cardinality(row[x]) + Cardinality(InAll(row, T \ {x}))
      <4>1. x \in T
        BY <3>1
      <4> HIDE DEF Step, sum
      <4> QED
        BY <4>1, CountedStep
    <3>4. g[T] = Cardinality(row[x]) + g[T \ {x}]
      <4>1. \A U \in SUBSET S : g[U] = Cardinality(InAll(row, U))
        BY <1>1
      <4> QED
        BY <3>2, <3>3, <4>1
    <3>5. g[T] = SectionScore(x)[c] + g[T \ {x}]
      BY <3>2, <3>4
    <3> QED
      BY <2>2, <3>1, <3>5
  <2> QED
    BY <2>1, <2>2
<1>3. g = [T \in SUBSET S |-> Step(g, T)]
  <2> HIDE DEF Step
  <2> QED
    BY <1>1, <1>2
<1>4. sum = [T \in SUBSET S |-> Step(sum, T)]
  <2> HIDE DEF Step
  <2> QED
    BY <1>3
<1>5. \A T \in SUBSET S : sum[T] = Step(sum, T)
  <2> HIDE DEF Step, sum
  <2> QED
    BY <1>4
<1>6. sum[S] = Cardinality(InAll(row, S))
  <2> HIDE DEF sum
  <2>1. \A T \in SUBSET S : T = {} => sum[T] = 0
    BY <1>5
  <2>2. ASSUME NEW T \in SUBSET S, T # {}
        PROVE  \E x \in T : sum[T] = Cardinality(row[x]) + sum[T \ {x}]
    <3>1. PICK x : x = (CHOOSE y \in T : TRUE) /\ x \in T
      BY <2>2
    <3>2. sum[T] = SectionScore(x)[c] + sum[T \ {x}]
      BY <1>5, <2>2, <3>1
    <3> QED
      BY <3>1, <3>2
  <2> HIDE DEF Step
  <2> QED
    BY <2>1, <2>2, SumUnique
<1> QED
  BY <1>6

-----------------------------------------------------------------------------
(* The grids.                                                              *)

\* A section of the grid of results is one of the grid of kills of a player of team A.
Shown(s) == [rounds |-> s.rounds, top |-> s.side]

LEMMA GridsAlike ==
    ASSUME Sound, Scored
    PROVE  /\ ResultSections = {Shown(s) : s \in KillSections(PlaysOn(TeamA, 1))}
           /\ Rounds # {} /\ Len(rounds) \in Nat /\ halfLength \in Nat
<1>1. Len(rounds) \in Nat /\ Len(rounds) > 0 /\ 1 \in Rounds /\ halfLength \in Nat
  BY EndsBetweenSwitches, HalfFacts, GuessRight DEF Scored, Sound, TypeOK, Rounds, halfLength
<1>2. PICK a, b : /\ a = RoundByRound("CT")[1][2] /\ a = PlaysOn(TeamA, 1)
                  /\ b = RoundByRound("T")[1][2] /\ b = PlaysOn(TeamB, 1)
                  /\ b = Other(a) /\ Other(b) = a
  <2>1. /\ RoundByRound("CT")[1] = <<Wins(TeamA, 1), PlaysOn(TeamA, 1)>>
        /\ RoundByRound("T")[1] = <<Wins(TeamB, 1), PlaysOn(TeamB, 1)>>
    BY <1>1, RecordRight, TeamsNamed
  <2>2. PlaysOn(TeamA, 1) \in Sides /\ PlaysOn(TeamB, 1) = Other(PlaysOn(TeamA, 1))
    BY TeamsNamed, TeamsOpposed
  <2>3. Other(Other(PlaysOn(TeamA, 1))) = PlaysOn(TeamA, 1)
    BY <2>2 DEF Other, Sides
  <2> QED
    BY <2>1, <2>2, <2>3
<1> DEFINE Cut(ot) == 2 * halfLength + ot * 6
           First(ot) == [rounds |-> Slice(Cut(ot), Cut(ot) + 3),
                         side |-> IF ot % 2 = 0 THEN b ELSE a]
           Second(ot) == [rounds |-> Slice(Cut(ot) + 3, Cut(ot) + 6),
                          side |-> IF ot % 2 = 0 THEN a ELSE b]
           Ones == {[rounds |-> Slice(0, halfLength), side |-> a],
                    [rounds |-> Slice(halfLength, 2 * halfLength), side |-> b]}
<1>3. KillSections(a) = Ones \union UNION {{First(ot), Second(ot)} : ot \in Overtimes}
  BY <1>2 DEF KillSections
<1>4. ResultSections = {Shown(s) : s \in Ones}
                         \union UNION {{Shown(First(ot)), Shown(Second(ot))} : ot \in Overtimes}
  BY <1>2 DEF ResultSections, Shown
<1>5. ResultSections = {Shown(s) : s \in KillSections(a)}
  <2> HIDE DEF First, Second, Ones
  <2> QED
    BY <1>3, <1>4
<1> QED
  BY <1>1, <1>2, <1>5

\* Every round is in one section, with the side that team A was on in the top row.
LEMMA ResultSectionsRight ==
    ASSUME Sound, Scored, NEW n \in Rounds
    PROVE  \E s \in ResultSections : /\ n \in s.rounds /\ s.top = PlaysOn(TeamA, n)
                                     /\ \A r \in ResultSections : n \in r.rounds => r = s
<1>1. PICK s \in KillSections(PlaysOn(TeamA, 1)) :
         /\ n \in s.rounds /\ s.side = PlaysOn(TeamA, n)
         /\ \A r \in KillSections(PlaysOn(TeamA, 1)) : n \in r.rounds => r = s
  BY KillSectionsRight, GuessRight, TeamsNamed DEF Sound, halfLength
<1>2. Shown(s) \in ResultSections /\ n \in Shown(s).rounds /\ Shown(s).top = PlaysOn(TeamA, n)
  BY <1>1, GridsAlike DEF Shown
<1>3. ASSUME NEW r \in ResultSections, n \in r.rounds PROVE r = Shown(s)
  <2>1. PICK q \in KillSections(PlaysOn(TeamA, 1)) : r = Shown(q)
    BY GridsAlike
  <2>2. n \in q.rounds
    BY <1>3, <2>1 DEF Shown
  <2> QED
    BY <1>1, <2>1, <2>2
<1> QED
  BY <1>2, <1>3

LEMMA SectionTyped ==
    ASSUME Sound, Scored, NEW s \in ResultSections
    PROVE  s.rounds \in SUBSET Rounds /\ s.top \in Sides
<1>1. PICK q \in KillSections(PlaysOn(TeamA, 1)) : s = Shown(q)
  BY GridsAlike
<1>2. PlaysOn(TeamA, 1) \in Sides
  BY TeamsNamed, TeamsOpposed
<1>3. q.rounds \in SUBSET Rounds
  BY DEF KillSections, Slice
<1>4. q.side \in Sides
  BY <1>2 DEF KillSections, Sides, Other
<1> QED
  BY <1>1, <1>3, <1>4 DEF Shown

LEMMA SectionsFinite ==
    ASSUME Sound, Scored
    PROVE  IsFiniteSet(ResultSections) /\ IsFiniteSet(Rounds)
<1>1. IsFiniteSet(Rounds)
  <2>1. Rounds = 1..Len(rounds) /\ Len(rounds) \in Nat
    BY DEF Sound, TypeOK, Rounds
  <2> QED
    BY <2>1, FS_Interval
<1>2. IsFiniteSet((SUBSET Rounds) \X Sides)
  <2>1. Sides = {"CT"} \union {"T"} /\ IsFiniteSet({"CT"})
    BY FS_Singleton DEF Sides
  <2>2. IsFiniteSet(Sides)
    BY <2>1, FS_AddElement
  <2>3. IsFiniteSet(SUBSET Rounds)
    BY <1>1, FS_SUBSET
  <2> QED
    BY <2>2, <2>3, FS_Product
<1>3. PICK f : f = [s \in ResultSections |-> <<s.rounds, s.top>>]
  OBVIOUS
<1>4. f \in Injection(ResultSections, (SUBSET Rounds) \X Sides)
  <2>1. f \in [ResultSections -> (SUBSET Rounds) \X Sides]
    BY <1>3, SectionTyped
  <2>2. ASSUME NEW s \in ResultSections, NEW r \in ResultSections, f[s] = f[r]
        PROVE  s = r
    <3>1. s.rounds = r.rounds /\ s.top = r.top
      BY <1>3, <2>2
    <3>2. PICK p \in KillSections(PlaysOn(TeamA, 1)), q \in KillSections(PlaysOn(TeamA, 1)) :
             s = Shown(p) /\ r = Shown(q)
      BY GridsAlike
    <3> QED
      BY <3>1, <3>2 DEF Shown
  <2> QED
    BY <2>1, <2>2 DEF Injection, IsInjective
<1>5. IsFiniteSet(ResultSections)
  BY <1>2, <1>4, FS_Injection
<1> QED
  BY <1>1, <1>5

\* In a section the rounds of team A are in the top row, those of team B in the other.
LEMMA RowsRight ==
    ASSUME Sound, Scored
    PROVE  /\ \A s \in ResultSections : \A n \in s.rounds :
                 /\ n \in Rounds
                 /\ rounds[n] = s.top <=> played[n] = TeamA
                 /\ rounds[n] # s.top <=> played[n] = TeamB
                 /\ rounds[n] # s.top <=> rounds[n] = Other(s.top)
           /\ \A s, r \in ResultSections : s # r => s.rounds \intersect r.rounds = {}
           /\ \A n \in Rounds : \E s \in ResultSections : n \in s.rounds
<1>1. ASSUME NEW s \in ResultSections, NEW n \in s.rounds
      PROVE  n \in Rounds /\ s.top = PlaysOn(TeamA, n)
  <2>1. n \in Rounds
    BY <1>1, SectionTyped
  <2>2. PICK t \in ResultSections : /\ t.top = PlaysOn(TeamA, n)
                                    /\ \A r \in ResultSections : n \in r.rounds => r = t
    BY <2>1, ResultSectionsRight
  <2> QED
    BY <1>1, <2>1, <2>2
<1>2. ASSUME NEW s \in ResultSections, NEW n \in s.rounds
      PROVE  /\ rounds[n] = s.top <=> played[n] = TeamA
             /\ rounds[n] # s.top <=> played[n] = TeamB
             /\ rounds[n] # s.top <=> rounds[n] = Other(s.top)
  <2>1. n \in Rounds /\ s.top = PlaysOn(TeamA, n) /\ TeamA \in Teams
    BY <1>1, <1>2, TeamsNamed
  <2>2. (rounds[n] = s.top <=> played[n] = TeamA) /\ played[n] \in Teams
    BY <2>1, WinnerRight
  <2>3. played[n] # TeamA <=> played[n] = TeamB
    BY <2>2, TeamsNamed
  <2>4. rounds[n] \in Sides /\ s.top \in Sides
    BY <1>2, <2>1, SectionTyped DEF Sound, TypeOK, Rounds
  <2> QED
    BY <2>2, <2>3, <2>4 DEF Sides, Other
<1>3. ASSUME NEW s \in ResultSections, NEW r \in ResultSections, s # r
      PROVE  s.rounds \intersect r.rounds = {}
  <2> SUFFICES ASSUME NEW n \in s.rounds, n \in r.rounds PROVE FALSE
    OBVIOUS
  <2>1. n \in Rounds
    BY <1>1
  <2> QED
    BY <1>3, <2>1, ResultSectionsRight
<1> QED
  BY <1>1, <1>2, <1>3, ResultSectionsRight

LEMMA ResultsAreInGrid ==
    ASSUME Sound, Scored
    PROVE  ResultsInGrid
<1> DEFINE Top == [s \in ResultSections |-> TopRow(s)]
           Bottom == [s \in ResultSections |-> BottomRow(s)]
           wonA == {n \in Rounds : played[n] = TeamA}
           wonB == {n \in Rounds : played[n] = TeamB}
<1>1. \A n \in Rounds : Cardinality({s \in ResultSections : n \in s.rounds}) = 1
  <2> TAKE n \in Rounds
  <2>1. PICK s : {r \in ResultSections : n \in r.rounds} = {s}
    BY ResultSectionsRight
  <2> QED
    BY <2>1, FS_Singleton
<1>2. UNION {TopRow(s) : s \in ResultSections} = wonA
  BY RowsRight DEF TopRow
<1>3. UNION {BottomRow(s) : s \in ResultSections} = wonB
  BY RowsRight DEF BottomRow
<1>4. Counted(ResultSections, Rounds, Top) /\ InAll(Top, ResultSections) = wonA
  <2>1. \A s \in ResultSections : Top[s] = TopRow(s) /\ TopRow(s) \in SUBSET Rounds
    BY SectionTyped DEF TopRow
  <2>2. \A s, r \in ResultSections : s # r => Top[s] \intersect Top[r] = {}
    BY <2>1, RowsRight DEF TopRow
  <2>3. Top \in [ResultSections -> SUBSET Rounds]
    BY <2>1
  <2> HIDE DEF Top
  <2> QED
    BY <1>2, <2>1, <2>2, <2>3, SectionsFinite DEF Counted, InAll
<1>5. Counted(ResultSections, Rounds, Bottom) /\ InAll(Bottom, ResultSections) = wonB
  <2>1. \A s \in ResultSections : Bottom[s] = BottomRow(s) /\ BottomRow(s) \in SUBSET Rounds
    BY SectionTyped DEF BottomRow
  <2>2. \A s, r \in ResultSections : s # r => Bottom[s] \intersect Bottom[r] = {}
    BY <2>1, RowsRight DEF BottomRow
  <2>3. Bottom \in [ResultSections -> SUBSET Rounds]
    BY <2>1
  <2> HIDE DEF Bottom
  <2> QED
    BY <1>3, <2>1, <2>2, <2>3, SectionsFinite DEF Counted, InAll
<1>6. \A s \in ResultSections : SectionScore(s)[1] = Cardinality(Top[s])
  BY DEF SectionScore, TopRow
<1>7. \A s \in ResultSections : SectionScore(s)[2] = Cardinality(Bottom[s])
  <2> SUFFICES ASSUME NEW s \in ResultSections
               PROVE  SectionScore(s)[2] = Cardinality(Bottom[s])
    OBVIOUS
  <2>1. {n \in s.rounds : rounds[n] = Other(s.top)} = BottomRow(s)
    BY RowsRight DEF BottomRow
  <2>2. SectionScore(s)[2] = Cardinality({n \in s.rounds : rounds[n] = Other(s.top)})
    BY DEF SectionScore
  <2> QED
    BY <2>1, <2>2
<1>8. MapThenSumSet(LAMBDA s : SectionScore(s)[1], ResultSections) = Cardinality(wonA)
  <2> HIDE DEF Top, wonA
  <2> QED
    BY <1>4, <1>6, SumIsCount DEF MapThenSumSet, MapThenFoldSet
<1>9. MapThenSumSet(LAMBDA s : SectionScore(s)[2], ResultSections) = Cardinality(wonB)
  <2> HIDE DEF Bottom, wonB
  <2> QED
    BY <1>5, <1>7, SumIsCount DEF MapThenSumSet, MapThenFoldSet
<1>10. FinalScore("CT") = Cardinality(wonA) /\ FinalScore("T") = Cardinality(wonB)
  <2>1. Len(rounds) \in 0..Len(rounds) /\ Rounds = 1..Len(rounds)
    BY DEF Sound, TypeOK, Rounds
  <2>2. \A team \in Teams :
           GetScore(EndSide(team), Len(rounds), HalfLength(kind)) = Wins(team, Len(rounds))
    BY <2>1, ScoreIsWins DEF Scored
  <2>3. FinalScore("CT") = Wins(TeamA, Len(rounds)) /\ FinalScore("T") = Wins(TeamB, Len(rounds))
    BY <2>2, GuessRight, TeamsNamed DEF FinalScore
  <2> QED
    BY <2>1, <2>3 DEF Wins
<1> QED
  BY <1>1, <1>2, <1>3, <1>8, <1>9, <1>10 DEF ResultsInGrid

LEMMA KillsAreInGrid ==
    ASSUME Sound, Scored
    PROVE  KillsInGrid
<1> SUFFICES ASSUME NEW team \in Teams, NEW n \in Rounds
             PROVE  LET shown == {s \in KillSections(StartTeam(EndSide(team))) : n \in s.rounds}
                    IN  Cardinality(shown) = 1 /\ \A s \in shown : s.side = PlaysOn(team, n)
  BY DEF KillsInGrid
<1> DEFINE sections == KillSections(StartTeam(EndSide(team)))
<1>1. sections = KillSections(PlaysOn(team, 1))
  BY RecordRight
<1>2. PICK s \in sections : /\ n \in s.rounds /\ s.side = PlaysOn(team, n)
                            /\ \A r \in sections : n \in r.rounds => r = s
  BY <1>1, KillSectionsRight, GuessRight DEF Sound, halfLength
<1> HIDE DEF sections
<1>3. {r \in sections : n \in r.rounds} = {s}
  BY <1>2
<1>4. Cardinality({s}) = 1
  BY FS_Singleton
<1> QED
  BY <1>2, <1>3, <1>4 DEF sections

\* Both grids cut a match with any number of overtimes where the game changes the sides:
\* every round is shown once, in its winner's row or its player's colour, and the
\* sections' numbers add up to the score.
THEOREM GridsAreRight == Spec => []GridsRight
<1>1. Sound => GridsRight
  BY ResultsAreInGrid, KillsAreInGrid DEF GridsRight
<1> QED
  BY <1>1, SoundInvariant, PTL

=============================================================================
