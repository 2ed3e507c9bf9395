------------------------- MODULE Subsequences_proofs -------------------------
(***************************************************************************)
(* What a comprehension returns: exactly the chosen elements, each once,   *)
(* in the order of the list.                                               *)
(***************************************************************************)
EXTENDS Subsequences, FiniteSetTheorems, SequenceTheorems, TLAPS

\* Induction over places: a set of numbers has a least member, and a set of
\* places a last one.
LEMMA LeastOf ==
    ASSUME NEW T \in SUBSET Nat, T # {}
    PROVE  \E x \in T : \A y \in T : x <= y
<1>1. PICK x \in T : \A y \in T : ~ (<<y, x>> \in OpToRel(<, Nat))
  BY NatLessThanWellFounded, WFMin
<1>2. \A y \in T : ~ (y < x)
  BY <1>1 DEF OpToRel
<1> QED
  BY <1>2

LEMMA GreatestOf ==
    ASSUME NEW n \in Nat, NEW T \in SUBSET (1 .. n), T # {}
    PROVE  \E x \in T : \A y \in T : y <= x
<1> DEFINE U == {m \in Nat : n - m \in T}
<1>1. U # {}
  <2> PICK x \in T : TRUE
    OBVIOUS
  <2>1. n - x \in Nat /\ n - (n - x) = x
    OBVIOUS
  <2> QED
    BY <2>1
<1>2. PICK m \in U : \A k \in U : m <= k
  BY <1>1, LeastOf
<1>3. \A y \in T : n - y \in U
  OBVIOUS
<1>4. m \in Nat /\ n - m \in T
  BY <1>2
<1>5. ASSUME NEW y \in T PROVE y <= n - m
  <2>1. y \in Nat /\ n - y \in U
    BY <1>3
  <2> HIDE DEF U
  <2>2. m <= n - y
    BY <1>2, <2>1
  <2> QED
    BY <1>4, <2>1, <2>2
<1> QED
  BY <1>4, <1>5

\* A larger member has a larger rank, and every rank is below the size.
LEMMA CountBelowProperties ==
    ASSUME NEW S \in SUBSET Nat, IsFiniteSet(S)
    PROVE  /\ \A i \in S : CountBelow(S, i) \in Nat /\ CountBelow(S, i) < Cardinality(S)
           /\ \A i, j \in S : i < j => CountBelow(S, i) < CountBelow(S, j)
<1> DEFINE Below(i) == {j \in S : j < i}
<1>0. Cardinality(S) \in Nat
  BY FS_CardinalityType
<1>1. ASSUME NEW i \in S
      PROVE  /\ IsFiniteSet(Below(i)) /\ Cardinality(Below(i)) \in Nat
             /\ Cardinality(Below(i)) < Cardinality(S)
  <2>1. Below(i) \in SUBSET S /\ i \notin Below(i)
    BY <1>1
  <2>2. /\ IsFiniteSet(Below(i)) /\ Cardinality(Below(i)) <= Cardinality(S)
        /\ Cardinality(Below(i)) # Cardinality(S)
    BY <1>1, <2>1, FS_Subset
  <2> QED
    BY <1>0, <2>2, FS_CardinalityType
<1>2. ASSUME NEW i \in S, NEW j \in S, i < j
      PROVE  Cardinality(Below(i)) < Cardinality(Below(j))
  <2>0. ~(i < i) /\ \A k \in S : k < i => k < j
    BY <1>2
  <2>1. Below(i) \in SUBSET Below(j) /\ i \in Below(j) /\ i \notin Below(i)
    BY <1>2, <2>0
  <2>2. /\ Cardinality(Below(i)) <= Cardinality(Below(j))
        /\ Cardinality(Below(i)) # Cardinality(Below(j))
    BY <1>1, <2>1, FS_Subset
  <2> QED
    BY <1>1, <2>2
<1> QED
  BY <1>1, <1>2 DEF CountBelow

\* Every place of a finite set of numbers is taken by one of its members.
LEMMA NthProperties ==
    ASSUME NEW S \in SUBSET Nat, IsFiniteSet(S)
    PROVE  /\ Cardinality(S) \in Nat
           /\ \A n \in 1..Cardinality(S) : Nth(S, n) \in S /\ CountBelow(S, Nth(S, n)) = n - 1
           /\ \A i \in S : \E n \in 1..Cardinality(S) : Nth(S, n) = i
           /\ \A m, n \in 1..Cardinality(S) : m < n => Nth(S, m) < Nth(S, n)
<1> DEFINE C == Cardinality(S)
           place == [i \in S |-> CountBelow(S, i) + 1]
<1>1. C \in Nat
  BY FS_CardinalityType
<1>2. place \in Injection(S, 1..C)
  <2>1. place \in [S -> 1..C]
    BY <1>1, CountBelowProperties
  <2>2. \A i, j \in S : place[i] = place[j] => i = j
    BY CountBelowProperties
  <2> QED
    BY <2>1, <2>2 DEF Injection, IsInjective
<1>3. place \in Surjection(S, 1..C)
  <2>1. IsFiniteSet(1..C) /\ Cardinality(1..C) = C
    BY <1>1, FS_Interval
  <2> HIDE DEF place, C
  <2> QED
    BY <1>2, <2>1, FS_Injection DEF C
<1>4. ASSUME NEW n \in 1..C
      PROVE  Nth(S, n) \in S /\ CountBelow(S, Nth(S, n)) = n - 1
  <2>1. \E i \in S : place[i] = n
    BY <1>3, <1>4 DEF Surjection
  <2>2. \E i \in S : CountBelow(S, i) = n - 1
    BY <2>1, <1>1, CountBelowProperties
  <2> QED
    BY <2>2 DEF Nth
<1>5. ASSUME NEW i \in S
      PROVE  \E n \in 1..C : Nth(S, n) = i
  <2>1. CountBelow(S, i) \in Nat /\ CountBelow(S, i) + 1 \in 1..C
    BY <1>1, <1>5, CountBelowProperties
  <2>2. PICK n \in 1..C : n = CountBelow(S, i) + 1
    BY <2>1
  <2>3. Nth(S, n) \in S /\ CountBelow(S, Nth(S, n)) = CountBelow(S, i)
    BY <1>4, <2>1, <2>2
  <2>4. i \in Nat /\ Nth(S, n) \in Nat /\ ~(i < Nth(S, n)) /\ ~(Nth(S, n) < i)
    <3> HIDE DEF C
    <3>1. \A j, k \in S : j < k => CountBelow(S, j) < CountBelow(S, k)
      BY CountBelowProperties
    <3>2. ~(CountBelow(S, i) < CountBelow(S, i))
      BY <2>1
    <3> QED
      BY <1>5, <2>3, <3>1, <3>2
  <2> QED
    BY <2>4
<1>6. ASSUME NEW m \in 1..C, NEW n \in 1..C, m < n
      PROVE  Nth(S, m) < Nth(S, n)
  <2>1. /\ Nth(S, m) \in S /\ CountBelow(S, Nth(S, m)) = m - 1
        /\ Nth(S, n) \in S /\ CountBelow(S, Nth(S, n)) = n - 1
    BY <1>4, <1>6
  <2>2. Nth(S, m) \in Nat /\ Nth(S, n) \in Nat
    BY <2>1
  <2>3. ~(Nth(S, n) <= Nth(S, m))
    BY <1>1, <1>6, <2>1, <2>2, CountBelowProperties
  <2> QED
    BY <2>2, <2>3
<1> QED
  BY <1>1, <1>4, <1>5, <1>6

\* A comprehension has the chosen elements, each at one place.
LEMMA ElementsAtProperties ==
    ASSUME NEW T, NEW s \in Seq(T), NEW S \in SUBSET DOMAIN s
    PROVE  /\ IsFiniteSet(S) /\ Cardinality(S) \in Nat /\ S \subseteq Nat
           /\ ElementsAt(s, S) \in Seq(T)
           /\ Len(ElementsAt(s, S)) = Cardinality(S)
           /\ DOMAIN ElementsAt(s, S) = 1..Cardinality(S)
           /\ \A n \in 1..Cardinality(S) : Nth(S, n) \in S /\ ElementsAt(s, S)[n] = s[Nth(S, n)]
           /\ \A i \in S : \E n \in 1..Cardinality(S) : Nth(S, n) = i
           /\ \A m, n \in 1..Cardinality(S) : m < n => Nth(S, m) < Nth(S, n)
<1> DEFINE E == ElementsAt(s, S)
<1>1. DOMAIN s = 1..Len(s) /\ Len(s) \in Nat
  BY LenProperties
<1>2. IsFiniteSet(S) /\ S \in SUBSET Nat
  <2>1. IsFiniteSet(1..Len(s))
    BY <1>1, FS_Interval
  <2> QED
    BY <1>1, <2>1, FS_Subset
<1>3. /\ Cardinality(S) \in Nat
      /\ \A n \in 1..Cardinality(S) : Nth(S, n) \in S
      /\ \A i \in S : \E n \in 1..Cardinality(S) : Nth(S, n) = i
      /\ \A m, n \in 1..Cardinality(S) : m < n => Nth(S, m) < Nth(S, n)
  BY <1>2, NthProperties
<1>4. DOMAIN E = 1..Cardinality(S)
      /\ \A n \in 1..Cardinality(S) : E[n] = s[Nth(S, n)]
  BY DEF ElementsAt
<1>5. \A n \in 1..Cardinality(S) : E[n] \in T
  BY <1>3, <1>4, ElementOfSeq, <1>1
<1>6. E = [n \in 1..Cardinality(S) |-> E[n]]
  BY DEF ElementsAt
<1>7. E \in [1..Cardinality(S) -> T]
  <2> HIDE DEF E
  <2> QED
    BY <1>4, <1>5, <1>6
<1>8. E \in Seq(T) /\ Len(E) = Cardinality(S)
  <2> HIDE DEF E
  <2>1. E \in Seq(T)
    BY <1>3, <1>7, SeqDef
  <2> QED
    BY <1>3, <1>4, <2>1, LenProperties
<1> QED
  BY <1>2, <1>3, <1>4, <1>8

\* All but m of a set of numbers come after m others.
LEMMA AllButFirst ==
    ASSUME NEW S \in SUBSET Nat, IsFiniteSet(S), NEW n \in Nat,
           NEW m \in Int, Cardinality(S) - m <= n
    PROVE  Cardinality({i \in S : ~(CountBelow(S, i) < m)}) <= n
<1> DEFINE T == {i \in S : ~(CountBelow(S, i) < m)}
           C == Cardinality(S)
<1>1. /\ C \in Nat
      /\ \A i \in S : CountBelow(S, i) \in Nat /\ CountBelow(S, i) < C
      /\ \A i, j \in S : i < j => CountBelow(S, i) < CountBelow(S, j)
  BY CountBelowProperties, FS_CardinalityType
<1>2. T \subseteq S /\ IsFiniteSet(T)
  BY FS_Subset
<1>3. CASE m <= 0
  <2>1. Cardinality(T) <= C /\ Cardinality(T) \in Nat
    BY <1>2, FS_Subset, FS_CardinalityType
  <2> QED
    BY <1>1, <1>3, <2>1
<1>4. CASE m > 0
  <2> DEFINE place == [i \in T |-> CountBelow(S, i) - m]
  <2>1. \A i \in T : CountBelow(S, i) - m \in 0..(n - 1)
    BY <1>1, <1>4
  <2>2. place \in Injection(T, 0..(n - 1))
    <3>1. place \in [T -> 0..(n - 1)]
      BY <2>1
    <3>2. ASSUME NEW i \in T, NEW j \in T, place[i] = place[j]
          PROVE  i = j
      <4>1. i \in Nat /\ j \in Nat /\ CountBelow(S, i) = CountBelow(S, j)
            /\ CountBelow(S, i) \in Nat
        BY <1>1, <1>2, <3>2
      <4>2. ~(i < j) /\ ~(j < i)
        BY <1>1, <1>2, <4>1
      <4> QED
        BY <4>1, <4>2
    <3> HIDE DEF place, T
    <3> QED
      BY <3>1, <3>2 DEF Injection, IsInjective
  <2>3. IsFiniteSet(0..(n - 1)) /\ Cardinality(0..(n - 1)) = n
    BY FS_Interval
  <2> HIDE DEF place, T
  <2>4. Cardinality(T) <= n
    BY <2>2, <2>3, FS_Injection
  <2> QED
    BY <2>4 DEF T
<1> QED
  BY <1>3, <1>4

\* A strict total order puts every member in one place.
LEMMA SortedProperties ==
    ASSUME NEW S, IsFiniteSet(S), NEW R,
           \A x \in S : <<x, x>> \notin R,
           \A x, y, z \in S : <<x, y>> \in R /\ <<y, z>> \in R => <<x, z>> \in R,
           \A x, y \in S : x = y \/ <<x, y>> \in R \/ <<y, x>> \in R
    PROVE  /\ Cardinality(S) \in Nat
           /\ DOMAIN Sorted(S, R) = 1..Cardinality(S)
           /\ \A n \in 1..Cardinality(S) : Sorted(S, R)[n] \in S
           /\ \A x \in S : \E n \in 1..Cardinality(S) : Sorted(S, R)[n] = x
           /\ Sorted(S, R) \in Seq(S)
<1> DEFINE C == Cardinality(S)
           Before(x) == {y \in S : <<y, x>> \in R}
           place == [x \in S |-> CountBefore(S, R, x) + 1]
<1>1. C \in Nat
  BY FS_CardinalityType
<1>2. ASSUME NEW x \in S
      PROVE  /\ IsFiniteSet(Before(x)) /\ Cardinality(Before(x)) \in Nat
             /\ Cardinality(Before(x)) < C
  <2>1. Before(x) \in SUBSET S /\ x \notin Before(x)
    BY <1>2
  <2>2. /\ IsFiniteSet(Before(x)) /\ Cardinality(Before(x)) <= C
        /\ Cardinality(Before(x)) # C
    BY <1>2, <2>1, FS_Subset
  <2> QED
    BY <1>1, <2>2, FS_CardinalityType
<1>3. ASSUME NEW x \in S, NEW y \in S, <<x, y>> \in R
      PROVE  Cardinality(Before(x)) < Cardinality(Before(y))
  <2>1. Before(x) \in SUBSET Before(y) /\ x \in Before(y) /\ x \notin Before(x)
    BY <1>3
  <2>2. /\ Cardinality(Before(x)) <= Cardinality(Before(y))
        /\ Cardinality(Before(x)) # Cardinality(Before(y))
    BY <1>2, <2>1, FS_Subset
  <2> QED
    BY <1>2, <2>2
<1>4. /\ \A x \in S : CountBefore(S, R, x) \in Nat /\ CountBefore(S, R, x) < C
      /\ \A x, y \in S : <<x, y>> \in R => CountBefore(S, R, x) < CountBefore(S, R, y)
  BY <1>2, <1>3 DEF CountBefore
<1> HIDE DEF Before, C
<1>5. ASSUME NEW x \in S, NEW y \in S, CountBefore(S, R, x) = CountBefore(S, R, y)
      PROVE  x = y
  <2>1. \A c \in Nat : ~(c < c)
    OBVIOUS
  <2>2. <<x, y>> \notin R /\ <<y, x>> \notin R
    BY <1>4, <1>5, <2>1
  <2> QED
    BY <1>5, <2>2
<1>6. place \in Surjection(S, 1..C)
  <2>1. place \in [S -> 1..C]
    BY <1>1, <1>4
  <2>2. \A x, y \in S : place[x] = place[y] => x = y
    BY <1>4, <1>5
  <2>3. IsFiniteSet(1..C) /\ Cardinality(1..C) = C
    BY <1>1, FS_Interval
  <2> HIDE DEF place
  <2>4. place \in Injection(S, 1..C)
    BY <2>1, <2>2 DEF Injection, IsInjective
  <2> QED
    BY <2>3, <2>4, FS_Injection DEF C
<1>7. ASSUME NEW n \in 1..C
      PROVE  Sorted(S, R)[n] \in S /\ CountBefore(S, R, Sorted(S, R)[n]) = n - 1
  <2>1. \E x \in S : place[x] = n
    BY <1>6, <1>7 DEF Surjection
  <2>2. \E x \in S : CountBefore(S, R, x) = n - 1
    BY <2>1, <1>1, <1>4
  <2>3. Sorted(S, R)[n] = CHOOSE x \in S : CountBefore(S, R, x) = n - 1
    BY <1>7 DEF Sorted, C
  <2> QED
    BY <2>2, <2>3
<1>8. ASSUME NEW x \in S
      PROVE  \E n \in 1..C : Sorted(S, R)[n] = x
  <2>1. PICK n \in 1..C : n = CountBefore(S, R, x) + 1
    BY <1>1, <1>4, <1>8
  <2>2. Sorted(S, R)[n] \in S /\ CountBefore(S, R, Sorted(S, R)[n]) = CountBefore(S, R, x)
    BY <1>4, <1>7, <1>8, <2>1
  <2> QED
    BY <1>5, <1>8, <2>2
<1>9. Sorted(S, R) \in Seq(S)
  <2>1. Sorted(S, R) = [n \in 1..C |-> Sorted(S, R)[n]]
    BY DEF Sorted, C
  <2>2. Sorted(S, R) \in [1..C -> S]
    BY <1>7, <2>1
  <2> QED
    BY <1>1, <2>2, SeqDef
<1>10. DOMAIN Sorted(S, R) = 1..C
  BY DEF Sorted, C
<1> QED
  BY <1>1, <1>7, <1>8, <1>9, <1>10 DEF C

\* No places choose nothing.
LEMMA ElementsAtNone ==
    ASSUME NEW s
    PROVE  ElementsAt(s, {}) = << >>
<1>1. Cardinality({}) = 0 /\ 1 .. 0 = {}
  BY FS_EmptySet
<1> QED
  BY <1>1 DEF ElementsAt

\* A list that grows by an element: the choice stays, or grows by it as well.
LEMMA ElementsAtAppend ==
    ASSUME NEW T, NEW s \in Seq(T), NEW x \in T, NEW S \in SUBSET DOMAIN s
    PROVE  /\ ElementsAt(Append(s, x), S) = ElementsAt(s, S)
           /\ ElementsAt(Append(s, x), S \cup {Len(s) + 1}) = Append(ElementsAt(s, S), x)
<1> DEFINE L == Len(s) + 1
           U == S \cup {L}
           C == Cardinality(S)
<1>1. /\ L \in Nat /\ DOMAIN s = 1 .. Len(s) /\ L \notin S /\ S \subseteq Nat
      /\ \A i \in S : i < L
      /\ Append(s, x) \in Seq(T) /\ DOMAIN Append(s, x) = 1 .. L
      /\ Append(s, x)[L] = x /\ \A i \in S : Append(s, x)[i] = s[i]
  BY AppendProperties, LenProperties
<1>2. IsFiniteSet(S) /\ C \in Nat /\ \A n \in 1 .. C : Nth(S, n) \in S
  BY ElementsAtProperties
<1>3. U \in SUBSET Nat /\ IsFiniteSet(U) /\ Cardinality(U) = C + 1
  BY <1>1, <1>2, FS_AddElement
<1>4. CountBelow(U, L) = C
  <2>1. {j \in U : j < L} = S
    BY <1>1
  <2> QED
    BY <2>1 DEF CountBelow
<1>5. ASSUME NEW i \in S
      PROVE  CountBelow(U, i) = CountBelow(S, i)
  <2>1. {j \in U : j < i} = {j \in S : j < i}
    BY <1>1
  <2> QED
    BY <2>1 DEF CountBelow
<1>6. \A i, j \in S : CountBelow(S, i) = CountBelow(S, j) => i = j
  <2>1. \A i, j \in S : i < j => CountBelow(S, i) < CountBelow(S, j)
    BY <1>1, <1>2, CountBelowProperties
  <2>2. \A i \in S : CountBelow(S, i) \in Nat
    BY <1>1, <1>2, CountBelowProperties
  <2> QED
    BY <1>1, <2>1, <2>2
<1>7. \A n \in 1 .. C + 1 : Nth(U, n) \in U /\ CountBelow(U, Nth(U, n)) = n - 1
  BY <1>3, NthProperties
<1>8. ASSUME NEW n \in 1 .. C
      PROVE  Nth(U, n) = Nth(S, n)
  <2>1. Nth(U, n) \in U /\ CountBelow(U, Nth(U, n)) = n - 1 /\ n - 1 # C
    <3> HIDE DEF U, C
    <3>1. n \in 1 .. C + 1 /\ n - 1 # C
      BY <1>2
    <3> QED
      BY <1>7, <3>1
  <2>2. Nth(U, n) \in S
    BY <1>4, <2>1
  <2>3. CountBelow(S, Nth(S, n)) = n - 1
    BY <1>1, <1>2, NthProperties
  <2> QED
    BY <1>2, <1>5, <1>6, <2>1, <2>2, <2>3
<1>9. Nth(U, C + 1) = L
  <2>1. Nth(U, C + 1) \in U /\ CountBelow(U, Nth(U, C + 1)) = C
    <3> HIDE DEF U, C
    <3>1. C + 1 \in 1 .. C + 1 /\ (C + 1) - 1 = C
      BY <1>2
    <3>2. Nth(U, C + 1) \in U /\ CountBelow(U, Nth(U, C + 1)) = (C + 1) - 1
      BY <1>7, <3>1
    <3> QED
      BY <3>1, <3>2
  <2>2. \A i \in S : CountBelow(S, i) < C
    BY <1>1, <1>2, CountBelowProperties
  <2>3. \A i \in S : CountBelow(S, i) \in Nat
    BY <1>1, <1>2, CountBelowProperties
  <2>4. Nth(U, C + 1) \notin S
    <3> HIDE DEF U, C
    <3> QED
      BY <1>2, <1>5, <2>1, <2>2, <2>3
  <2> QED
    BY <2>1, <2>4
<1>10. ElementsAt(Append(s, x), S) = ElementsAt(s, S)
  BY <1>1, <1>2 DEF ElementsAt
<1>11. ElementsAt(s, S) \in Seq(T) /\ Len(ElementsAt(s, S)) = C
       /\ \A n \in 1 .. C : ElementsAt(s, S)[n] = s[Nth(S, n)]
  BY ElementsAtProperties
<1>12. U \in SUBSET DOMAIN Append(s, x)
  BY <1>1
<1>13. ElementsAt(Append(s, x), U) \in Seq(T) /\ Len(ElementsAt(Append(s, x), U)) = C + 1
       /\ \A n \in 1 .. C + 1 : ElementsAt(Append(s, x), U)[n] = Append(s, x)[Nth(U, n)]
  <2> DEFINE r == Append(s, x)
  <2>1. r \in Seq(T) /\ U \in SUBSET DOMAIN r /\ Cardinality(U) = C + 1
    BY <1>1, <1>3, <1>12
  <2> HIDE DEF U, C, r
  <2>2. /\ ElementsAt(r, U) \in Seq(T) /\ Len(ElementsAt(r, U)) = Cardinality(U)
        /\ \A n \in 1 .. Cardinality(U) : ElementsAt(r, U)[n] = r[Nth(U, n)]
    BY <2>1, ElementsAtProperties
  <2> QED
    BY <2>1, <2>2 DEF r
<1>14. Append(ElementsAt(s, S), x) \in Seq(T) /\ Len(Append(ElementsAt(s, S), x)) = C + 1
       /\ Append(ElementsAt(s, S), x)[C + 1] = x
       /\ \A n \in 1 .. C : Append(ElementsAt(s, S), x)[n] = ElementsAt(s, S)[n]
  BY <1>2, <1>11, AppendProperties
<1>15. \A n \in 1 .. C + 1 : ElementsAt(Append(s, x), U)[n] = Append(ElementsAt(s, S), x)[n]
  <2>1. ASSUME NEW n \in 1 .. C
        PROVE  ElementsAt(Append(s, x), U)[n] = Append(ElementsAt(s, S), x)[n]
    <3>1. n \in 1 .. C + 1
      BY <1>2
    <3> QED
      BY <1>1, <1>2, <1>8, <1>11, <1>13, <1>14, <3>1
  <2>2. ElementsAt(Append(s, x), U)[C + 1] = Append(ElementsAt(s, S), x)[C + 1]
    <3>1. C + 1 \in 1 .. C + 1
      BY <1>2
    <3> QED
      BY <1>1, <1>9, <1>13, <1>14, <3>1
  <2>3. \A n \in 1 .. C + 1 : n \in 1 .. C \/ n = C + 1
    BY <1>2
  <2> QED
    BY <2>1, <2>2, <2>3
<1>16. ElementsAt(Append(s, x), U) = Append(ElementsAt(s, S), x)
  <2> HIDE DEF U, C
  <2> QED
    BY <1>2, <1>13, <1>14, <1>15, SeqEqual
<1> QED
  BY <1>10, <1>16

\* The choice grows by an element that stands before all of it.
LEMMA ElementsAtFirst ==
    ASSUME NEW T, NEW s \in Seq(T), NEW S \in SUBSET DOMAIN s,
           NEW i \in DOMAIN s, \A j \in S : i < j
    PROVE  ElementsAt(s, S \cup {i}) = <<s[i]>> \o ElementsAt(s, S)
<1> DEFINE U == S \cup {i}
           C == Cardinality(S)
<1>1. i \in Nat /\ i \notin S /\ S \subseteq Nat /\ U \in SUBSET DOMAIN s
  BY LenProperties
<1>2. IsFiniteSet(S) /\ C \in Nat /\ \A n \in 1 .. C : Nth(S, n) \in S
  BY ElementsAtProperties
<1>3. U \in SUBSET Nat /\ IsFiniteSet(U) /\ Cardinality(U) = C + 1
  BY <1>1, <1>2, FS_AddElement
<1>4. CountBelow(U, i) = 0
  <2>1. {j \in U : j < i} = {}
    BY <1>1
  <2> QED
    BY <2>1, FS_EmptySet DEF CountBelow
<1>5. ASSUME NEW k \in S
      PROVE  CountBelow(U, k) = CountBelow(S, k) + 1
  <2> DEFINE B == {j \in S : j < k}
  <2>1. {j \in U : j < k} = B \cup {i} /\ i \notin B
    BY <1>1
  <2>2. IsFiniteSet(B)
    BY <1>2, FS_Subset
  <2>3. Cardinality(B \cup {i}) = Cardinality(B) + 1
    BY <2>1, <2>2, FS_AddElement
  <2> QED
    BY <2>1, <2>3 DEF CountBelow
<1>6. \A j, k \in U : CountBelow(U, j) = CountBelow(U, k) => j = k
  <2>1. \A j, k \in U : j < k => CountBelow(U, j) < CountBelow(U, k)
    BY <1>3, CountBelowProperties
  <2>2. \A j \in U : CountBelow(U, j) \in Nat
    BY <1>3, CountBelowProperties
  <2> HIDE DEF U
  <2> QED
    BY <1>3, <2>1, <2>2
<1>7. \A n \in 1 .. C + 1 : Nth(U, n) \in U /\ CountBelow(U, Nth(U, n)) = n - 1
  BY <1>3, NthProperties
<1>8. \A n \in 1 .. C : CountBelow(S, Nth(S, n)) = n - 1
  BY <1>1, <1>2, NthProperties
<1>9. Nth(U, 1) = i
  <2>1. 1 \in 1 .. C + 1 /\ i \in U
    BY <1>2
  <2>2. Nth(U, 1) \in U /\ CountBelow(U, Nth(U, 1)) = 0
    <3> HIDE DEF U, C
    <3>1. Nth(U, 1) \in U /\ CountBelow(U, Nth(U, 1)) = 1 - 1
      BY <1>7, <2>1
    <3> QED
      BY <3>1
  <2> HIDE DEF U
  <2> QED
    BY <1>4, <1>6, <2>1, <2>2
<1>10. ASSUME NEW n \in 1 .. C
       PROVE  Nth(U, n + 1) = Nth(S, n)
  <2>1. n + 1 \in 1 .. C + 1 /\ (n + 1) - 1 = n /\ n \in Nat
    BY <1>2
  <2>2. Nth(U, n + 1) \in U /\ CountBelow(U, Nth(U, n + 1)) = n
    <3> HIDE DEF U, C
    <3> QED
      BY <1>7, <2>1
  <2>3. Nth(S, n) \in S /\ Nth(S, n) \in U /\ CountBelow(U, Nth(S, n)) = (n - 1) + 1
    BY <1>2, <1>5, <1>8
  <2> HIDE DEF U, C
  <2> QED
    BY <1>6, <2>1, <2>2, <2>3
<1>11. ElementsAt(s, S) \in Seq(T) /\ Len(ElementsAt(s, S)) = C
       /\ \A n \in 1 .. C : ElementsAt(s, S)[n] = s[Nth(S, n)]
  BY ElementsAtProperties
<1>12. ElementsAt(s, U) \in Seq(T) /\ Len(ElementsAt(s, U)) = C + 1
       /\ \A n \in 1 .. C + 1 : ElementsAt(s, U)[n] = s[Nth(U, n)]
  <2> HIDE DEF U, C
  <2> QED
    BY <1>1, <1>3, ElementsAtProperties
<1> DEFINE r == <<s[i]>> \o ElementsAt(s, S)
<1>13. r \in Seq(T) /\ Len(r) = C + 1 /\ r[1] = s[i]
       /\ \A n \in 1 .. C : r[n + 1] = ElementsAt(s, S)[n]
  <2>1. <<s[i]>> \in Seq(T) /\ Len(<<s[i]>>) = 1 /\ <<s[i]>>[1] = s[i]
    OBVIOUS
  <2> HIDE DEF C
  <2> QED
    BY <1>2, <1>11, <2>1, ConcatProperties
<1>14. ASSUME NEW n \in 1 .. C + 1
       PROVE  ElementsAt(s, U)[n] = r[n]
  <2>1. CASE n = 1
    BY <1>9, <1>12, <1>13, <2>1
  <2>2. CASE n # 1
    <3>1. n - 1 \in 1 .. C /\ (n - 1) + 1 = n
      BY <1>2, <2>2
    <3> HIDE DEF U, C, r
    <3>2. Nth(U, n) = Nth(S, n - 1)
      BY <1>10, <3>1
    <3>3. r[n] = ElementsAt(s, S)[n - 1]
      BY <1>13, <3>1
    <3> QED
      BY <1>11, <1>12, <3>1, <3>2, <3>3
  <2> QED
    BY <2>1, <2>2
<1> QED
  <2> HIDE DEF U, C, r
  <2>1. ElementsAt(s, U) = r
    BY <1>2, <1>12, <1>13, <1>14, SeqEqual
  <2> QED
    BY <2>1 DEF U, r

LEMMA ElementsAtOne ==
    ASSUME NEW T, NEW s \in Seq(T), NEW i \in DOMAIN s
    PROVE  ElementsAt(s, {i}) = <<s[i]>>
<1> DEFINE e == ElementsAt(s, {i})
<1>1. Cardinality({i}) = 1
  BY FS_Singleton
<1>2. {i} \in SUBSET DOMAIN s
  OBVIOUS
<1>3. e \in Seq(T) /\ Len(e) = 1 /\ \A n \in 1 .. 1 : Nth({i}, n) \in {i} /\ e[n] = s[Nth({i}, n)]
  BY <1>1, <1>2, ElementsAtProperties
<1>4. e[1] = s[i]
  BY <1>3
<1> HIDE DEF e
<1>5. <<s[i]>> \in Seq(T) /\ Len(<<s[i]>>) = 1 /\ <<s[i]>>[1] = s[i]
  OBVIOUS
<1>6. \A n \in 1 .. Len(e) : e[n] = <<s[i]>>[n]
  BY <1>3, <1>4, <1>5
<1>7. e = <<s[i]>>
  BY <1>3, <1>5, <1>6, SeqEqual
<1> QED
  BY <1>7 DEF e

=============================================================================
