------------------------- MODULE Subsequences_proofs -------------------------
(***************************************************************************)
(* What every use of Kept and Listed relies on: the elements are those at  *)
(* the indices, or those of the set, each once, and in their order.        *)
(***************************************************************************)
EXTENDS Subsequences, FunctionTheorems, FiniteSetTheorems, SequenceTheorems,
        WellFoundedInduction, TLAPS

\* A set of numbers has a least one.
LEMMA LeastNumber ==
    ASSUME NEW T, T \subseteq Nat, T # {}
    PROVE  \E x \in T : \A y \in T : x <= y
<1>1. IsWellFoundedOn(OpToRel(<, Nat), Nat) BY NatLessThanWellFounded
<1>2. \E x \in T : \A y \in T : ~(y < x)
  <2>1. PICK x \in T : \A y \in T : <<y, x>> \notin OpToRel(<, Nat) BY <1>1, WFMin
  <2>2. \A y \in T : ~(y < x) BY <2>1 DEF OpToRel
  <2> QED BY <2>2
<1> QED BY <1>2

\* And numbers up to a bound have a greatest one.
LEMMA GreatestNumber ==
    ASSUME NEW m \in Nat, NEW T, T \subseteq 0..m, T # {}
    PROVE  \E x \in T : \A y \in T : y <= x
<1> DEFINE D == {m - y : y \in T}
<1>1. D \subseteq Nat /\ D # {}
  <2>1. \A y \in T : m - y \in Nat /\ m - y \in D OBVIOUS
  <2>2. \A d \in D : d \in Nat BY <2>1
  <2>3. D # {} BY <2>1
  <2> QED BY <2>2, <2>3
<1>2. \A y \in T : y \in 0..m /\ m - y \in D OBVIOUS
<1>3. \A d \in D : \E y \in T : d = m - y OBVIOUS
<1> HIDE DEF D
<1>4. PICK d \in D : \A e \in D : d <= e BY <1>1, LeastNumber
<1>5. PICK x \in T : d = m - x BY <1>3
<1>6. ASSUME NEW y \in T PROVE y <= x
  <2>1. m - x <= m - y BY <1>2, <1>4, <1>5
  <2> QED BY <1>2, <2>1
<1> QED BY <1>6

\* The places of the indices are 1, 2, ... in their order.
LEMMA PlacesInOrder ==
    ASSUME NEW I, IsFiniteSet(I), I \subseteq Int
    PROVE  /\ Cardinality(I) \in Nat
           /\ \A i \in I : Place(I, i) \in 1..Cardinality(I)
           /\ \A i, j \in I : i < j => Place(I, i) < Place(I, j)
<1> DEFINE Upto(i) == {j \in I : j <= i}
<1>0. \A i \in I : i \in Int OBVIOUS
<1>1. ASSUME NEW i \in I
      PROVE  /\ IsFiniteSet(Upto(i)) /\ Cardinality(Upto(i)) \in Nat
             /\ Cardinality(Upto(i)) <= Cardinality(I) /\ Cardinality(Upto(i)) # 0
  <2>1. Upto(i) \in SUBSET I /\ i \in Upto(i) OBVIOUS
  <2>2. IsFiniteSet(Upto(i)) /\ Cardinality(Upto(i)) <= Cardinality(I)
    BY <2>1, FS_Subset
  <2>3. Cardinality(Upto(i)) # 0 BY <2>1, <2>2, FS_EmptySet
  <2> QED BY <2>2, <2>3, FS_CardinalityType
<1>2. ASSUME NEW i \in I, NEW j \in I, i < j
      PROVE  Cardinality(Upto(i)) < Cardinality(Upto(j))
  <2>0. j <= j /\ ~(j <= i) BY <1>0, <1>2
  <2>1. Upto(i) \in SUBSET Upto(j) /\ j \in Upto(j) /\ j \notin Upto(i)
    <3>1. \A x \in Upto(i) : x \in Upto(j) BY <1>0, <1>2
    <3> QED BY <2>0, <3>1, Zenon
  <2>2. /\ Cardinality(Upto(i)) <= Cardinality(Upto(j))
        /\ Cardinality(Upto(j)) = Cardinality(Upto(i)) => Upto(j) = Upto(i)
    BY <2>1, <1>1, FS_Subset
  <2> QED BY <2>1, <2>2, <1>1
<1>3. Cardinality(I) \in Nat BY FS_CardinalityType
<1> QED BY <1>1, <1>2, <1>3 DEF Place

\* Kept follows an order-preserving enumeration of the indices.
THEOREM KeptInOrder ==
    ASSUME NEW s, NEW I, IsFiniteSet(I), I \subseteq Int
    PROVE  /\ Cardinality(I) \in Nat
           /\ \E k \in [1..Cardinality(I) -> I] :
                /\ Kept(s, I) = [n \in 1..Cardinality(I) |-> s[k[n]]]
                /\ \A i \in I : \E n \in 1..Cardinality(I) : k[n] = i
                /\ \A m, n \in 1..Cardinality(I) : m < n => k[m] < k[n]
<1> DEFINE N == Cardinality(I)
           place == [i \in I |-> Place(I, i)]
           k == [n \in 1..N |-> CHOOSE i \in I : Place(I, i) = n]
<1>1. /\ N \in Nat /\ \A i \in I : Place(I, i) \in 1..N
      /\ \A i, j \in I : i < j => Place(I, i) < Place(I, j)
  BY PlacesInOrder
<1>0. \A i \in I : i \in Int OBVIOUS
<1>2. place \in Injection(I, 1..N)
  <2>1. place \in [I -> 1..N] BY <1>1
  <2>2. \A i, j \in I : place[i] = place[j] => i = j BY <1>1
  <2> QED BY <2>1, <2>2, Fun_IsInj DEF Injection, IsInjective
<1>3. IsFiniteSet(1..N) /\ Cardinality(1..N) = N BY <1>1, FS_Interval
<1>4. place \in Surjection(I, 1..N) BY <1>2, <1>3, FS_Injection
<1>5. \A n \in 1..N : \E i \in I : Place(I, i) = n BY <1>4 DEF Surjection
<1>6. \A n \in 1..N : k[n] \in I /\ Place(I, k[n]) = n BY <1>5
<1>7. k \in [1..N -> I] BY <1>6
<1>8. \A i \in I : \E n \in 1..N : k[n] = i
  <2> SUFFICES ASSUME NEW i \in I PROVE \E n \in 1..N : k[n] = i OBVIOUS
  <2>1. Place(I, i) \in 1..N BY <1>1
  <2>2. k[Place(I, i)] \in I /\ Place(I, k[Place(I, i)]) = Place(I, i) BY <2>1, <1>6
  <2>3. k[Place(I, i)] = i
    <3> DEFINE j == k[Place(I, i)]
    <3>1. j \in I /\ Place(I, j) = Place(I, i) BY <2>2
    <3> HIDE DEF j
    <3>2. ~(i < j) /\ ~(j < i) /\ i \in Int /\ j \in Int BY <3>1, <1>1, <1>0
    <3>3. i = j BY <3>2
    <3> QED BY <3>3 DEF j
  <2> QED BY <2>1, <2>3
<1>9. ASSUME NEW m \in 1..N, NEW n \in 1..N, m < n PROVE k[m] < k[n]
  <2> HIDE DEF k
  <2>1. k[m] \in Int /\ k[n] \in Int BY <1>6
  <2>2. CASE k[n] < k[m]
    <3>1. Place(I, k[n]) < Place(I, k[m]) BY <2>2, <1>1, <1>6
    <3> QED BY <3>1, <1>6, <1>9
  <2>3. CASE k[n] = k[m] BY <2>3, <1>6, <1>9
  <2> QED BY <2>1, <2>2, <2>3
<1>10. Kept(s, I) = [n \in 1..N |-> s[k[n]]] BY DEF Kept
<1> HIDE DEF k, N
<1> QED BY <1>1, <1>7, <1>8, <1>9, <1>10 DEF N

\* A function on 1..n is a sequence, and one more element is an Append.
LEMMA ExtendedByOne ==
    ASSUME NEW S, NEW x \in S, NEW n \in Nat, NEW f \in [1..n -> S]
    PROVE  /\ f \in Seq(S) /\ Len(f) = n
           /\ [i \in 1..(n + 1) |-> IF i = n + 1 THEN x ELSE f[i]] = Append(f, x)
<1>1. f \in Seq(S) OBVIOUS
<1>2. Len(f) = n BY <1>1
<1> DEFINE g == [i \in 1..(n + 1) |-> IF i = n + 1 THEN x ELSE f[i]]
<1>3. \A i \in 1..(n + 1) : g[i] \in S
  <2>1. \A i \in 1..(n + 1) : i \in 1..n \/ i = n + 1 OBVIOUS
  <2> QED BY <2>1
<1>4. g \in [1..(n + 1) -> S] BY <1>3
<1>5. g \in Seq(S) /\ Len(g) = n + 1
  <2> HIDE DEF g
  <2>1. n + 1 \in Nat OBVIOUS
  <2>2. g \in Seq(S) BY <1>4, <2>1
  <2> QED BY <1>4, <2>1, <2>2
<1>6. Append(f, x) \in Seq(S) /\ Len(Append(f, x)) = n + 1
      /\ \A i \in 1..(n + 1) : Append(f, x)[i] = IF i = n + 1 THEN x ELSE f[i]
  BY <1>1, <1>2, AppendProperties
<1>7. g = Append(f, x)
  <2>1. \A i \in 1..(n + 1) : g[i] = Append(f, x)[i] BY <1>6
  <2> HIDE DEF g
  <2> QED BY <1>5, <1>6, <2>1, SeqEqual
<1> QED BY <1>1, <1>2, <1>7

\* t is s with x at its end; indices of s, and they with the next one.
Extends(t, s, x) == t = Append(s, x)
Indices(I, s) == I \subseteq 1..Len(s)
WithNext(J, I, s) == J = I \cup {Len(s) + 1}

\* An element at the end is kept at the end, or leaves what is kept.
THEOREM KeptAppend ==
    ASSUME NEW S, NEW s \in Seq(S), NEW x \in S, NEW I, NEW K, NEW u,
           Extends(u, s, x), Indices(I, s), WithNext(K, I, s)
    PROVE  /\ Kept(s, I) \in Seq(S)
           /\ Kept(u, I) = Kept(s, I)
           /\ Extends(Kept(u, K), Kept(s, I), x)
<1> DEFINE N == Cardinality(I)
           last == Len(s) + 1
           J == I \cup {last}
           t == Append(s, x)
<1>a. t = u /\ J = K /\ I \subseteq 1..Len(s)
  BY DEF Extends, Indices, WithNext
<1>0. Len(s) \in Nat /\ last \in Int
      /\ t[last] = x /\ \A i \in I : i \in 1..Len(s) /\ t[i] = s[i] /\ s[i] \in S
  <2>1. Len(s) \in Nat /\ last \in Int OBVIOUS
  <2>2. t[last] = x OBVIOUS
  <2>3. \A i \in 1..Len(s) : t[i] = s[i] /\ s[i] \in S OBVIOUS
  <2> QED BY <1>a, <2>1, <2>2, <2>3
<1>1. IsFiniteSet(1..Len(s)) BY <1>0, FS_Interval
<1>2. IsFiniteSet(I) BY <1>a, <1>1, FS_Subset
<1>3. last \notin I /\ \A i \in I : i \in Int /\ i < last BY <1>0
<1>4. IsFiniteSet(J) /\ Cardinality(J) = N + 1 BY <1>2, <1>3, FS_AddElement
<1> HIDE DEF last, t
<1>5. I \subseteq Int /\ J \subseteq Int /\ last \in Int BY <1>a, <1>0, <1>3
<1>6. N \in Nat /\ \A i, j \in J : i < j => Place(J, i) < Place(J, j)
  BY <1>2, <1>4, <1>5, PlacesInOrder, FS_CardinalityType
<1>7. /\ \A i \in I : Place(I, i) \in 1..N
      /\ \A i, j \in I : i < j => Place(I, i) < Place(I, j)
  BY <1>2, <1>5, PlacesInOrder
<1>8. \A i \in I : Place(J, i) = Place(I, i)
  <2> SUFFICES ASSUME NEW i \in I PROVE Place(J, i) = Place(I, i) OBVIOUS
  <2>1. {j \in J : j <= i} = {j \in I : j <= i} BY <1>3, <1>5
  <2> QED BY <2>1 DEF Place
<1>9. Place(J, last) = N + 1
  <2>0. \A j \in J : j <= last
    <3>1. last <= last BY <1>0
    <3>2. \A j \in I : j <= last BY <1>0, <1>3
    <3> QED BY <1>a, <3>1, <3>2
  <2>1. {j \in J : j <= last} = J BY <2>0
  <2> QED BY <1>4, <2>1 DEF Place
<1>10. \A n \in 1..N : \E i \in I : Place(I, i) = n
  <2> DEFINE place == [i \in I |-> Place(I, i)]
  <2>1. place \in Injection(I, 1..N)
    <3>1. place \in [I -> 1..N] BY <1>7
    <3>2. \A i, j \in I : i # j => i < j \/ j < i BY <1>5
    <3>3. \A i, j \in I : place[i] = place[j] => i = j BY <1>7, <3>2
    <3> QED BY <3>1, <3>3, Fun_IsInj DEF Injection, IsInjective
  <2>2. IsFiniteSet(1..N) /\ Cardinality(1..N) = N BY <1>6, FS_Interval
  <2>3. place \in Surjection(I, 1..N) BY <1>2, <2>1, <2>2, FS_Injection
  <2> QED BY <2>3 DEF Surjection
<1> HIDE DEF N
<1>11. ASSUME NEW n \in 1..N, NEW i \in I, Place(I, i) = n
       PROVE  (CHOOSE j \in I : Place(I, j) = n) = i /\ (CHOOSE j \in J : Place(J, j) = n) = i
  <2>1. \A j \in I : Place(I, j) = n => j = i
    <3>1. \A j \in I : j # i => j < i \/ i < j BY <1>5
    <3> QED BY <1>7, <1>11, <3>1
  <2>2. \A j \in J : Place(J, j) = n <=> j = i
    <3>1. Place(J, last) # n /\ last # i BY <1>3, <1>6, <1>9
    <3>2. \A j \in I : Place(J, j) = n <=> j = i BY <1>8, <1>11, <2>1
    <3> QED BY <1>a, <3>1, <3>2
  <2>3. (CHOOSE j \in I : Place(I, j) = n) = i BY <1>11, <2>1
  <2>4. i \in J OBVIOUS
  <2> QED BY <2>2, <2>3, <2>4
<1>12. (CHOOSE j \in J : Place(J, j) = N + 1) = last
  <2>1. \A j \in I : Place(J, j) # N + 1
    <3>1. \A j \in I : Place(I, j) # N + 1 BY <1>6, <1>7
    <3> QED BY <1>8, <3>1
  <2>2. last \in J BY <1>a
  <2> QED BY <1>9, <2>1, <2>2
<1>13. ASSUME NEW n \in 1..N
       PROVE  /\ s[CHOOSE i \in I : Place(I, i) = n] \in S
              /\ t[CHOOSE i \in I : Place(I, i) = n] = s[CHOOSE i \in I : Place(I, i) = n]
              /\ t[CHOOSE i \in J : Place(J, i) = n] = s[CHOOSE i \in I : Place(I, i) = n]
  <2>1. PICK i \in I : Place(I, i) = n BY <1>10
  <2> QED BY <1>0, <1>11, <2>1
<1> DEFINE at(n) == CHOOSE i \in I : Place(I, i) = n
           atJ(n) == CHOOSE i \in J : Place(J, i) = n
<1>14. /\ Kept(s, I) = [n \in 1..N |-> s[at(n)]]
       /\ Kept(t, I) = [n \in 1..N |-> t[at(n)]]
       /\ Kept(t, J) = [n \in 1..(N + 1) |-> t[atJ(n)]]
  BY <1>4 DEF Kept, N
<1>15. /\ \A n \in 1..N : s[at(n)] \in S /\ t[at(n)] = s[at(n)] /\ t[atJ(n)] = s[at(n)]
       /\ t[atJ(N + 1)] = x
  BY <1>0, <1>12, <1>13
<1> HIDE DEF at, atJ
<1>16. Kept(t, I) = Kept(s, I) BY <1>14, <1>15
<1>17. Kept(s, I) \in [1..N -> S] /\ \A n \in 1..N : Kept(s, I)[n] = s[at(n)] BY <1>14, <1>15
<1>18. Kept(t, J) = [n \in 1..(N + 1) |-> IF n = N + 1 THEN x ELSE Kept(s, I)[n]]
  <2>1. \A n \in 1..(N + 1) : n \in 1..N \/ n = N + 1 BY <1>6
  <2>2. \A n \in 1..(N + 1) : t[atJ(n)] = IF n = N + 1 THEN x ELSE Kept(s, I)[n]
    BY <1>15, <1>17, <2>1
  <2> QED BY <1>14, <2>2
<1>19. PICK f \in [1..N -> S] : f = Kept(s, I) BY <1>17
<1>20. Kept(t, J) = [n \in 1..(N + 1) |-> IF n = N + 1 THEN x ELSE f[n]] BY <1>18, <1>19
<1>21. PICK size : size = N /\ size \in Nat BY <1>6
<1>22. f \in [1..size -> S] BY <1>21
<1>23. f \in Seq(S) /\ [n \in 1..(size + 1) |-> IF n = size + 1 THEN x ELSE f[n]] = Append(f, x)
  BY <1>21, <1>22, ExtendedByOne
<1>24. Kept(t, J) = Append(f, x) BY <1>20, <1>21, <1>23
<1>25. Kept(u, I) = f /\ Kept(u, K) = Append(f, x) BY <1>a, <1>16, <1>19, <1>24
<1>26. Extends(Kept(u, K), f, x) BY <1>25 DEF Extends
<1> QED BY <1>19, <1>23, <1>25, <1>26

\* Filtering that drops nothing.
LEMMA KeptAll ==
    ASSUME NEW S, NEW s \in Seq(S)
    PROVE  Kept(s, 1..Len(s)) = s
<1> DEFINE I == 1..Len(s)
<1>0. Len(s) \in Nat OBVIOUS
<1>1. \A n \in Nat : Cardinality(1..n) = n
  <2> SUFFICES ASSUME NEW n \in Nat PROVE Cardinality(1..n) = n OBVIOUS
  <2>1. Cardinality(1..n) = IF 1 > n THEN 0 ELSE n - 1 + 1 BY FS_Interval
  <2> QED BY <2>1
<1>2. \A i \in I : Place(I, i) = i
  <2> SUFFICES ASSUME NEW i \in I PROVE Place(I, i) = i OBVIOUS
  <2>1. {j \in I : j <= i} = 1..i BY <1>0
  <2>2. i \in Nat BY <1>0
  <2> QED BY <2>1, <2>2, <1>1 DEF Place
<1>3. \A n \in I : (CHOOSE i \in I : Place(I, i) = n) = n BY <1>2
<1>4. Kept(s, I) = [n \in I |-> s[CHOOSE i \in I : Place(I, i) = n]] BY <1>0, <1>1 DEF Kept
<1>5. s = [n \in I |-> s[n]] OBVIOUS
<1> HIDE DEF I
<1> QED BY <1>3, <1>4, <1>5 DEF I

\* The last of what is kept is at the greatest index; no index, nothing kept.
LEMMA LastKept ==
    ASSUME NEW s, NEW I, IsFiniteSet(I), I \subseteq Int
    PROVE  /\ I = {} => Kept(s, I) = <<>>
           /\ \A i \in I : (\A j \in I : j <= i) =>
                Kept(s, I) # <<>> /\ Kept(s, I)[Len(Kept(s, I))] = s[i]
<1> DEFINE N == Cardinality(I)
           K == Kept(s, I)
           S == {s[i] : i \in I}
<1>1. N \in Nat BY KeptInOrder
<1>2. PICK k \in [1..N -> I] :
        /\ K = [n \in 1..N |-> s[k[n]]]
        /\ \A i \in I : \E n \in 1..N : k[n] = i
        /\ \A m, n \in 1..N : m < n => k[m] < k[n]
  BY KeptInOrder
<1>3. K \in [1..N -> S] BY <1>2
<1>4. I = {} => N = 0 BY FS_EmptySet
<1> HIDE DEF K, N, S
<1>5. K \in Seq(S) /\ Len(K) = N BY <1>1, <1>3
<1>6. ASSUME NEW i \in I, \A j \in I : j <= i
      PROVE  K # <<>> /\ K[Len(K)] = s[i]
  <2>1. PICK n \in 1..N : k[n] = i BY <1>2
  <2>2. N \in 1..N /\ n <= N BY <1>1, <2>1
  <2>3. n = N
    <3>1. n < N => k[n] < k[N] BY <1>2, <2>2
    <3>2. k[N] \in I /\ k[N] \in Int /\ i \in Int BY <1>2, <2>2
    <3>3. k[N] <= i BY <1>6, <3>2
    <3> QED BY <1>1, <2>1, <2>2, <3>1, <3>2, <3>3
  <2>4. Len(K) # 0 /\ K # <<>> BY <1>1, <1>5, <2>2
  <2> QED BY <1>2, <1>5, <2>1, <2>2, <2>3, <2>4
<1>7. I = {} => K = <<>> BY <1>4, <1>5
<1> QED BY <1>6, <1>7 DEF K

\* What holds of 0, and of the next number whenever it holds of one.
LEMMA StepByStep ==
    ASSUME NEW n \in Nat, NEW G, 0 \in G, \A i \in 0..n : i < n /\ i \in G => i + 1 \in G
    PROVE  \A i \in 0..n : i \in G
<1> DEFINE T == {i \in 0..n : i \notin G}
<1>1. SUFFICES ASSUME T # {} PROVE FALSE OBVIOUS
<1>2. PICK m \in T : \A i \in T : m <= i
  <2>1. T \subseteq Nat OBVIOUS
  <2> QED BY <1>1, <2>1, LeastNumber
<1>3. m \in 0..n /\ m \notin G /\ m # 0 OBVIOUS
<1>4. m - 1 \in 0..n /\ m - 1 < n /\ (m - 1) + 1 = m BY <1>3
<1>5. m - 1 \in G
  <2>1. m - 1 \notin T BY <1>2, <1>4
  <2> QED BY <1>4, <2>1
<1> QED BY <1>3, <1>4, <1>5

\* n steps, each from what the one before has made.
Iterates(f, X, a, n, next) ==
    /\ f \in [0..n -> X] /\ f[0] = a
    /\ \A i \in 1..n : f[i] = next[<<f[i - 1], i>>]

\* A step that is given for every value can be repeated.
LEMMA IteratesExist ==
    ASSUME NEW X, NEW a \in X, NEW n \in Nat, NEW next \in [X \X (1..n) -> X]
    PROVE  \E f : Iterates(f, X, a, n, next)
<1> DEFINE G == {m \in 0..n : \E f \in [0..m -> X] :
                    f[0] = a /\ \A i \in 1..m : f[i] = next[<<f[i - 1], i>>]}
<1>1. 0 \in G
  <2> DEFINE f == [i \in 0..0 |-> a]
  <2>1. f \in [0..0 -> X] /\ f[0] = a /\ \A i \in 1..0 : f[i] = next[<<f[i - 1], i>>] OBVIOUS
  <2> HIDE DEF f
  <2>2. 0 \in 0..n OBVIOUS
  <2> QED BY <2>1, <2>2
<1>2. ASSUME NEW m \in 0..n, m < n, m \in G PROVE m + 1 \in G
  <2>1. PICK f \in [0..m -> X] : f[0] = a /\ \A i \in 1..m : f[i] = next[<<f[i - 1], i>>]
    BY <1>2
  <2>2. PICK k : k = m + 1 OBVIOUS
  <2>3. k \in 1..n /\ k \in 0..n /\ k - 1 = m /\ m \in 0..m /\ k \notin 0..m /\ k \in Nat
    BY <1>2, <2>2
  <2>4. next[<<f[m], k>>] \in X
    <3>1. f[m] \in X BY <2>3
    <3> QED BY <2>3, <3>1
  <2> DEFINE h == [i \in 0..k |-> IF i = k THEN next[<<f[m], k>>] ELSE f[i]]
  <2>5. \A i \in 0..k : i = k \/ i \in 0..m BY <2>2
  <2>6. h \in [0..k -> X] BY <2>4, <2>5
  <2>7. \A i \in 0..m : h[i] = f[i] /\ i \in 0..k BY <2>2, <2>3
  <2>8. h[k] = next[<<f[m], k>>] BY <2>3
  <2> HIDE DEF h
  <2>9. h[0] = a BY <2>1, <2>7
  <2>10. ASSUME NEW i \in 1..k PROVE h[i] = next[<<h[i - 1], i>>]
    <3>1. CASE i = k BY <2>3, <2>7, <2>8, <3>1
    <3>2. CASE i # k
      <4>1. i \in 1..m /\ i - 1 \in 0..m /\ i \in 0..m BY <2>2, <3>2
      <4> QED BY <2>1, <2>7, <4>1
    <3> QED BY <3>1, <3>2
  <2>11. k \in G BY <2>3, <2>6, <2>9, <2>10
  <2> QED BY <2>2, <2>11
<1>3. \A i \in 0..n : i \in G
  <2> HIDE DEF G
  <2> QED BY <1>1, <1>2, StepByStep
<1>4. n \in 0..n OBVIOUS
<1> QED BY <1>3, <1>4 DEF Iterates

\* A finite set in an order that compares any two.
THEOREM ListedInOrder ==
    ASSUME NEW S, IsFiniteSet(S), NEW upto \in [S -> SUBSET S],
           \A x \in S : x \in upto[x],
           \A x, y \in S : x \in upto[y] \/ y \in upto[x],
           \A x, y \in S : x \in upto[y] => upto[x] \subseteq upto[y],
           \A x, y \in S : x \in upto[y] /\ y \in upto[x] => x = y
    PROVE  /\ Cardinality(S) \in Nat
           /\ Listed(upto) \in [1..Cardinality(S) -> S]
           /\ \A x \in S : \E n \in 1..Cardinality(S) : Listed(upto)[n] = x
           /\ \A m, n \in 1..Cardinality(S) : m < n =>
                /\ Listed(upto)[m] \in upto[Listed(upto)[n]]
                /\ Listed(upto)[m] # Listed(upto)[n]
<1> DEFINE N == Cardinality(S)
           place == [x \in S |-> Cardinality(upto[x])]
           l == Listed(upto)
<1>1. N \in Nat BY FS_CardinalityType
<1>2. ASSUME NEW x \in S
      PROVE  /\ IsFiniteSet(upto[x]) /\ Cardinality(upto[x]) \in 1..N
  <2>1. upto[x] \in SUBSET S OBVIOUS
  <2>2. IsFiniteSet(upto[x]) /\ Cardinality(upto[x]) <= N BY <2>1, FS_Subset
  <2>3. Cardinality(upto[x]) # 0
    <3>1. upto[x] # {} OBVIOUS
    <3> QED BY <2>2, <3>1, FS_EmptySet
  <2>4. Cardinality(upto[x]) \in Nat BY <2>2, FS_CardinalityType
  <2> QED BY <1>1, <2>2, <2>3, <2>4
<1>3. ASSUME NEW x \in S, NEW y \in S, x \in upto[y], x # y
      PROVE  Cardinality(upto[x]) < Cardinality(upto[y])
  <2>1. upto[x] \in SUBSET upto[y] /\ y \in upto[y] /\ y \notin upto[x] BY <1>3
  <2>2. /\ Cardinality(upto[x]) <= Cardinality(upto[y])
        /\ Cardinality(upto[y]) = Cardinality(upto[x]) => upto[y] = upto[x]
    BY <1>2, <2>1, FS_Subset
  <2> QED BY <1>2, <2>1, <2>2
<1>4. place \in Injection(S, 1..N)
  <2>1. place \in [S -> 1..N] BY <1>2
  <2>2. \A x, y \in S : place[x] = place[y] => x = y
    <3> SUFFICES ASSUME NEW x \in S, NEW y \in S, place[x] = place[y], x # y PROVE FALSE
      OBVIOUS
    <3>1. Cardinality(upto[x]) \in 1..N /\ Cardinality(upto[y]) \in 1..N
          /\ Cardinality(upto[x]) = Cardinality(upto[y])
      BY <1>2
    <3>2. x \in upto[y] \/ y \in upto[x] OBVIOUS
    <3>3. CASE x \in upto[y]
      <4>1. Cardinality(upto[x]) < Cardinality(upto[y]) BY <1>3, <3>3
      <4> QED BY <1>1, <3>1, <4>1
    <3>4. CASE y \in upto[x]
      <4>1. Cardinality(upto[y]) < Cardinality(upto[x]) BY <1>3, <3>4
      <4> QED BY <1>1, <3>1, <4>1
    <3> QED BY <3>2, <3>3, <3>4
  <2> HIDE DEF place
  <2> QED BY <2>1, <2>2, Fun_IsInj DEF Injection, IsInjective
<1>5. IsFiniteSet(1..N) /\ Cardinality(1..N) = N
  <2>1. PICK n \in Nat : n = N BY <1>1
  <2>2. IsFiniteSet(1..n) /\ Cardinality(1..n) = n BY FS_Interval
  <2> QED BY <2>1, <2>2
<1>6. place \in Surjection(S, 1..N)
  <2> HIDE DEF place
  <2> QED BY <1>4, <1>5, FS_Injection
<1>7. \A n \in 1..N : \E x \in S : Cardinality(upto[x]) = n BY <1>6 DEF Surjection
<1>8. l = [n \in 1..N |-> CHOOSE x \in S : Cardinality(upto[x]) = n] BY DEF Listed
<1>9. \A n \in 1..N : l[n] \in S /\ Cardinality(upto[l[n]]) = n BY <1>7, <1>8
<1> HIDE DEF l
<1>10. l \in [1..N -> S] BY <1>8, <1>9
<1>11. \A x \in S : \E n \in 1..N : l[n] = x
  <2> SUFFICES ASSUME NEW x \in S PROVE \E n \in 1..N : l[n] = x OBVIOUS
  <2>1. PICK n \in 1..N : n = Cardinality(upto[x]) BY <1>2
  <2>2. PICK y \in S : y = l[n] BY <1>9
  <2>3. Cardinality(upto[y]) = Cardinality(upto[x]) BY <1>9, <2>1, <2>2
  <2>4. place[x] = place[y] BY <2>3
  <2>5. x = y
    <3> HIDE DEF place
    <3> QED BY <1>4, <2>4, Fun_IsInj DEF Injection, IsInjective
  <2> QED BY <2>2, <2>5
<1>12. ASSUME NEW m \in 1..N, NEW n \in 1..N, m < n
       PROVE  l[m] \in upto[l[n]] /\ l[m] # l[n]
  <2>1. PICK x \in S : x = l[m] BY <1>9
  <2>2. PICK y \in S : y = l[n] BY <1>9
  <2>3. Cardinality(upto[x]) = m /\ Cardinality(upto[y]) = n BY <1>9, <2>1, <2>2
  <2>4. x # y BY <1>12, <2>3
  <2>5. x \in upto[y]
    <3>1. SUFFICES ASSUME y \in upto[x] PROVE FALSE OBVIOUS
    <3>2. n < m BY <1>3, <2>3, <2>4, <3>1
    <3> QED BY <1>1, <1>12, <3>2
  <2> QED BY <2>1, <2>2, <2>4, <2>5
<1> QED BY <1>1, <1>10, <1>11, <1>12 DEF l
=============================================================================
