---------------------------- MODULE InOrderProofs ----------------------------
(***************************************************************************)
(* Ascending numbers a finite set of integers without repetition or gap,   *)
(* so that Those has exactly the elements it should, each as often as the  *)
(* sequence it is taken from.                                              *)
(***************************************************************************)
EXTENDS EntryVariables, FiniteSetTheorems, SequenceTheorems, WellFoundedInduction, TLAPS

\* The number of smaller elements is a position,
LEMMA BelowBounds ==
  ASSUME NEW S, IsFiniteSet(S), S \subseteq Int, NEW n \in S
  PROVE  Below(S, n) \in 0 .. Cardinality(S) - 1
<1> DEFINE B == {m \in S : m < n}
<1>1. B \subseteq S /\ B # S
  <2>1. n \notin B
    OBVIOUS
  <2> QED
    BY <2>1
<1>2. /\ IsFiniteSet(B) /\ Cardinality(B) <= Cardinality(S)
      /\ Cardinality(S) # Cardinality(B)
  BY <1>1, FS_Subset
<1>3. Cardinality(B) \in Nat /\ Cardinality(S) \in Nat
  BY <1>2, FS_CardinalityType
<1> QED
  BY <1>2, <1>3 DEF Below

\* and it grows with the element.
LEMMA BelowIncreases ==
  ASSUME NEW S, IsFiniteSet(S), S \subseteq Int,
         NEW m \in S, NEW n \in S, m < n
  PROVE  Below(S, m) < Below(S, n)
<1> DEFINE B(k) == {l \in S : l < k}
<1>1. B(m) \subseteq B(n)
  <2> SUFFICES ASSUME NEW l \in B(m)
               PROVE  l \in B(n)
    OBVIOUS
  <2> QED
    OBVIOUS
<1>2. m \in B(n) /\ m \notin B(m)
  OBVIOUS
<1>3. IsFiniteSet(B(m)) /\ IsFiniteSet(B(n))
  <2>1. B(m) \subseteq S /\ B(n) \subseteq S
    OBVIOUS
  <2> QED
    BY <2>1, FS_Subset
<1>4. Cardinality(B(m)) \in Nat /\ Cardinality(B(n)) \in Nat
  BY <1>3, FS_CardinalityType
<1> HIDE DEF B
<1>5. Cardinality(B(m)) <= Cardinality(B(n)) /\ Cardinality(B(n)) # Cardinality(B(m))
  BY <1>1, <1>2, <1>3, FS_Subset
<1> QED
  BY <1>4, <1>5 DEF Below, B

\* The same two facts about all elements.
LEMMA BelowOrders ==
  ASSUME NEW S, IsFiniteSet(S), S \subseteq Int
  PROVE  /\ Cardinality(S) \in Nat
         /\ \A n \in S : Below(S, n) \in 0 .. Cardinality(S) - 1
         /\ \A m, n \in S : m < n => Below(S, m) < Below(S, n)
<1>1. ASSUME NEW n \in S
      PROVE  Below(S, n) \in 0 .. Cardinality(S) - 1
  BY BelowBounds
<1>2. ASSUME NEW m \in S, NEW n \in S, m < n
      PROVE  Below(S, m) < Below(S, n)
  BY <1>2, BelowIncreases
<1>3. Cardinality(S) \in Nat
  BY FS_CardinalityType
<1> QED
  BY <1>1, <1>2, <1>3

\* Each position is that of an element.
LEMMA BelowOnto ==
  ASSUME NEW S, IsFiniteSet(S), S \subseteq Int,
         NEW i \in 0 .. Cardinality(S) - 1
  PROVE  \E n \in S : Below(S, n) = i
<1> DEFINE T == 0 .. Cardinality(S) - 1
           f == [n \in S |-> Below(S, n)]
<1>1. /\ Cardinality(S) \in Nat
      /\ \A n \in S : Below(S, n) \in 0 .. Cardinality(S) - 1
      /\ \A m, n \in S : m < n => Below(S, m) < Below(S, n)
  BY BelowOrders
<1>2. IsFiniteSet(T) /\ Cardinality(T) = Cardinality(S)
  BY <1>1, FS_Interval
<1>3. f \in Injection(S, T)
  <2>1. f \in [S -> T]
    BY BelowBounds
  <2>2. ASSUME NEW m \in S, NEW n \in S, f[m] = f[n]
        PROVE  m = n
    <3>1. m \in Int /\ n \in Int
      OBVIOUS
    <3>2. Below(S, m) = Below(S, n)
      BY <2>2
    <3>3. ~ (m < n) /\ ~ (n < m)
      BY <1>1, <3>2
    <3> QED
      BY <3>1, <3>3
  <2> QED
    BY <2>1, <2>2 DEF Injection, IsInjective
<1> HIDE DEF T
<1>4. f \in Surjection(S, T)
  BY <1>2, <1>3, FS_Injection
<1> QED
  BY <1>4 DEF Surjection, T

\* Ascending(S) goes through S upwards.
LEMMA AscendingSound ==
  ASSUME NEW S, IsFiniteSet(S), S \subseteq Int
  PROVE  /\ Cardinality(S) \in Nat
         /\ DOMAIN Ascending(S) = 1 .. Cardinality(S)
         /\ Ascending(S) \in Seq(S)
         /\ \A i \in DOMAIN Ascending(S) :
              /\ Ascending(S)[i] \in S
              /\ Below(S, Ascending(S)[i]) = i - 1
         /\ \A n \in S : \E i \in DOMAIN Ascending(S) : Ascending(S)[i] = n
         /\ IsInjective(Ascending(S))
<1> DEFINE a == Ascending(S)
<1>1. Cardinality(S) \in Nat
  BY FS_CardinalityType
<1>2. DOMAIN a = 1 .. Cardinality(S)
  BY DEF Ascending
<1>3. ASSUME NEW i \in DOMAIN a
      PROVE  a[i] \in S /\ Below(S, a[i]) = i - 1
  <2>1. i - 1 \in 0 .. Cardinality(S) - 1
    BY <1>1, <1>2, <1>3
  <2>2. \E n \in S : Below(S, n) = i - 1
    BY <2>1, BelowOnto
  <2>3. a[i] = CHOOSE n \in S : Below(S, n) = i - 1
    BY <1>2, <1>3 DEF Ascending
  <2> QED
    BY <2>2, <2>3
<1>4. a \in Seq(S)
  <2>1. a \in [1 .. Cardinality(S) -> S]
    BY <1>2, <1>3 DEF Ascending
  <2> HIDE DEF a
  <2> QED
    BY <1>1, <2>1
<1>5. \A i, j \in DOMAIN a : a[i] = a[j] => i = j
  <2> SUFFICES ASSUME NEW i \in DOMAIN a, NEW j \in DOMAIN a, a[i] = a[j]
               PROVE  i = j
    OBVIOUS
  <2>1. i - 1 = j - 1
    BY <1>3
  <2>2. i \in Int /\ j \in Int
    BY <1>2
  <2> QED
    BY <2>1, <2>2
<1>6. ASSUME NEW n \in S
      PROVE  \E i \in DOMAIN a : a[i] = n
  <2>1. Below(S, n) \in 0 .. Cardinality(S) - 1
    BY BelowBounds
  <2>2. Below(S, n) + 1 \in DOMAIN a
    BY <1>1, <1>2, <2>1
  <2>3. a[Below(S, n) + 1] \in S /\ Below(S, a[Below(S, n) + 1]) = Below(S, n)
    BY <1>3, <2>1, <2>2
  <2> DEFINE m == a[Below(S, n) + 1]
  <2>4. m \in Int /\ n \in Int /\ m \in S
    BY <2>3
  <2> HIDE DEF m
  <2>5. ~ (m < n) /\ ~ (n < m)
    <3>1. Below(S, m) = Below(S, n) /\ Below(S, n) \in Int
      BY <2>1, <2>3 DEF m
    <3>2. \A k, l \in S : k < l => Below(S, k) < Below(S, l)
      BY BelowOrders
    <3> QED
      BY <2>4, <3>1, <3>2
  <2>6. m = n
    BY <2>4, <2>5
  <2> QED
    BY <2>2, <2>6 DEF m
<1> QED
  BY <1>1, <1>2, <1>3, <1>4, <1>5, <1>6 DEF IsInjective

\* A greatest element comes last.
LEMMA AscendingAppend ==
  ASSUME NEW S, IsFiniteSet(S), S \subseteq Int, NEW n \in Int, \A m \in S : m < n
  PROVE  Ascending(S \cup {n}) = Append(Ascending(S), n)
<1> DEFINE T == S \cup {n}
           c == Cardinality(S)
           a == Ascending(S)
           b == Ascending(T)
<1>1. n \notin S
  OBVIOUS
<1>2. IsFiniteSet(T) /\ T \subseteq Int /\ Cardinality(T) = c + 1 /\ c \in Nat
  BY <1>1, FS_AddElement, FS_CardinalityType
<1>3. /\ DOMAIN a = 1 .. c /\ a \in Seq(S)
      /\ \A i \in 1 .. c : a[i] \in S /\ Below(S, a[i]) = i - 1
  BY AscendingSound
<1>4. /\ DOMAIN b = 1 .. c + 1 /\ b \in Seq(T)
      /\ \A i \in 1 .. c + 1 : b[i] \in T /\ Below(T, b[i]) = i - 1
  <2> HIDE DEF T, a, c
  <2> QED
    BY <1>2, AscendingSound
<1>5. ASSUME NEW m \in S
      PROVE  Below(T, m) = Below(S, m) /\ Below(S, m) \in 0 .. c - 1
  <2>1. {x \in T : x < m} = {x \in S : x < m}
    <3>1. m < n /\ m \in Int
      OBVIOUS
    <3>2. ~ (n < m)
      BY <3>1
    <3> QED
      BY <3>2
  <2>2. Below(T, m) = Below(S, m)
    BY <2>1 DEF Below
  <2> QED
    BY <2>2, BelowBounds
<1>6. Below(T, n) = c
  <2>1. {x \in T : x < n} = S
    <3>1. ~ (n < n)
      OBVIOUS
    <3> QED
      BY <3>1
  <2> QED
    BY <2>1 DEF Below
<1> HIDE DEF T, a, b, c
<1>7. \A l, m \in S : l < m => Below(S, l) < Below(S, m)
  BY BelowOrders
<1>8. ASSUME NEW i \in 1 .. c
      PROVE  b[i] = a[i]
  <2>1. b[i] \in T /\ Below(T, b[i]) = i - 1 /\ i - 1 # c
    BY <1>2, <1>4
  <2>2. b[i] \in S
    BY <1>6, <2>1 DEF T
  <2>3. Below(S, b[i]) = i - 1 /\ a[i] \in S /\ Below(S, a[i]) = i - 1
    BY <1>3, <1>5, <2>1, <2>2
  <2>4. ~ (a[i] < b[i]) /\ ~ (b[i] < a[i])
    <3>1. ~ (i - 1 < i - 1)
      OBVIOUS
    <3> QED
      BY <1>7, <2>2, <2>3, <3>1
  <2>5. a[i] \in Int /\ b[i] \in Int
    BY <2>2, <2>3
  <2> QED
    BY <2>4, <2>5
<1>9. b[c + 1] = n
  <2>1. b[c + 1] \in T /\ Below(T, b[c + 1]) = c
    <3>1. c + 1 \in 1 .. c + 1 /\ (c + 1) - 1 = c
      BY <1>2
    <3> QED
      BY <1>4, <3>1
  <2>2. b[c + 1] \notin S
    <3>1. c \notin 0 .. c - 1
      BY <1>2
    <3>2. \A m \in S : Below(T, m) \in 0 .. c - 1
      BY <1>5
    <3> QED
      BY <2>1, <3>1, <3>2
  <2> QED
    BY <2>1, <2>2 DEF T
<1>10. a \in Seq(Int) /\ b \in Seq(Int) /\ Len(a) = c /\ Len(b) = c + 1
  <2>1. a \in Seq(Int) /\ b \in Seq(Int)
    <3>1. S \subseteq Int /\ T \subseteq Int
      BY <1>2
    <3>2. a \in [1 .. c -> Int]
      <4>1. a = [i \in 1 .. c |-> a[i]]
        BY <1>3 DEF a, c, Ascending
      <4>2. \A i \in 1 .. c : a[i] \in Int
        BY <1>3, <3>1
      <4> QED
        BY <4>1, <4>2
    <3>3. b \in [1 .. c + 1 -> Int]
      <4>1. b = [i \in 1 .. c + 1 |-> b[i]]
        BY <1>2, <1>4 DEF b, Ascending
      <4>2. \A i \in 1 .. c + 1 : b[i] \in Int
        BY <1>4, <3>1
      <4> QED
        BY <4>1, <4>2
    <3> QED
      BY <1>2, <3>2, <3>3
  <2> QED
    BY <1>2, <1>3, <1>4, <2>1
<1>11. b = Append(a, n)
  BY <1>2, <1>8, <1>9, <1>10
<1> QED
  BY <1>11 DEF a, b, T

\* Those(s, T) has the elements of s in T, and repeats none that s does not.
LEMMA ThoseSound ==
  ASSUME NEW X, NEW s \in Seq(X), NEW T
  PROVE  /\ Those(s, T) \in Seq(X)
         /\ ToSet(Those(s, T)) = ToSet(s) \cap T
         /\ IsInjective(s) => IsInjective(Those(s, T))
<1> DEFINE S == {n \in DOMAIN s : s[n] \in T}
           a == Ascending(S)
           t == Those(s, T)
<1>1. IsFiniteSet(S) /\ S \subseteq Int
  <2>1. IsFiniteSet(DOMAIN s)
    BY FS_Interval
  <2>2. S \subseteq DOMAIN s /\ DOMAIN s \subseteq Int
    OBVIOUS
  <2> QED
    BY <2>1, <2>2, FS_Subset
<1>2. S \subseteq DOMAIN s /\ \A n \in DOMAIN s : n \in S <=> s[n] \in T
  OBVIOUS
<1>3. t = [i \in DOMAIN a |-> s[a[i]]]
  BY DEF Those
<1> HIDE DEF S, a, t
<1>4. /\ Cardinality(S) \in Nat
      /\ DOMAIN a = 1 .. Cardinality(S)
      /\ \A i \in DOMAIN a : a[i] \in S
      /\ \A n \in S : \E i \in DOMAIN a : a[i] = n
      /\ \A i, j \in DOMAIN a : a[i] = a[j] => i = j
  BY <1>1, AscendingSound DEF a, IsInjective
<1>5. t \in Seq(X)
  <2>1. \A i \in 1 .. Cardinality(S) : s[a[i]] \in X
    BY <1>2, <1>4
  <2>2. t \in [1 .. Cardinality(S) -> X]
    BY <1>3, <1>4, <2>1
  <2> QED
    BY <1>4, <2>2
<1>6. ToSet(t) = ToSet(s) \cap T
  <2>1. ASSUME NEW x \in ToSet(t)
        PROVE  x \in ToSet(s) \cap T
    <3>1. PICK i \in DOMAIN t : t[i] = x
      BY <2>1 DEF ToSet
    <3>2. i \in DOMAIN a /\ a[i] \in S /\ x = s[a[i]]
      BY <1>3, <1>4, <3>1
    <3> QED
      BY <1>2, <3>2 DEF ToSet
  <2>2. ASSUME NEW x \in ToSet(s) \cap T
        PROVE  x \in ToSet(t)
    <3>1. PICK n \in DOMAIN s : s[n] = x
      BY <2>2 DEF ToSet
    <3>2. n \in S
      BY <1>2, <2>2, <3>1
    <3>3. PICK i \in DOMAIN a : a[i] = n
      BY <1>4, <3>2
    <3> QED
      BY <1>3, <3>1, <3>3 DEF ToSet
  <2> QED
    BY <2>1, <2>2
<1>7. ASSUME IsInjective(s)
      PROVE  IsInjective(t)
  <2> SUFFICES ASSUME NEW i \in DOMAIN t, NEW j \in DOMAIN t, t[i] = t[j]
               PROVE  i = j
    BY DEF IsInjective
  <2>1. i \in DOMAIN a /\ j \in DOMAIN a /\ s[a[i]] = s[a[j]]
    BY <1>3
  <2>2. a[i] \in DOMAIN s /\ a[j] \in DOMAIN s
    BY <1>2, <1>4, <2>1
  <2>3. a[i] = a[j]
    BY <1>7, <2>1, <2>2 DEF IsInjective
  <2> QED
    BY <1>4, <2>1, <2>3
<1> QED
  BY <1>5, <1>6, <1>7 DEF t

\* A finite set of integers that is not empty has a least element,
LEMMA MinSound ==
  ASSUME NEW S, IsFiniteSet(S), S \subseteq Int, S # {}
  PROVE  Min(S) \in S /\ \A n \in S : Min(S) <= n
<1>0. /\ Cardinality(S) \in Nat
      /\ \A n \in S : Below(S, n) \in 0 .. Cardinality(S) - 1
      /\ \A m, n \in S : m < n => Below(S, m) < Below(S, n)
  BY BelowOrders
<1>1. Cardinality(S) \in Nat /\ Cardinality(S) # 0
  BY FS_CardinalityType, FS_EmptySet
<1>2. PICK m \in S : Below(S, m) = 0
  <2>1. 0 \in 0 .. Cardinality(S) - 1
    BY <1>1
  <2> QED
    BY <2>1, BelowOnto
<1>3. ASSUME NEW n \in S
      PROVE  m <= n
  <2>1. ~ (n < m)
    <3>1. ~ (Below(S, n) < 0)
      BY <1>0
    <3> QED
      BY <1>0, <1>2, <3>1
  <2> QED
    BY <2>1
<1> QED
  BY <1>3 DEF Min

\* and a greatest.
LEMMA MaxSound ==
  ASSUME NEW S, IsFiniteSet(S), S \subseteq Int, S # {}
  PROVE  Max(S) \in S /\ \A n \in S : Max(S) >= n
<1>0. /\ Cardinality(S) \in Nat
      /\ \A n \in S : Below(S, n) \in 0 .. Cardinality(S) - 1
      /\ \A m, n \in S : m < n => Below(S, m) < Below(S, n)
  BY BelowOrders
<1>1. Cardinality(S) \in Nat /\ Cardinality(S) # 0
  BY FS_CardinalityType, FS_EmptySet
<1>2. PICK m \in S : Below(S, m) = Cardinality(S) - 1
  <2>1. Cardinality(S) - 1 \in 0 .. Cardinality(S) - 1
    BY <1>1
  <2> QED
    BY <2>1, BelowOnto
<1>3. ASSUME NEW n \in S
      PROVE  m >= n
  <2>1. ~ (m < n)
    <3>1. Below(S, n) \in Int /\ ~ (Cardinality(S) - 1 < Below(S, n))
      BY <1>0
    <3> QED
      BY <1>0, <1>2, <3>1
  <2> QED
    BY <2>1
<1> QED
  BY <1>3 DEF Max

\* Elements of two sequences that are taken from the same positions.
LEMMA ThoseAlike ==
  ASSUME NEW X, NEW s \in Seq(X), NEW t, DOMAIN t = DOMAIN s, NEW S, NEW T,
         \A n \in DOMAIN s : s[n] \in S <=> t[n] \in T
  PROVE  /\ DOMAIN Those(t, T) = DOMAIN Those(s, S)
         /\ \A i \in DOMAIN Those(s, S) :
              \E n \in DOMAIN s : Those(s, S)[i] = s[n] /\ Those(t, T)[i] = t[n]
<1> DEFINE N == {n \in DOMAIN s : s[n] \in S}
           M == {n \in DOMAIN t : t[n] \in T}
           a == Ascending(N)
<1>1. N = M
  OBVIOUS
<1>2. IsFiniteSet(N) /\ N \subseteq Int
  <2>1. IsFiniteSet(DOMAIN s)
    BY FS_Interval
  <2> QED
    BY <2>1, FS_Subset
<1>3. Those(s, S) = [i \in DOMAIN a |-> s[a[i]]]
  BY DEF Those
<1>4. Those(t, T) = [i \in DOMAIN a |-> t[a[i]]]
  <2>1. Those(t, T) = [i \in DOMAIN Ascending(M) |-> t[Ascending(M)[i]]]
    BY DEF Those
  <2> HIDE DEF M, N
  <2> QED
    BY <1>1, <2>1
<1>5. \A i \in DOMAIN a : a[i] \in N
  <2> HIDE DEF N
  <2> QED
    BY <1>2, AscendingSound
<1>6. \A n \in N : n \in DOMAIN s
  OBVIOUS
<1> HIDE DEF a, N
<1> QED
  BY <1>3, <1>4, <1>5, <1>6

\* As many images as elements, if no two have the same.
LEMMA ImageCardinality ==
  ASSUME NEW S, IsFiniteSet(S), NEW f, DOMAIN f = S, IsInjective(f)
  PROVE  /\ IsFiniteSet({f[x] : x \in S})
         /\ Cardinality({f[x] : x \in S}) = Cardinality(S)
<1> DEFINE T == {f[x] : x \in S}
           g == [x \in S |-> f[x]]
<1>1. g \in [S -> T] /\ (\A t \in T : \E x \in S : g[x] = t)
  OBVIOUS
<1>2. \A x, y \in S : g[x] = g[y] => x = y
  BY DEF IsInjective
<1> HIDE DEF g, T
<1>3. g \in Bijection(S, T)
  BY <1>1, <1>2 DEF Bijection, Injection, Surjection, IsInjective
<1>4. ExistsBijection(S, T)
  BY <1>3 DEF ExistsBijection
<1>5. IsFiniteSet(T) /\ Cardinality(T) = Cardinality(S)
  BY <1>4, FS_Bijection
<1> QED
  BY <1>5 DEF T

(***************************************************************************)
(* Loops over sequences                                                    *)
(***************************************************************************)
\* A set of natural numbers that is not empty has a least element.
LEMMA LeastNatural ==
  ASSUME NEW B, B \subseteq Nat, B # {}
  PROVE  \E k \in B : \A m \in B : k <= m
<1> DEFINE R == {p \in Nat \X Nat : p[1] < p[2]}
<1>1. IsWellFoundedOn(R, Nat)
  BY NatLessThanWellFounded, Zenon DEF OpToRel
<1>2. \A m, k \in Nat : <<m, k>> \in R <=> m < k
  OBVIOUS
<1> HIDE DEF R
<1>3. PICK k \in B : \A m \in B : ~ (<<m, k>> \in R)
  BY <1>1, WFMin
<1>4. \A m \in B : ~ (m < k)
  BY <1>2, <1>3
<1> QED
  BY <1>4

\* The results f of a loop of n steps that starts with a.
Results(f, n, X, a, step) ==
  /\ f \in [0 .. n -> X] /\ f[0] = a
  /\ \A i \in 1 .. n : f[i] = step[i][f[i - 1]]

\* A loop has a result after each step.
LEMMA LoopExists ==
  ASSUME NEW X, NEW n \in Nat, NEW a \in X, NEW step \in [1 .. n -> [X -> X]]
  PROVE  \E f : Results(f, n, X, a, step)
<1> DEFINE Loop(f, m) == Results(f, m, X, a, step)
           B == {m \in 0 .. n : ~ \E f : Loop(f, m)}
<1> SUFFICES \A m \in 0 .. n : \E f : Loop(f, m)
  <2>1. n \in 0 .. n
    OBVIOUS
  <2>2. PICK f : Loop(f, n)
    BY <2>1
  <2> QED
    BY <2>2
<1> SUFFICES ASSUME B # {} PROVE FALSE
  OBVIOUS
<1>1. PICK m \in B : \A j \in B : m <= j
  <2>1. B \subseteq Nat /\ B # {}
    OBVIOUS
  <2> HIDE DEF B
  <2> QED
    BY <2>1, LeastNatural
<1>2. m # 0
  <2>1. Loop([i \in 0 .. 0 |-> a], 0)
    BY DEF Results
  <2> QED
    BY <2>1
<1>3. m - 1 \in 0 .. n /\ m \in 1 .. n
  BY <1>1, <1>2
<1>4. PICK f : Loop(f, m - 1)
  <2>1. m - 1 \notin B
    <3>1. m \in Nat
      OBVIOUS
    <3> HIDE DEF B
    <3> QED
      BY <1>1, <3>1
  <2> QED
    BY <1>3, <2>1
<1> DEFINE h == [i \in 0 .. m |-> IF i = m THEN step[m][f[m - 1]] ELSE f[i]]
<1>5. /\ f \in [0 .. m - 1 -> X] /\ f[0] = a
      /\ \A i \in 1 .. m - 1 : f[i] = step[i][f[i - 1]]
  BY <1>4 DEF Results
<1>6. step[m][f[m - 1]] \in X
  BY <1>3, <1>5
<1>7. h \in [0 .. m -> X] /\ h[0] = a
  BY <1>3, <1>5, <1>6
<1>8. ASSUME NEW i \in 1 .. m
      PROVE  h[i] = step[i][h[i - 1]]
  <2>1. h[i - 1] = f[i - 1]
    BY <1>3
  <2>2. CASE i = m
    <3>1. h[i] = step[m][f[m - 1]]
      BY <1>3, <2>2
    <3> HIDE DEF h
    <3> QED
      BY <2>1, <2>2, <3>1
  <2>3. CASE i # m
    <3>1. i \in 1 .. m - 1 /\ h[i] = f[i]
      BY <1>3, <2>3
    <3> HIDE DEF h
    <3> QED
      BY <1>5, <2>1, <3>1
  <2> QED
    BY <2>2, <2>3
<1> HIDE DEF h
<1>9. Loop(h, m)
  BY <1>7, <1>8 DEF Results
<1> QED
  BY <1>1, <1>9

\* FlattenSeq concatenates step by step.
LEMMA FlattenLoop ==
  ASSUME NEW X, NEW ss \in Seq(Seq(X))
  PROVE  \E f \in [0 .. Len(ss) -> Seq(X)] :
           /\ f[0] = <<>>
           /\ \A i \in 1 .. Len(ss) : f[i] = f[i - 1] \o ss[i]
           /\ FlattenSeq(ss) = f[Len(ss)]
<1> DEFINE n == Len(ss)
           step == [i \in 1 .. n |-> [x \in Seq(X) |-> x \o ss[i]]]
<1>1. n \in Nat /\ \A i \in 1 .. n : ss[i] \in Seq(X)
  OBVIOUS
<1>2. <<>> \in Seq(X)
  OBVIOUS
<1>3. step \in [1 .. n -> [Seq(X) -> Seq(X)]]
  <2> SUFFICES ASSUME NEW i \in 1 .. n, NEW x \in Seq(X)
               PROVE  x \o ss[i] \in Seq(X)
    OBVIOUS
  <2> QED
    BY <1>1, ConcatProperties
<1>4. \A i \in 1 .. n : \A x \in Seq(X) : step[i][x] = x \o ss[i]
  OBVIOUS
<1> HIDE DEF step, n
<1>5. PICK f \in [0 .. n -> Seq(X)] :
        f[0] = <<>> /\ \A i \in 1 .. n : f[i] = step[i][f[i - 1]]
  <2> DEFINE Y == Seq(X)
             e == <<>>
  <2>1. n \in Nat /\ e \in Y /\ step \in [1 .. n -> [Y -> Y]]
    BY <1>1, <1>2, <1>3
  <2> HIDE DEF Y, e
  <2>2. \E f : Results(f, n, Y, e, step)
    BY <2>1, LoopExists
  <2> QED
    BY <2>2 DEF Results, Y, e
<1>6. \A i \in 1 .. n : f[i - 1] \in Seq(X) /\ f[i] = f[i - 1] \o ss[i]
  <2> SUFFICES ASSUME NEW i \in 1 .. n
               PROVE  f[i - 1] \in Seq(X) /\ f[i] = f[i - 1] \o ss[i]
    OBVIOUS
  <2>1. i - 1 \in 0 .. n
    BY <1>1
  <2> QED
    BY <1>4, <1>5, <2>1
<1>7. CASE n = 0
  <2>1. ss = <<>> /\ FlattenSeq(ss) = ss
    BY <1>7 DEF FlattenSeq, n
  <2> QED
    BY <1>5, <1>6, <1>7, <2>1 DEF n
<1>8. CASE n # 0
  <2> DEFINE Is(g) == g = [i \in 1 .. n |-> IF i = 1 THEN ss[i] ELSE g[i - 1] \o ss[i]]
             flatten == CHOOSE g : Is(g)
             h == [i \in 1 .. n |-> f[i]]
  <2>1. FlattenSeq(ss) = flatten[n]
    BY <1>8 DEF FlattenSeq, n
  <2>2. ASSUME NEW i \in 1 .. n
        PROVE  h[i] = IF i = 1 THEN ss[i] ELSE h[i - 1] \o ss[i]
    <3>1. CASE i = 1
      <4>1. h[i] = <<>> \o ss[i]
        <5>1. f[i] = f[i - 1] \o ss[i] /\ h[i] = f[i]
          BY <1>6
        <5>2. i - 1 = 0
          BY <3>1
        <5> HIDE DEF h
        <5> QED
          BY <1>5, <5>1, <5>2
      <4>2. <<>> \o ss[i] = ss[i]
        BY <1>1, ConcatEmptySeq
      <4> QED
        BY <3>1, <4>1, <4>2
    <3>2. CASE i # 1
      <4>1. i - 1 \in 1 .. n
        BY <1>1, <3>2
      <4>2. h[i - 1] = f[i - 1] /\ h[i] = f[i]
        BY <4>1
      <4> HIDE DEF h
      <4> QED
        BY <1>6, <3>2, <4>2
    <3> QED
      BY <3>1, <3>2
  <2>3. Is(h)
    <3> DEFINE g == [i \in 1 .. n |-> IF i = 1 THEN ss[i] ELSE h[i - 1] \o ss[i]]
    <3>1. DOMAIN h = 1 .. n /\ \A i \in 1 .. n : h[i] = g[i]
      BY <2>2
    <3>2. h = g
      BY <3>1
    <3> QED
      BY <3>2
  <2>4. Is(flatten)
    <3> HIDE DEF Is
    <3> QED
      BY <2>3
  <2>5. \A i \in 1 .. n : flatten[i] = IF i = 1 THEN ss[i] ELSE flatten[i - 1] \o ss[i]
    <3> HIDE DEF flatten
    <3> QED
      BY <2>4
  <2> DEFINE B == {i \in 1 .. n : flatten[i] # f[i]}
  <2>6. B = {}
    <3> SUFFICES ASSUME B # {} PROVE FALSE
      OBVIOUS
    <3> HIDE DEF flatten
    <3>1. PICK i \in B : \A j \in B : i <= j
      <4>1. B \subseteq Nat /\ B # {}
        <5>1. n \in Nat
          BY <1>1
        <5> QED
          BY <5>1
      <4> HIDE DEF B
      <4> QED
        BY <4>1, LeastNatural
    <3>2. i \in 1 .. n /\ f[i] = f[i - 1] \o ss[i]
      BY <1>6, <3>1
    <3>3. CASE i = 1
      <4>1. <<>> \o ss[i] = ss[i]
        BY <1>1, <3>2, ConcatEmptySeq
      <4>2. f[i] = ss[i] /\ flatten[i] = ss[i]
        <5>1. i - 1 = 0
          BY <3>3
        <5>2. f[i] = <<>> \o ss[i]
          BY <1>5, <3>2, <5>1
        <5> QED
          BY <2>5, <3>2, <3>3, <4>1, <5>2
      <4> QED
        BY <3>1, <4>2
    <3>4. CASE i # 1
      <4>1. i - 1 \in 1 .. n /\ ~ (i <= i - 1)
        BY <1>1, <3>2, <3>4
      <4>2. flatten[i - 1] = f[i - 1]
        BY <3>1, <4>1
      <4>3. flatten[i] = f[i]
        BY <2>5, <3>2, <3>4, <4>2
      <4> QED
        BY <3>1, <4>3
    <3> QED
      BY <3>3, <3>4
  <2>7. n \in 1 .. n
    BY <1>1, <1>8
  <2> HIDE DEF flatten
  <2>8. flatten[n] = f[n]
    BY <2>6, <2>7
  <2> QED
    BY <1>5, <1>6, <2>1, <2>8 DEF n
<1> QED
  BY <1>7, <1>8

\* One more sequence comes behind those there are.
LEMMA FlattenAppend ==
  ASSUME NEW X, NEW ss \in Seq(Seq(X)), NEW s \in Seq(X)
  PROVE  /\ FlattenSeq(ss) \in Seq(X)
         /\ FlattenSeq(Append(ss, s)) = FlattenSeq(ss) \o s
<1> DEFINE n == Len(ss)
           tt == Append(ss, s)
<1>1. /\ n \in Nat /\ tt \in Seq(Seq(X)) /\ Len(tt) = n + 1 /\ tt[n + 1] = s
      /\ \A i \in 1 .. n : tt[i] = ss[i]
  OBVIOUS
<1>2. PICK f \in [0 .. n -> Seq(X)] :
        /\ f[0] = <<>>
        /\ \A i \in 1 .. n : f[i] = f[i - 1] \o ss[i]
        /\ FlattenSeq(ss) = f[n]
  BY FlattenLoop
<1> HIDE DEF tt, n
<1>3. PICK g \in [0 .. n + 1 -> Seq(X)] :
        /\ g[0] = <<>>
        /\ \A i \in 1 .. n + 1 : g[i] = g[i - 1] \o tt[i]
        /\ FlattenSeq(tt) = g[n + 1]
  <2>1. \E g \in [0 .. Len(tt) -> Seq(X)] :
          /\ g[0] = <<>>
          /\ \A i \in 1 .. Len(tt) : g[i] = g[i - 1] \o tt[i]
          /\ FlattenSeq(tt) = g[Len(tt)]
    BY <1>1, FlattenLoop
  <2> QED
    BY <1>1, <2>1
<1> DEFINE B == {i \in 0 .. n : g[i] # f[i]}
<1>4. B = {}
  <2> SUFFICES ASSUME B # {} PROVE FALSE
    OBVIOUS
  <2>1. PICK i \in B : \A j \in B : i <= j
    <3>1. B \subseteq Nat /\ B # {}
      BY <1>1
    <3> HIDE DEF B
    <3> QED
      BY <3>1, LeastNatural
  <2>2. i # 0
    BY <1>2, <1>3, <2>1
  <2>3. i \in 1 .. n /\ i - 1 \in 0 .. n /\ ~ (i <= i - 1)
    BY <1>1, <2>1, <2>2
  <2>4. g[i - 1] = f[i - 1]
    BY <2>1, <2>3
  <2>5. g[i] = f[i]
    <3>1. i \in 1 .. n + 1 /\ tt[i] = ss[i]
      <4>1. i \in 1 .. n /\ n \in Nat
        BY <1>1, <2>3
      <4> HIDE DEF B
      <4> QED
        BY <1>1, <4>1
    <3>2. f[i] = f[i - 1] \o ss[i] /\ g[i] = g[i - 1] \o tt[i]
      BY <1>2, <1>3, <2>3, <3>1
    <3> QED
      BY <2>4, <3>1, <3>2
  <2> QED
    BY <2>1, <2>5
<1>5. n \in 0 .. n /\ n + 1 \in 1 .. n + 1
  BY <1>1
<1>6. g[n] = f[n]
  BY <1>4, <1>5
<1>7. g[n + 1] = g[n] \o s
  <2>1. (n + 1) - 1 = n
    BY <1>1
  <2> QED
    BY <1>1, <1>3, <1>5, <2>1
<1> QED
  BY <1>2, <1>3, <1>5, <1>6, <1>7 DEF tt

(***************************************************************************)
(* AddEntry: putting variables in a table that has some already            *)
(***************************************************************************)
\* acc has the results of the first n steps of the loop in AddVariables.
AddsUpTo(acc, old, new, n) ==
  \A i \in 0 .. n :
    acc[i] = IF i = 0 THEN [vars |-> old, ids |-> <<>>]
             ELSE AddVariable(acc[i - 1], new[i])

\* The loop has a result for each step.
LEMMA AddsExist ==
  ASSUME NEW old, NEW new, NEW n \in Nat
  PROVE  \E acc : AddsUpTo(acc, old, new, n)
<1> DEFINE B == {m \in Nat : ~ \E acc : AddsUpTo(acc, old, new, m)}
<1> SUFFICES ASSUME B # {} PROVE FALSE
  OBVIOUS
<1>1. PICK m \in B : \A j \in B : m <= j
  <2>1. B \subseteq Nat
    OBVIOUS
  <2> HIDE DEF B
  <2> QED
    BY <2>1, LeastNatural
<1>2. m # 0
  <2>1. AddsUpTo([i \in 0 .. 0 |-> [vars |-> old, ids |-> <<>>]], old, new, 0)
    BY DEF AddsUpTo
  <2> QED
    BY <2>1
<1>3. PICK acc : AddsUpTo(acc, old, new, m - 1)
  <2>1. m - 1 \in Nat /\ ~ (m <= m - 1)
    BY <1>2
  <2> QED
    BY <1>1, <2>1
<1> DEFINE h == [i \in 0 .. m |-> IF i = m THEN AddVariable(acc[i - 1], new[i])
                                  ELSE acc[i]]
<1>4. ASSUME NEW i \in 0 .. m
      PROVE  h[i] = IF i = 0 THEN [vars |-> old, ids |-> <<>>]
                    ELSE AddVariable(h[i - 1], new[i])
  <2>1. CASE i = 0
    <3>1. 0 \in 0 .. m - 1 /\ h[0] = acc[0]
      BY <1>2, <2>1
    <3> QED
      BY <1>3, <2>1, <3>1 DEF AddsUpTo
  <2>2. CASE i # 0 /\ i # m
    <3>1. i \in 0 .. m - 1 /\ h[i] = acc[i] /\ i - 1 \in 0 .. m /\ i - 1 # m
      BY <2>2
    <3>2. h[i - 1] = acc[i - 1]
      BY <3>1
    <3>3. acc[i] = AddVariable(acc[i - 1], new[i])
      BY <1>3, <2>2, <3>1 DEF AddsUpTo
    <3> HIDE DEF h
    <3> QED
      BY <2>2, <3>1, <3>2, <3>3
  <2>3. CASE i = m
    <3>1. i # 0 /\ i - 1 \in 0 .. m /\ i - 1 # m
      BY <1>2, <2>3
    <3>2. h[i - 1] = acc[i - 1] /\ h[i] = AddVariable(acc[i - 1], new[i])
      BY <2>3, <3>1
    <3> HIDE DEF h
    <3> QED
      BY <3>1, <3>2
  <2> QED
    BY <2>1, <2>2, <2>3
<1>5. AddsUpTo(h, old, new, m)
  BY <1>4 DEF AddsUpTo
<1> QED
  BY <1>1, <1>5

\* AddVariables is the last of these results.
LEMMA AddVariablesLoop ==
  ASSUME NEW old, NEW new, Len(new) \in Nat
  PROVE  \E acc : /\ AddVariables(old, new) = acc[Len(new)]
                  /\ AddsUpTo(acc, old, new, Len(new))
<1> DEFINE Is(acc) == acc = [i \in 0 .. Len(new) |->
                              IF i = 0 THEN [vars |-> old, ids |-> <<>>]
                              ELSE AddVariable(acc[i - 1], new[i])]
           loop == CHOOSE acc : Is(acc)
<1>1. AddVariables(old, new) = loop[Len(new)]
  BY DEF AddVariables
<1>2. \A acc : Is(acc) => AddsUpTo(acc, old, new, Len(new))
  BY DEF AddsUpTo
<1>3. PICK acc : AddsUpTo(acc, old, new, Len(new))
  BY AddsExist
<1> DEFINE h == [i \in 0 .. Len(new) |-> acc[i]]
<1>4. Is(h)
  <2> DEFINE g == [i \in 0 .. Len(new) |->
                    IF i = 0 THEN [vars |-> old, ids |-> <<>>]
                    ELSE AddVariable(h[i - 1], new[i])]
  <2>1. ASSUME NEW i \in 0 .. Len(new)
        PROVE  h[i] = g[i]
    <3>1. CASE i = 0
      BY <1>3, <3>1 DEF AddsUpTo
    <3>2. CASE i # 0
      <4>1. i - 1 \in 0 .. Len(new)
        BY <3>2
      <4>2. acc[i] = AddVariable(acc[i - 1], new[i])
        BY <1>3, <3>2 DEF AddsUpTo
      <4>3. h[i] = acc[i] /\ h[i - 1] = acc[i - 1]
        BY <4>1
      <4> HIDE DEF h
      <4> QED
        BY <3>2, <4>2, <4>3
    <3> QED
      BY <3>1, <3>2
  <2>2. h = g
    BY <2>1
  <2> QED
    BY <2>2
<1> HIDE DEF Is
<1>5. Is(loop)
  BY <1>4
<1> QED
  BY <1>1, <1>2, <1>5

\* After some steps: the old columns are where they were, every column is an
\* old or a new variable, each id is that of a column of the variable.
Placed(acc, V, old, new, n) ==
  /\ acc \in [vars : Seq(V), ids : Seq(Nat)]
  /\ Len(acc.ids) = n
  /\ Len(old) <= Len(acc.vars)
  /\ \A k \in 1 .. Len(old) : acc.vars[k] = old[k]
  /\ \A k \in DOMAIN acc.vars : acc.vars[k] \in ToSet(old) \cup ToSet(new)
  /\ \A j \in 1 .. n : /\ acc.ids[j] \in 0 .. Len(acc.vars) - 1
                       /\ SameVariable(acc.vars[acc.ids[j] + 1], new[j])

\* One step keeps it so.
LEMMA AddVariablePlaces ==
  ASSUME NEW V, NEW old \in Seq(V), NEW new \in Seq(V),
         NEW n \in Nat, n + 1 <= Len(new),
         NEW acc, Placed(acc, V, old, new, n)
  PROVE  Placed(AddVariable(acc, new[n + 1]), V, old, new, n + 1)
<1> DEFINE vs == acc.vars
           is == acc.ids
           v == new[n + 1]
           same == {i \in DOMAIN vs : SameVariable(vs[i], v)}
           res == AddVariable(acc, v)
<1>1. /\ vs \in Seq(V) /\ is \in Seq(Nat) /\ Len(is) = n
      /\ Len(old) <= Len(vs)
      /\ \A k \in 1 .. Len(old) : vs[k] = old[k]
      /\ \A k \in DOMAIN vs : vs[k] \in ToSet(old) \cup ToSet(new)
      /\ \A j \in 1 .. n : /\ is[j] \in 0 .. Len(vs) - 1
                           /\ SameVariable(vs[is[j] + 1], new[j])
  BY DEF Placed
<1>2. v \in V /\ v \in ToSet(new)
  BY DEF ToSet
<1>3. IF same = {} THEN res = [vars |-> Append(vs, v), ids |-> Append(is, Len(vs))]
      ELSE res = [vars |-> vs, ids |-> Append(is, Min(same) - 1)]
  <2>1. acc \in [vars : Seq(V), ids : Seq(Nat)]
    BY DEF Placed
  <2>2. same # {} => res = [acc EXCEPT !.ids = Append(@, Min(same) - 1)]
    BY DEF AddVariable
  <2>3. same = {} => res = [vars |-> Append(vs, v), ids |-> Append(is, Len(vs))]
    BY DEF AddVariable
  <2> HIDE DEF same, v
  <2> QED
    BY <2>1, <2>2, <2>3
<1>4. same # {} => Min(same) \in DOMAIN vs /\ SameVariable(vs[Min(same)], v)
  <2>1. IsFiniteSet(DOMAIN vs)
    <3>1. DOMAIN vs = 1 .. Len(vs) /\ Len(vs) \in Int
      BY <1>1
    <3>2. \A m \in Int : IsFiniteSet(1 .. m)
      BY FS_Interval
    <3> QED
      BY <3>1, <3>2
  <2>2. same \subseteq DOMAIN vs /\ DOMAIN vs \subseteq Int
    BY <1>1
  <2>3. IsFiniteSet(same) /\ same \subseteq Int
    BY <2>1, <2>2, FS_Subset
  <2>4. same # {} => Min(same) \in same
    BY <2>3, MinSound
  <2> QED
    BY <2>4
<1>5. SameVariable(v, v)
  BY DEF SameVariable
<1> HIDE DEF vs, is, v, same, res
<1>6. CASE same = {}
  <2> DEFINE ws == Append(vs, v)
             js == Append(is, Len(vs))
  <2>1. /\ ws \in Seq(V) /\ Len(ws) = Len(vs) + 1
        /\ \A k \in 1 .. Len(vs) : ws[k] = vs[k]
        /\ ws[Len(vs) + 1] = v
    BY <1>1, <1>2
  <2>2. /\ js \in Seq(Nat) /\ Len(js) = n + 1
        /\ \A j \in 1 .. n : js[j] = is[j]
        /\ js[n + 1] = Len(vs)
    <3>1. Len(vs) \in Nat
      BY <1>1
    <3> QED
      BY <1>1, <3>1
  <2>3. res = [vars |-> ws, ids |-> js]
    BY <1>3, <1>6
  <2>4. Len(vs) \in Nat /\ Len(old) \in Nat
    BY <1>1
  <2>5. res \in [vars : Seq(V), ids : Seq(Nat)] /\ res.vars = ws /\ res.ids = js
    BY <2>1, <2>2, <2>3
  <2> HIDE DEF ws, js
  <2>6. Len(old) <= Len(ws) /\ \A k \in 1 .. Len(old) : ws[k] = old[k]
    BY <1>1, <2>1, <2>4
  <2>7. ASSUME NEW k \in DOMAIN ws
        PROVE  ws[k] \in ToSet(old) \cup ToSet(new)
    <3>1. k \in 1 .. Len(vs) \/ k = Len(vs) + 1
      BY <2>1, <2>4, <2>7
    <3>2. DOMAIN vs = 1 .. Len(vs)
      BY <1>1
    <3> QED
      BY <1>1, <1>2, <2>1, <3>1, <3>2
  <2>8. ASSUME NEW j \in 1 .. n + 1
        PROVE  js[j] \in 0 .. Len(ws) - 1 /\ SameVariable(ws[js[j] + 1], new[j])
    <3>1. CASE j = n + 1
      <4>1. js[j] = Len(vs) /\ ws[js[j] + 1] = v
        BY <2>1, <2>2, <3>1
      <4> QED
        BY <1>5, <2>1, <2>4, <3>1, <4>1 DEF v
    <3>2. CASE j \in 1 .. n
      <4>1. /\ js[j] = is[j] /\ is[j] \in 0 .. Len(vs) - 1
            /\ SameVariable(vs[is[j] + 1], new[j])
        BY <1>1, <2>2, <3>2
      <4> DEFINE k == is[j] + 1
      <4>2. k \in 1 .. Len(vs) /\ js[j] + 1 = k /\ SameVariable(vs[k], new[j])
        BY <2>4, <4>1
      <4>3. js[j] \in 0 .. Len(ws) - 1
        BY <2>1, <2>4, <4>1
      <4> HIDE DEF k
      <4>4. ws[k] = vs[k]
        BY <2>1, <4>2
      <4> QED
        BY <4>2, <4>3, <4>4
    <3> QED
      BY <3>1, <3>2
  <2> QED
    BY <2>2, <2>5, <2>6, <2>7, <2>8 DEF Placed, res, v
<1>7. CASE same # {}
  <2> DEFINE m == Min(same) - 1
             js == Append(is, m)
  <2>1. m \in 0 .. Len(vs) - 1 /\ m \in Nat /\ SameVariable(vs[m + 1], v)
    <3> DEFINE k == Min(same)
    <3>1. k \in 1 .. Len(vs) /\ SameVariable(vs[k], v) /\ Len(vs) \in Nat
      BY <1>1, <1>4, <1>7
    <3> HIDE DEF k
    <3>2. k - 1 \in 0 .. Len(vs) - 1 /\ k - 1 \in Nat /\ (k - 1) + 1 = k
      BY <3>1
    <3>3. SameVariable(vs[(k - 1) + 1], v)
      BY <3>1, <3>2
    <3> QED
      BY <3>2, <3>3 DEF k
  <2>2. res = [vars |-> vs, ids |-> js]
    BY <1>3, <1>7
  <2> HIDE DEF m
  <2>3. /\ js \in Seq(Nat) /\ Len(js) = n + 1
        /\ \A j \in 1 .. n : js[j] = is[j]
        /\ js[n + 1] = m
    <3>1. m \in Nat /\ is \in Seq(Nat) /\ Len(is) = n
      BY <1>1, <2>1
    <3> QED
      BY <3>1
  <2>4. res \in [vars : Seq(V), ids : Seq(Nat)] /\ res.vars = vs /\ res.ids = js
    BY <1>1, <2>2, <2>3
  <2> HIDE DEF js
  <2>5. ASSUME NEW j \in 1 .. n + 1
        PROVE  js[j] \in 0 .. Len(vs) - 1 /\ SameVariable(vs[js[j] + 1], new[j])
    <3>1. CASE j = n + 1
      <4>1. js[j] = m
        BY <2>3, <3>1
      <4> QED
        BY <2>1, <3>1, <4>1 DEF v
    <3>2. CASE j \in 1 .. n
      BY <1>1, <2>3, <3>2
    <3> QED
      BY <3>1, <3>2
  <2> QED
    BY <1>1, <2>3, <2>4, <2>5 DEF Placed, res, v
<1> QED
  BY <1>6, <1>7

\* What AddEntry returns for a table that is shared.
LEMMA AddVariablesPlace ==
  ASSUME NEW V, NEW old \in Seq(V), NEW new \in Seq(V)
  PROVE  Placed(AddVariables(old, new), V, old, new, Len(new))
<1>1. PICK acc : /\ AddVariables(old, new) = acc[Len(new)]
                 /\ AddsUpTo(acc, old, new, Len(new))
  BY AddVariablesLoop
<1> DEFINE B == {n \in 0 .. Len(new) : ~ Placed(acc[n], V, old, new, n)}
<1> SUFFICES ASSUME B # {} PROVE FALSE
  BY <1>1
<1>2. PICK n \in B : \A j \in B : n <= j
  <2>1. B \subseteq Nat
    OBVIOUS
  <2> HIDE DEF B
  <2> QED
    BY <2>1, LeastNatural
<1>3. n # 0
  <2>1. acc[0] = [vars |-> old, ids |-> <<>>]
    BY <1>1 DEF AddsUpTo
  <2>2. <<>> \in Seq(Nat) /\ Len(<<>>) = 0
    OBVIOUS
  <2>3. acc[0].vars = old /\ acc[0].ids = <<>>
    BY <2>1
  <2>4. acc[0] \in [vars : Seq(V), ids : Seq(Nat)]
    BY <2>1, <2>2
  <2>5. Placed(acc[0], V, old, new, 0)
    BY <2>2, <2>3, <2>4 DEF Placed, ToSet
  <2> QED
    BY <2>5
<1>4. n - 1 \in 0 .. Len(new) /\ ~ (n <= n - 1)
  BY <1>3
<1>5. Placed(acc[n - 1], V, old, new, n - 1)
  BY <1>2, <1>4
<1>6. acc[n] = AddVariable(acc[n - 1], new[n])
  BY <1>1, <1>3 DEF AddsUpTo
<1>7. n - 1 \in Nat /\ (n - 1) + 1 <= Len(new) /\ (n - 1) + 1 = n
  BY <1>3
<1>8. Placed(acc[n], V, old, new, n)
  <2> DEFINE m == n - 1
  <2>1. m \in Nat /\ m + 1 <= Len(new) /\ Placed(acc[m], V, old, new, m)
    BY <1>5, <1>7
  <2>2. m + 1 = n
    BY <1>7
  <2> HIDE DEF m
  <2>3. Placed(AddVariable(acc[m], new[m + 1]), V, old, new, m + 1)
    BY <2>1, AddVariablePlaces
  <2> QED
    BY <1>6, <2>2, <2>3 DEF m
<1> QED
  BY <1>8
=============================================================================
