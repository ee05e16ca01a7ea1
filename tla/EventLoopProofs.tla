-------------------------- MODULE EventLoopProofs --------------------------
(***************************************************************************)
(* The properties of EventLoop hold for all inputs, tasks, requests and    *)
(* events.  Up to Init the tables only grow: a column that AddEntry        *)
(* returned stays, and new ones come after it.  Init finds the Matching of *)
(* an entry and initialises its cuts, so that an event makes of its        *)
(* candidates, which are the combinations of channels that the Matchings   *)
(* have, just the rows the cuts accept.                                    *)
(***************************************************************************)
EXTENDS EventLoop, InOrderProofs

Cuts == CutObjects \cup {NoCut}

Ats == UNION {[N -> Nat] : N \in SUBSET Branches}

Terms == {Value(v, at) : v \in Variables, at \in Ats}

Rows == [at : Ats, values : Seq(Terms)]

Pairs == {<<>>} \cup (Branches \X Branches)

Entry ==
  [vars : Seq(Variables), cut : Cuts, names : SUBSET Branches, match : Pairs,
   inverted : BOOLEAN, rows : Seq(Rows)]

Task ==
  [kind : {"VarManager", "PlainTreeFiller"}, branch : Branches \cup {NoBranch},
   inBranches : SUBSET Branches, entries : Seq(Entry), cutsMap : TaskSettings,
   readers : SUBSET Branches, ready : SUBSET CutObjects, plain : Seq(Rows)]

(***************************************************************************)
(* The branches of an entry in order                                       *)
(***************************************************************************)
\* Sorted lists the names, each once.
LEMMA SortedSound ==
  ASSUME NEW names, names \subseteq Branches
  PROVE  /\ Sorted(names) \in Seq(Branches)
         /\ ToSet(Sorted(names)) = names
         /\ IsInjective(Sorted(names))
         /\ IsFiniteSet(names)
         /\ Cardinality(names) = Len(Sorted(names))
<1> DEFINE s == Sorted(names)
<1>1. s \in Seq(Branches) /\ IsInjective(s)
  BY ThoseSound, RequestsAssumption DEF Sorted
<1>2. ToSet(s) = names
  <2>1. ToSet(s) = ToSet(NameOrder) \cap names
    BY ThoseSound, RequestsAssumption DEF Sorted
  <2> QED
    BY <2>1 DEF Branches
<1>3. Len(s) \in Nat /\ DOMAIN s = 1 .. Len(s)
  BY <1>1
<1>4. IsFiniteSet(1 .. Len(s)) /\ Cardinality(1 .. Len(s)) = Len(s)
  <2> HIDE DEF s
  <2>1. Len(s) \in Nat
    BY <1>3
  <2>2. IsFiniteSet(1 .. Len(s)) /\ Cardinality(1 .. Len(s)) = Len(s) - 1 + 1
    BY <2>1, FS_Interval, 1 <= Len(s) \/ Len(s) = 0
  <2> QED
    BY <2>1, <2>2
<1>5. {s[i] : i \in 1 .. Len(s)} = names
  BY <1>2, <1>3 DEF ToSet
<1> HIDE DEF s
<1>6. /\ IsFiniteSet({s[i] : i \in 1 .. Len(s)})
      /\ Cardinality({s[i] : i \in 1 .. Len(s)}) = Cardinality(1 .. Len(s))
  BY <1>1, <1>3, <1>4, ImageCardinality
<1> QED
  BY <1>1, <1>2, <1>4, <1>5, <1>6 DEF s

\* The order of one and of two names.
LEMMA SortedForms ==
  ASSUME NEW names, names \subseteq Branches
  PROVE  /\ Cardinality(names) \in Nat
         /\ Cardinality(names) = 0 <=> names = {}
         /\ Len(Sorted(names)) = Cardinality(names)
         /\ Cardinality(names) = 1 =>
              \E b \in Branches : names = {b} /\ Sorted(names) = <<b>>
         /\ Cardinality(names) = 2 =>
              \E b, c \in Branches : b # c /\ names = {b, c} /\ Sorted(names) = <<b, c>>
<1> DEFINE s == Sorted(names)
<1>1. /\ s \in Seq(Branches) /\ ToSet(s) = names /\ IsInjective(s)
      /\ IsFiniteSet(names) /\ Cardinality(names) = Len(s)
  BY SortedSound
<1> HIDE DEF s
<1>2. Len(s) \in Nat /\ DOMAIN s = 1 .. Len(s) /\ \A i \in 1 .. Len(s) : s[i] \in Branches
  BY <1>1
<1>3. names = {s[i] : i \in 1 .. Len(s)}
  BY <1>1, <1>2 DEF ToSet
<1>4. Cardinality(names) = 0 <=> names = {}
  BY <1>1, FS_EmptySet
<1>5. ASSUME Len(s) = 1
      PROVE  \E b \in Branches : names = {b} /\ s = <<b>>
  <2>1. s = <<s[1]>> /\ s[1] \in Branches
    BY <1>1, <1>2, <1>5
  <2>2. names = {s[1]}
    BY <1>3, <1>5
  <2> QED
    BY <2>1, <2>2
<1>6. ASSUME Len(s) = 2
      PROVE  \E b, c \in Branches : b # c /\ names = {b, c} /\ s = <<b, c>>
  <2>1. s = <<s[1], s[2]>> /\ s[1] \in Branches /\ s[2] \in Branches
    BY <1>1, <1>2, <1>6
  <2>2. names = {s[1], s[2]}
    BY <1>3, <1>6
  <2>3. s[1] # s[2]
    BY <1>1, <1>2, <1>6 DEF IsInjective
  <2> QED
    BY <2>1, <2>2, <2>3
<1> QED
  BY <1>1, <1>2, <1>4, <1>5, <1>6 DEF s

(***************************************************************************)
(* The candidates of an entry                                              *)
(***************************************************************************)
\* The combinations of channels of an entry, before its cuts.
Combinations(e, ev) ==
  {at \in [e.names -> UNION {0 .. Channels(config, ev, b) - 1 : b \in e.names}] :
     /\ \A b \in e.names : at[b] < Channels(config, ev, b)
     /\ \A b, c \in e.names :
          b # c /\ ~IsHeader(config, b) /\ ~IsHeader(config, c)
            => <<at[b], at[c]>> \in Matched(ev, b, c)}

LEMMA ChannelsType ==
  ASSUME NEW ev \in Events, NEW b \in Branches
  PROVE  Channels(config, ev, b) \in Nat
BY EventsAssumption DEF Channels

LEMMA MatchedSymmetric ==
  ASSUME NEW ev, NEW b, NEW c, NEW i, NEW j, <<i, j>> \in Matched(ev, b, c)
  PROVE  <<j, i>> \in Matched(ev, c, b)
BY DEF Matched

LEMMA MatchedInRange ==
  ASSUME NEW ev \in Events, NEW b \in Branches, NEW c \in Branches, NEW i, NEW j,
         <<i, j>> \in Matched(ev, b, c)
  PROVE  i \in Nat /\ j \in Nat /\ i < ev.size[b] /\ j < ev.size[c]
<1>1. i \in 0 .. ev.size[b] - 1 /\ j \in 0 .. ev.size[c] - 1
  BY DEF Matched
<1>2. ev.size[b] \in Nat /\ ev.size[c] \in Nat
  BY EventsAssumption
<1> QED
  BY <1>1, <1>2

\* Every channel of the one branch.
LEMMA CombinationsOfOne ==
  ASSUME NEW ev \in Events, NEW e, NEW x \in Branches, e.names = {x}
  PROVE  Combinations(e, ev) = {at \in [{x} -> Nat] : at[x] < Channels(config, ev, x)}
<1> DEFINE U == UNION {0 .. Channels(config, ev, b) - 1 : b \in {x}}
           N == Channels(config, ev, x)
<1>1. N \in Nat /\ U = 0 .. N - 1
  BY ChannelsType
<1>2. Combinations(e, ev) = {at \in [{x} -> U] : at[x] < N}
  BY DEF Combinations
<1> HIDE DEF U, N
<1>3. ASSUME NEW at \in [{x} -> Nat], at[x] < N
      PROVE  at \in [{x} -> U]
  <2>1. at[x] \in U
    BY <1>1, <1>3
  <2> QED
    BY <2>1
<1>4. [{x} -> U] \subseteq [{x} -> Nat]
  BY <1>1
<1> QED
  BY <1>2, <1>3, <1>4 DEF N

\* The pairs of channels of two branches, matched unless one is an EventHeader.
PairCombinations(ev, x, y) ==
  {at \in [{x, y} -> Nat] :
     /\ at[x] < Channels(config, ev, x)
     /\ at[y] < Channels(config, ev, y)
     /\ ~IsHeader(config, x) /\ ~IsHeader(config, y)
          => <<at[x], at[y]>> \in Matched(ev, x, y)}

LEMMA CombinationsOfTwo ==
  ASSUME NEW ev \in Events, NEW e, NEW x \in Branches, NEW y \in Branches,
         x # y, e.names = {x, y}
  PROVE  Combinations(e, ev) = PairCombinations(ev, x, y)
<1> DEFINE U == UNION {0 .. Channels(config, ev, b) - 1 : b \in {x, y}}
           N(b) == Channels(config, ev, b)
           In(at) == /\ \A b \in {x, y} : at[b] < N(b)
                     /\ \A b, c \in {x, y} :
                          b # c /\ ~IsHeader(config, b) /\ ~IsHeader(config, c)
                            => <<at[b], at[c]>> \in Matched(ev, b, c)
           Is(at) == /\ at[x] < N(x)
                     /\ at[y] < N(y)
                     /\ ~IsHeader(config, x) /\ ~IsHeader(config, y)
                          => <<at[x], at[y]>> \in Matched(ev, x, y)
<1>1. N(x) \in Nat /\ N(y) \in Nat
  BY ChannelsType
<1>2. U = (0 .. N(x) - 1) \cup (0 .. N(y) - 1)
  OBVIOUS
<1>3. Combinations(e, ev) = {at \in [{x, y} -> U] : In(at)}
  BY DEF Combinations
<1>4. \A at : In(at) <=> Is(at)
  <2> SUFFICES ASSUME NEW at PROVE In(at) <=> Is(at)
    OBVIOUS
  <2>1. <<at[x], at[y]>> \in Matched(ev, x, y) => <<at[y], at[x]>> \in Matched(ev, y, x)
    BY MatchedSymmetric
  <2> QED
    BY <2>1, Zenon
<1> HIDE DEF In, U
<1>5. ASSUME NEW at \in [{x, y} -> Nat], Is(at)
      PROVE  at \in [{x, y} -> U]
  <2>1. at[x] \in U /\ at[y] \in U
    BY <1>1, <1>2, <1>5
  <2> QED
    BY <2>1
<1>6. [{x, y} -> U] \subseteq [{x, y} -> Nat]
  BY <1>1, <1>2
<1>7. Combinations(e, ev) = {at \in [{x, y} -> Nat] : Is(at)}
  <2> HIDE DEF Is
  <2> QED
    BY <1>3, <1>4, <1>5, <1>6
<1> QED
  BY <1>7 DEF PairCombinations

\* The candidates are sound when each combination is one of them, once.
CandidatesRight(e, ev, all) ==
  /\ all \in Seq([e.names -> Nat])
  /\ IsInjective(all)
  /\ ToSet(all) = Combinations(e, ev)

\* The list of the channels of one branch, and of those a map pairs up.
OneByOne(N, k) == [n \in 1 .. k |-> [b \in N |-> n - 1]]

PairByPair(N, x, m) ==
  [n \in DOMAIN Ascending(DOMAIN m) |->
     [b \in N |-> IF b = x THEN Ascending(DOMAIN m)[n] ELSE m[Ascending(DOMAIN m)[n]]]]

WithHeader(k) == [i \in 0 .. k - 1 |-> 0]

\* FillFromOneBranch.
LEMMA ChannelsSound ==
  ASSUME NEW ev \in Events, NEW e, NEW x \in Branches, e.names = {x}
  PROVE  CandidatesRight(e, ev, OneByOne(e.names, Channels(config, ev, x)))
<1> DEFINE N == Channels(config, ev, x)
           one(n) == [b \in {x} |-> n - 1]
           all == [n \in 1 .. N |-> one(n)]
<1>1. N \in Nat
  BY ChannelsType
<1>2. Combinations(e, ev) = {at \in [{x} -> Nat] : at[x] < N}
  BY CombinationsOfOne
<1> HIDE DEF N
<1>3. \A n \in 1 .. N : one(n) \in [{x} -> Nat] /\ one(n)[x] = n - 1
  BY <1>1
<1>4. ASSUME NEW at \in [{x} -> Nat], at[x] < N
      PROVE  \E n \in 1 .. N : at = one(n)
  <2>1. at[x] + 1 \in 1 .. N /\ (at[x] + 1) - 1 = at[x]
    BY <1>1, <1>4
  <2>2. at = one(at[x] + 1)
    BY <2>1
  <2> QED
    BY <2>1, <2>2
<1> HIDE DEF one
<1>5. all \in Seq([{x} -> Nat]) /\ DOMAIN all = 1 .. N
  BY <1>1, <1>3
<1>6. IsInjective(all)
  <2> SUFFICES ASSUME NEW i \in 1 .. N, NEW j \in 1 .. N, all[i] = all[j]
               PROVE  i = j
    BY DEF IsInjective
  <2>1. i - 1 = j - 1
    BY <1>3
  <2> QED
    BY <2>1
<1>7. ToSet(all) = Combinations(e, ev)
  <2>1. ToSet(all) = {one(n) : n \in 1 .. N}
    BY DEF ToSet
  <2>2. \A n \in 1 .. N : one(n)[x] < N
    BY <1>1, <1>3
  <2> QED
    BY <1>2, <1>3, <1>4, <2>1, <2>2
<1> HIDE DEF all
<1>8. CandidatesRight(e, ev, all)
  BY <1>5, <1>6, <1>7 DEF CandidatesRight
<1> QED
  BY <1>8 DEF all, one, N, OneByOne

HasPairs(R, m) == \A i, j : <<i, j>> \in R <=> i \in DOMAIN m /\ m[i] = j

\* FillFromTwoBranches over the pairs of a map.
LEMMA PairsSound ==
  ASSUME NEW ev \in Events, NEW e, NEW x \in Branches, NEW y \in Branches,
         x # y, e.names = {x, y}, NEW m, IsFiniteSet(DOMAIN m), DOMAIN m \subseteq Nat,
         \A i \in DOMAIN m : m[i] \in Nat,
         NEW R, HasPairs(R, m),
         Combinations(e, ev) = {at \in [{x, y} -> Nat] : <<at[x], at[y]>> \in R}
  PROVE  CandidatesRight(e, ev, PairByPair(e.names, x, m))
<1> DEFINE keys == Ascending(DOMAIN m)
           two(k) == [b \in {x, y} |-> IF b = x THEN k ELSE m[k]]
           all == [n \in DOMAIN keys |-> two(keys[n])]
<1>1. /\ DOMAIN keys = 1 .. Cardinality(DOMAIN m) /\ Cardinality(DOMAIN m) \in Nat
      /\ \A n \in DOMAIN keys : keys[n] \in DOMAIN m
      /\ \A k \in DOMAIN m : \E n \in DOMAIN keys : keys[n] = k
      /\ \A i, j \in DOMAIN keys : keys[i] = keys[j] => i = j
  <2>1. DOMAIN m \subseteq Int
    OBVIOUS
  <2> QED
    BY <2>1, AscendingSound DEF IsInjective
<1> HIDE DEF keys
<1>2. \A k \in DOMAIN m : two(k) \in [{x, y} -> Nat] /\ two(k)[x] = k /\ two(k)[y] = m[k]
  OBVIOUS
<1>3. ASSUME NEW at \in [{x, y} -> Nat], <<at[x], at[y]>> \in R
      PROVE  at[x] \in DOMAIN m /\ at = two(at[x])
  <2>1. at[x] \in DOMAIN m /\ m[at[x]] = at[y]
    BY <1>3 DEF HasPairs
  <2> QED
    BY <2>1
<1> HIDE DEF two
<1>4. \A k \in DOMAIN m : two(k) \in Combinations(e, ev)
  BY <1>2 DEF HasPairs
<1>5. all \in Seq([{x, y} -> Nat]) /\ DOMAIN all = DOMAIN keys
  <2>1. \A n \in DOMAIN keys : two(keys[n]) \in [{x, y} -> Nat]
    BY <1>1, <1>2
  <2>2. ASSUME NEW K \in Nat, DOMAIN keys = 1 .. K
        PROVE  all \in Seq([{x, y} -> Nat]) /\ DOMAIN all = DOMAIN keys
    <3> DEFINE S == [{x, y} -> Nat]
    <3>1. \A n \in 1 .. K : two(keys[n]) \in S
      BY <2>1, <2>2
    <3>2. all = [n \in 1 .. K |-> two(keys[n])]
      BY <2>2
    <3> HIDE DEF S, all
    <3>3. [n \in 1 .. K |-> two(keys[n])] \in Seq(S)
      BY <3>1
    <3>4. DOMAIN all = 1 .. K
      BY <3>2
    <3> QED
      BY <2>2, <3>2, <3>3, <3>4 DEF S
  <2> QED
    BY <1>1, <2>2
<1>6. IsInjective(all)
  <2> SUFFICES ASSUME NEW i \in DOMAIN keys, NEW j \in DOMAIN keys, all[i] = all[j]
               PROVE  i = j
    BY DEF IsInjective
  <2>1. keys[i] = keys[j]
    BY <1>1, <1>2
  <2> QED
    BY <1>1, <2>1
<1>7. ToSet(all) = Combinations(e, ev)
  <2>1. ToSet(all) = {two(k) : k \in DOMAIN m}
    BY <1>1 DEF ToSet
  <2>2. \A at \in Combinations(e, ev) : at[x] \in DOMAIN m /\ at = two(at[x])
    BY <1>3
  <2>3. \A at \in Combinations(e, ev) : \E k \in DOMAIN m : at = two(k)
    BY <2>2
  <2> HIDE DEF all
  <2>4. ToSet(all) \subseteq Combinations(e, ev)
    BY <1>4, <2>1
  <2>5. Combinations(e, ev) \subseteq ToSet(all)
    BY <2>1, <2>3
  <2> QED
    BY <2>4, <2>5
<1> HIDE DEF all
<1>8. CandidatesRight(e, ev, all)
  BY <1>5, <1>6, <1>7 DEF CandidatesRight
<1> QED
  BY <1>8 DEF all, two, keys, PairByPair

\* Every channel with the one of an EventHeader.
LEMMA HeaderSound ==
  ASSUME NEW ev \in Events, NEW e, NEW x \in Branches, NEW y \in Branches,
         x # y, e.names = {x, y}, IsHeader(config, y)
  PROVE  CandidatesRight(e, ev,
           PairByPair(e.names, x, WithHeader(Channels(config, ev, x))))
<1> DEFINE N == Channels(config, ev, x)
           R == (0 .. N - 1) \X {0}
           m == WithHeader(N)
<1>1. N \in Nat /\ Channels(config, ev, y) = 1
  BY ChannelsType DEF Channels
<1>2. m = [i \in 0 .. N - 1 |-> 0]
  BY DEF WithHeader
<1>3. Combinations(e, ev) =
        {at \in [{x, y} -> Nat] :
           /\ at[x] < N
           /\ at[y] < 1
           /\ ~IsHeader(config, x) /\ ~IsHeader(config, y)
                => <<at[x], at[y]>> \in Matched(ev, x, y)}
  <2>1. Combinations(e, ev) = PairCombinations(ev, x, y)
    BY CombinationsOfTwo
  <2> QED
    BY <1>1, <2>1 DEF PairCombinations
<1> HIDE DEF N, m
<1>4. Combinations(e, ev) = {at \in [{x, y} -> Nat] : <<at[x], at[y]>> \in R}
  <2>1. \A at \in [{x, y} -> Nat] : at[x] < N /\ at[y] < 1 <=> <<at[x], at[y]>> \in R
    BY <1>1
  <2> QED
    BY <1>3, <2>1
<1>5. HasPairs(R, m)
  BY <1>2 DEF HasPairs
<1>6. IsFiniteSet(DOMAIN m) /\ DOMAIN m \subseteq Nat /\ \A i \in DOMAIN m : m[i] \in Nat
  <2>1. IsFiniteSet(0 .. N - 1)
    BY <1>1, FS_Interval
  <2> QED
    BY <1>1, <1>2, <2>1
<1> HIDE DEF R
<1>7. CandidatesRight(e, ev, PairByPair(e.names, x, m))
  BY <1>4, <1>5, <1>6, PairsSound
<1> QED
  BY <1>7 DEF m, N

\* What is read of a Matching is the matched channels of the branches asked for.
LEMMA GetMatchesSound ==
  ASSUME NEW ev \in Events, NEW x, NEW y, DOMAIN config.index \subseteq DOMAIN ev.matching,
         {<<x, y>>, <<y, x>>} \cap DOMAIN config.index # {},
         NEW m, m = GetMatches(ev.matching[MatchInfo(config, x, y).match],
                               MatchInfo(config, x, y).inverted)
  PROVE  {<<i, m[i]>> : i \in DOMAIN m} = Matched(ev, x, y)
<1>1. CASE <<x, y>> \in DOMAIN config.index
  <2> DEFINE p == <<x, y>>
  <2>1. p \in DOMAIN ev.matching /\ m = ev.matching[p].direct
    BY <1>1 DEF MatchInfo, GetMatches
  <2>2. p[1] = x /\ p[2] = y
    OBVIOUS
  <2> HIDE DEF p
  <2>3. {<<i, ev.matching[p].direct[i]>> : i \in DOMAIN ev.matching[p].direct}
          = Matched(ev, p[1], p[2])
    BY <2>1, EventsAssumption
  <2> QED
    BY <2>1, <2>2, <2>3
<1>2. CASE <<x, y>> \notin DOMAIN config.index
  <2> DEFINE p == <<y, x>>
  <2>1. p \in DOMAIN ev.matching /\ m = ev.matching[p].inverted
    BY <1>2 DEF MatchInfo, GetMatches
  <2>2. p[1] = y /\ p[2] = x
    OBVIOUS
  <2> HIDE DEF p
  <2>3. {<<j, ev.matching[p].inverted[j]>> : j \in DOMAIN ev.matching[p].inverted}
          = Matched(ev, p[2], p[1])
    BY <2>1, EventsAssumption
  <2> QED
    BY <2>1, <2>2, <2>3
<1> QED
  BY <1>1, <1>2

\* Every matched pair.
LEMMA MatchesSound ==
  ASSUME NEW ev \in Events, NEW e, NEW x \in Branches, NEW y \in Branches,
         x # y, e.names = {x, y}, ~IsHeader(config, x), ~IsHeader(config, y),
         DOMAIN config.index \subseteq DOMAIN ev.matching,
         {<<x, y>>, <<y, x>>} \cap DOMAIN config.index # {},
         NEW m, m = GetMatches(ev.matching[MatchInfo(config, x, y).match],
                               MatchInfo(config, x, y).inverted)
  PROVE  CandidatesRight(e, ev, PairByPair(e.names, x, m))
<1> DEFINE R == Matched(ev, x, y)
<1>1. {<<i, m[i]>> : i \in DOMAIN m} = R
  BY GetMatchesSound
<1>2. /\ Channels(config, ev, x) = ev.size[x] /\ ev.size[x] \in Nat
      /\ Channels(config, ev, y) = ev.size[y] /\ ev.size[y] \in Nat
  BY EventsAssumption DEF Channels
<1>3. \A i, j : <<i, j>> \in R => i \in Nat /\ j \in Nat /\ i < ev.size[x] /\ j < ev.size[y]
  BY MatchedInRange
<1>4. Combinations(e, ev) =
        {at \in [{x, y} -> Nat] :
           /\ at[x] < Channels(config, ev, x)
           /\ at[y] < Channels(config, ev, y)
           /\ ~IsHeader(config, x) /\ ~IsHeader(config, y)
                => <<at[x], at[y]>> \in R}
  <2>1. Combinations(e, ev) = PairCombinations(ev, x, y)
    BY CombinationsOfTwo
  <2> QED
    BY <2>1 DEF PairCombinations
<1> HIDE DEF R
<1>5. Combinations(e, ev) = {at \in [{x, y} -> Nat] : <<at[x], at[y]>> \in R}
  BY <1>2, <1>3, <1>4
<1>6. HasPairs(R, m)
  <2> SUFFICES ASSUME NEW i, NEW j
               PROVE  <<i, j>> \in R <=> i \in DOMAIN m /\ m[i] = j
    BY DEF HasPairs
  <2>1. ASSUME <<i, j>> \in R PROVE i \in DOMAIN m /\ m[i] = j
    <3>1. PICK k \in DOMAIN m : <<i, j>> = <<k, m[k]>>
      BY <1>1, <2>1
    <3> QED
      BY <3>1
  <2>2. ASSUME i \in DOMAIN m, m[i] = j PROVE <<i, j>> \in R
    BY <1>1, <2>2
  <2> QED
    BY <2>1, <2>2
<1>7. ASSUME NEW i \in DOMAIN m
      PROVE  i \in 0 .. ev.size[x] - 1 /\ m[i] \in Nat
  <2>1. <<i, m[i]>> \in R
    BY <1>1
  <2>2. i \in Nat /\ i < ev.size[x] /\ m[i] \in Nat
    BY <1>3, <2>1
  <2> QED
    BY <1>2, <2>2
<1>8. IsFiniteSet(DOMAIN m)
  <2>1. IsFiniteSet(0 .. ev.size[x] - 1)
    BY <1>2, FS_Interval
  <2>2. DOMAIN m \subseteq 0 .. ev.size[x] - 1
    BY <1>7
  <2> QED
    BY <2>1, <2>2, FS_Subset
<1>9. DOMAIN m \subseteq Nat /\ \A i \in DOMAIN m : m[i] \in Nat
  BY <1>7
<1> QED
  BY <1>5, <1>6, <1>8, <1>9, PairsSound

\* The entry has the Matching that Init looked up.
BoundTo(c, e) ==
  NeedsMatching(c, e) =>
    LET own  == Sorted(e.names)
        info == MatchInfo(c, own[1], own[2])
    IN /\ HasMatching(c, e)
       /\ e.match = info.match /\ e.inverted = info.inverted

\* Candidates finds every combination, over one branch and over two.
LEMMA CandidatesSound ==
  ASSUME NEW ev \in Events, DOMAIN config.index \subseteq DOMAIN ev.matching,
         NEW e, e.names \subseteq Branches, e.names # {}, Cardinality(e.names) <= 2,
         BoundTo(config, e)
  PROVE  CandidatesRight(e, ev, Candidates(config, ev, e))
<1> DEFINE m == Matches(config, ev, e)
           own == Ordered(config, e)
           s == Sorted(e.names)
<1>1. Candidates(config, ev, e) =
        IF Len(own) = 1 THEN OneByOne(e.names, Channels(config, ev, own[1]))
        ELSE PairByPair(e.names, own[1], m)
  BY DEF Candidates, OneByOne, PairByPair
<1>2. own = IF Len(s) = 2 /\ IsHeader(config, s[1]) THEN <<s[2], s[1]>> ELSE s
  BY DEF Ordered
<1>3. m = IF IsHeader(config, own[2]) THEN WithHeader(Channels(config, ev, own[1]))
          ELSE GetMatches(ev.matching[e.match], e.inverted)
  BY DEF Matches, WithHeader
<1>4. NeedsMatching(config, e) <=>
        Len(s) > 1 /\ ~IsHeader(config, s[1]) /\ ~IsHeader(config, s[2])
  BY DEF NeedsMatching
<1>5. NeedsMatching(config, e) =>
        /\ {<<s[1], s[2]>>, <<s[2], s[1]>>} \cap DOMAIN config.index # {}
        /\ e.match = MatchInfo(config, s[1], s[2]).match
        /\ e.inverted = MatchInfo(config, s[1], s[2]).inverted
  BY DEF BoundTo, HasMatching
<1> HIDE DEF m, own, s
<1>7. CASE Cardinality(e.names) = 1
  <2>1. PICK b \in Branches : e.names = {b} /\ s = <<b>>
    BY <1>7, SortedForms DEF s
  <2>2. own = <<b>>
    BY <1>2, <2>1
  <2>3. Candidates(config, ev, e) =
          OneByOne(e.names, Channels(config, ev, b))
    BY <1>1, <2>2
  <2> QED
    BY <2>1, <2>3, ChannelsSound
<1>8. CASE Cardinality(e.names) = 2
  <2>1. PICK b, c \in Branches : b # c /\ e.names = {b, c} /\ s = <<b, c>>
    BY <1>8, SortedForms DEF s
  <2>2. Len(s) = 2 /\ s[1] = b /\ s[2] = c
    BY <2>1
  <2>3. CASE IsHeader(config, b)
    <3>1. own = <<c, b>>
      BY <1>2, <2>2, <2>3
    <3>2. Len(own) # 1 /\ own[1] = c /\ own[2] = b
      BY <3>1
    <3>3. m = WithHeader(Channels(config, ev, c))
      BY <1>3, <2>3, <3>2
    <3>4. Candidates(config, ev, e) = PairByPair(e.names, c, m)
      BY <1>1, <3>2
    <3>5. e.names = {c, b} /\ c # b
      BY <2>1
    <3> QED
      BY <2>3, <3>3, <3>4, <3>5, HeaderSound
  <2>4. CASE ~IsHeader(config, b)
    <3>1. own = <<b, c>>
      BY <1>2, <2>1, <2>2, <2>4
    <3>2. Len(own) # 1 /\ own[1] = b /\ own[2] = c
      BY <3>1
    <3>3. Candidates(config, ev, e) = PairByPair(e.names, b, m)
      BY <1>1, <3>2
    <3>4. CASE IsHeader(config, c)
      <4>1. m = WithHeader(Channels(config, ev, b))
        BY <1>3, <3>2, <3>4
      <4> QED
        BY <2>1, <3>3, <3>4, <4>1, HeaderSound
    <3>5. CASE ~IsHeader(config, c)
      <4>1. NeedsMatching(config, e)
        BY <1>4, <2>2, <2>4, <3>5
      <4>2. /\ {<<b, c>>, <<c, b>>} \cap DOMAIN config.index # {}
            /\ e.match = MatchInfo(config, b, c).match
            /\ e.inverted = MatchInfo(config, b, c).inverted
        BY <1>5, <2>2, <4>1
      <4>3. m = GetMatches(ev.matching[MatchInfo(config, b, c).match],
                           MatchInfo(config, b, c).inverted)
        BY <1>3, <3>2, <3>5, <4>2
      <4>4. {<<b, c>>, <<c, b>>} \cap DOMAIN config.index # {}
        BY <4>2
      <4>5. CandidatesRight(e, ev, PairByPair(e.names, b, m))
        BY <2>1, <2>4, <3>5, <4>3, <4>4, MatchesSound, Zenon
      <4> QED
        BY <3>3, <4>5
    <3> QED
      BY <3>4, <3>5
  <2> QED
    BY <2>3, <2>4
<1> QED
  <2>1. Cardinality(e.names) \in Nat /\ Cardinality(e.names) # 0
    BY SortedForms
  <2> QED
    BY <1>7, <1>8, <2>1

(***************************************************************************)
(* What becomes of a candidate                                             *)
(***************************************************************************)
\* Ordered has the branches of the entry.
LEMMA OrderedSound ==
  ASSUME NEW e, e.names \subseteq Branches
  PROVE  Ordered(config, e) \in Seq(Branches) /\ ToSet(Ordered(config, e)) = e.names
<1> DEFINE s == Sorted(e.names)
<1>1. s \in Seq(Branches) /\ ToSet(s) = e.names
  BY SortedSound
<1>2. Ordered(config, e) = IF Len(s) = 2 /\ IsHeader(config, s[1]) THEN <<s[2], s[1]>> ELSE s
  BY DEF Ordered
<1> HIDE DEF s
<1>3. ASSUME Len(s) = 2
      PROVE  <<s[2], s[1]>> \in Seq(Branches) /\ ToSet(<<s[2], s[1]>>) = e.names
  <2>1. s[1] \in Branches /\ s[2] \in Branches /\ DOMAIN s = {1, 2}
    BY <1>1, <1>3
  <2>2. e.names = {s[1], s[2]}
    BY <1>1, <2>1 DEF ToSet
  <2>3. ToSet(<<s[2], s[1]>>) = {s[2], s[1]}
    <3>1. DOMAIN <<s[2], s[1]>> = {1, 2}
      OBVIOUS
    <3> QED
      BY <3>1 DEF ToSet
  <2> QED
    BY <2>1, <2>2, <2>3
<1> QED
  BY <1>1, <1>2, <1>3

BranchOutcome(t, ev, at, b) == CutOutcome(t, t.cutsMap[b], ev, at, {})

OwnOutcome(t, e, ev, at) == CutOutcome(t, e.cut, ev, at, Lost(config, e))

\* The outcomes of its cuts decide on a candidate.
LEMMA RowOutcomeSound ==
  ASSUME NEW t, NEW e, NEW ev, NEW at, e.names \subseteq Branches
  PROVE  LET out == RowOutcome(t, config, ev, e, at)
         IN /\ out \in {"pass", "skip", "throw"}
            /\ out = "pass" => /\ OwnOutcome(t, e, ev, at) = "pass"
                               /\ \A b \in BranchesCut(t, e) : BranchOutcome(t, ev, at, b) = "pass"
            /\ out \in {"skip", "throw"} =>
                 \/ OwnOutcome(t, e, ev, at) = out
                 \/ \E b \in BranchesCut(t, e) : BranchOutcome(t, ev, at, b) = out
                 \/ out = "throw" /\ Lost(config, e) # {}
<1> DEFINE Outs == {"pass", "skip", "throw"}
           N == BranchesCut(t, e)
           own == Those(Ordered(config, e), N)
           f == [n \in DOMAIN own |-> BranchOutcome(t, ev, at, own[n])]
           last == OwnOutcome(t, e, ev, at)
           outs == Append(f, last)
           bad == Those(outs, {"skip", "throw"})
           out == RowOutcome(t, config, ev, e, at)
           lost == Lost(config, e)
           broken == \E v \in ToSet(e.vars) : v.branches \cap lost # {}
<1>1. \A c, l : CutOutcome(t, c, ev, at, l) \in Outs
  BY DEF CutOutcome
<1>2. out = IF bad # <<>> THEN bad[1] ELSE IF broken THEN "throw" ELSE "pass"
  BY DEF RowOutcome, BranchOutcome, OwnOutcome
<1>3. own \in Seq(Branches) /\ ToSet(own) = N
  <2>1. Ordered(config, e) \in Seq(Branches) /\ ToSet(Ordered(config, e)) = e.names
    BY OrderedSound
  <2>2. own \in Seq(Branches) /\ ToSet(own) = ToSet(Ordered(config, e)) \cap N
    BY <2>1, ThoseSound
  <2>3. N \subseteq e.names
    BY DEF BranchesCut
  <2> QED
    BY <2>1, <2>2, <2>3
<1>4. broken => lost # {}
  OBVIOUS
<1>5. /\ \A b : BranchOutcome(t, ev, at, b) \in Outs
      /\ last \in Outs
  BY <1>1 DEF BranchOutcome, OwnOutcome
<1> HIDE DEF own, Outs, broken, N, out, lost
<1>6. f \in Seq(Outs) /\ DOMAIN f = DOMAIN own /\ Len(f) = Len(own) /\ Len(own) \in Nat
  BY <1>3, <1>5
<1>7. \A n \in DOMAIN own : f[n] = BranchOutcome(t, ev, at, own[n])
  OBVIOUS
<1> HIDE DEF f, last
<1>8. /\ outs \in Seq(Outs) /\ Len(outs) = Len(own) + 1
      /\ \A n \in 1 .. Len(own) : outs[n] = f[n]
      /\ outs[Len(own) + 1] = last
  BY <1>5, <1>6
<1> HIDE DEF outs
<1>9. ToSet(outs) = {last} \cup {BranchOutcome(t, ev, at, b) : b \in N}
  <2>1. DOMAIN own = 1 .. Len(own) /\ Len(own) \in Nat /\ DOMAIN outs = 1 .. Len(own) + 1
    BY <1>3, <1>8
  <2>2. ASSUME NEW x \in ToSet(outs)
        PROVE  x = last \/ \E b \in N : x = BranchOutcome(t, ev, at, b)
    <3>1. PICK n \in DOMAIN outs : x = outs[n]
      BY <2>2 DEF ToSet
    <3>2. CASE n = Len(own) + 1
      BY <1>8, <3>1, <3>2
    <3>3. CASE n # Len(own) + 1
      <4>1. n \in DOMAIN own
        BY <2>1, <3>1, <3>3
      <4>2. own[n] \in N
        BY <1>3, <4>1 DEF ToSet
      <4>3. x = BranchOutcome(t, ev, at, own[n])
        BY <1>7, <1>8, <2>1, <3>1, <4>1
      <4> QED
        BY <4>2, <4>3
    <3> QED
      BY <3>2, <3>3
  <2>3. last \in ToSet(outs)
    <3>1. Len(own) + 1 \in DOMAIN outs
      BY <2>1
    <3> QED
      BY <1>8, <3>1 DEF ToSet
  <2>4. ASSUME NEW b \in N
        PROVE  BranchOutcome(t, ev, at, b) \in ToSet(outs)
    <3>1. PICK n \in DOMAIN own : own[n] = b
      BY <1>3 DEF ToSet
    <3>2. n \in DOMAIN outs /\ outs[n] = BranchOutcome(t, ev, at, b)
      BY <1>7, <1>8, <2>1, <3>1
    <3> QED
      BY <3>2 DEF ToSet
  <2> QED
    BY <2>2, <2>3, <2>4
<1>10. bad \in Seq(Outs) /\ ToSet(bad) = ToSet(outs) \cap {"skip", "throw"}
  BY <1>8, ThoseSound
<1> HIDE DEF bad
<1>11. CASE bad = <<>>
  <2>1. ToSet(bad) = {}
    BY <1>11 DEF ToSet
  <2>2. last = "pass" /\ \A b \in N : BranchOutcome(t, ev, at, b) = "pass"
    BY <1>5, <1>9, <1>10, <2>1 DEF Outs
  <2>3. out = IF broken THEN "throw" ELSE "pass"
    BY <1>2, <1>11
  <2> QED
    BY <1>4, <2>2, <2>3 DEF out, N, last, lost
<1>12. CASE bad # <<>>
  <2>1. 1 \in DOMAIN bad
    BY <1>10, <1>12
  <2>2. bad[1] \in ToSet(bad)
    BY <2>1 DEF ToSet
  <2>3. /\ bad[1] \in {"skip", "throw"}
        /\ last = bad[1] \/ \E b \in N : BranchOutcome(t, ev, at, b) = bad[1]
    BY <1>9, <1>10, <2>2
  <2>4. out = bad[1]
    BY <1>2, <1>12
  <2> QED
    BY <2>3, <2>4 DEF out, N, last, lost
<1> QED
  BY <1>11, <1>12

\* The cuts on the rows of an entry accept these channels.
Selected(t, e, ev, at) == \A c \in CutsOn(t, e) : Passes(c, ev, at)

\* What does not throw becomes a row just when the cuts accept it.
LEMMA RowsSelected ==
  ASSUME NEW t \in Task, NEW e, NEW ev, NEW at, e.names \subseteq Branches,
         RowOutcome(t, config, ev, e, at) # "throw"
  PROVE  RowOutcome(t, config, ev, e, at) = "pass" <=> Selected(t, e, ev, at)
<1> DEFINE out == RowOutcome(t, config, ev, e, at)
<1>1. \A b \in BranchesCut(t, e) : t.cutsMap[b] \in CutObjects
  <2>1. t.cutsMap \in TaskSettings
    BY DEF Task
  <2>2. BranchesCut(t, e) \subseteq DOMAIN t.cutsMap
    BY DEF BranchesCut
  <2> QED
    BY <2>1, <2>2, RequestsAssumption
<1>2. CutsOn(t, e) = ({e.cut} \ {NoCut}) \cup {t.cutsMap[b] : b \in BranchesCut(t, e)}
  BY DEF CutsOn, BranchesCut
<1>3. \A c, l : /\ CutOutcome(t, c, ev, at, l) = "pass" => c = NoCut \/ Passes(c, ev, at)
                /\ CutOutcome(t, c, ev, at, l) = "skip" => c # NoCut /\ ~ Passes(c, ev, at)
  BY DEF CutOutcome
<1>4. /\ out \in {"pass", "skip", "throw"}
      /\ out = "pass" => /\ OwnOutcome(t, e, ev, at) = "pass"
                         /\ \A b \in BranchesCut(t, e) : BranchOutcome(t, ev, at, b) = "pass"
      /\ out = "skip" =>
           \/ OwnOutcome(t, e, ev, at) = out
           \/ \E b \in BranchesCut(t, e) : BranchOutcome(t, ev, at, b) = out
  BY RowOutcomeSound
<1> HIDE DEF out
<1>5. ASSUME out = "pass"
      PROVE  Selected(t, e, ev, at)
  <2>1. e.cut = NoCut \/ Passes(e.cut, ev, at)
    BY <1>3, <1>4, <1>5 DEF OwnOutcome
  <2>2. \A b \in BranchesCut(t, e) : t.cutsMap[b] = NoCut \/ Passes(t.cutsMap[b], ev, at)
    BY <1>3, <1>4, <1>5 DEF BranchOutcome
  <2>3. \A b \in BranchesCut(t, e) : t.cutsMap[b] # NoCut
    BY <1>1, RequestsAssumption
  <2> QED
    BY <1>2, <2>1, <2>2, <2>3 DEF Selected
<1>6. ASSUME out = "skip"
      PROVE  ~ Selected(t, e, ev, at)
  <2>1. CASE OwnOutcome(t, e, ev, at) = out
    <3>1. e.cut # NoCut /\ ~ Passes(e.cut, ev, at)
      BY <1>3, <1>6, <2>1 DEF OwnOutcome
    <3> QED
      BY <1>2, <3>1 DEF Selected
  <2>2. CASE \E b \in BranchesCut(t, e) : BranchOutcome(t, ev, at, b) = out
    <3>1. PICK b \in BranchesCut(t, e) : BranchOutcome(t, ev, at, b) = out
      BY <2>2
    <3>2. ~ Passes(t.cutsMap[b], ev, at)
      BY <1>3, <1>6, <3>1 DEF BranchOutcome
    <3> QED
      BY <1>2, <3>1, <3>2 DEF Selected
  <2> QED
    BY <1>4, <1>6, <2>1, <2>2
<1> QED
  BY <1>4, <1>5, <1>6 DEF out

\* With all its cuts initialised, a candidate only throws over two branches of
\* which one has an id that a short loses.
LEMMA ReadyOutcome ==
  ASSUME NEW t, NEW e, NEW ev, NEW at, e.names \subseteq Branches,
         e.cut \in t.ready \cup {NoCut},
         \A b \in e.names \cap DOMAIN t.cutsMap : t.cutsMap[b] \in t.ready,
         RowOutcome(t, config, ev, e, at) = "throw"
  PROVE  Cardinality(e.names) = 2 /\ \E b \in e.names : ~IdSurvives(config, b)
<1>1. \A c, l : c \in t.ready \cup {NoCut} /\ l = {} =>
                  CutOutcome(t, c, ev, at, l) # "throw"
  BY DEF CutOutcome
<1>2. \A b \in BranchesCut(t, e) : BranchOutcome(t, ev, at, b) # "throw"
  <2>1. BranchesCut(t, e) \subseteq e.names \cap DOMAIN t.cutsMap
    BY DEF BranchesCut
  <2> QED
    BY <1>1, <2>1 DEF BranchOutcome
<1>3. Lost(config, e) = {} => OwnOutcome(t, e, ev, at) # "throw"
  BY <1>1 DEF OwnOutcome
<1>4. \/ OwnOutcome(t, e, ev, at) = "throw"
      \/ \E b \in BranchesCut(t, e) : BranchOutcome(t, ev, at, b) = "throw"
      \/ Lost(config, e) # {}
  BY RowOutcomeSound
<1>5. Lost(config, e) # {}
  BY <1>2, <1>3, <1>4
<1> QED
  BY <1>5 DEF Lost

(***************************************************************************)
(* What Exec makes of a table and of a task                                *)
(***************************************************************************)
\* Every row is what the entry's variables are in the channels of the row.
RowsEvaluated(e) == \A n \in DOMAIN e.rows : e.rows[n] = Row(e, e.rows[n].at)

\* RowsExact of one table.
RowsRight(c, t, e, ev) ==
  /\ RowsOf(e) = Expected(c, t, e, ev)
  /\ Len(e.rows) = Cardinality(RowsOf(e))
  /\ IsFiniteSet(RowsOf(e))

LEMMA ExpectedSelected ==
  ASSUME NEW t, NEW e, NEW ev
  PROVE  Expected(config, t, e, ev) = {at \in Combinations(e, ev) : Selected(t, e, ev, at)}
BY DEF Expected, Combinations, Selected

\* A row has the types of one.
LEMMA RowType ==
  ASSUME NEW e \in Entry, NEW at \in Ats
  PROVE  /\ Row(e, at) \in Rows
         /\ Row(e, at).at = at
         /\ Len(Row(e, at).values) = Len(e.vars)
<1> DEFINE vals == [i \in DOMAIN e.vars |-> Value(e.vars[i], at)]
<1>1. e.vars \in Seq(Variables)
  BY DEF Entry
<1>2. \A v \in Variables : Value(v, at) \in Terms
  BY DEF Terms
<1>3. vals \in Seq(Terms) /\ Len(vals) = Len(e.vars)
  <2>1. DOMAIN e.vars = 1 .. Len(e.vars) /\ Len(e.vars) \in Nat
    BY <1>1
  <2>2. \A i \in 1 .. Len(e.vars) : Value(e.vars[i], at) \in Terms
    BY <1>1, <1>2
  <2> QED
    BY <2>1, <2>2
<1>4. Row(e, at) = [at |-> at, values |-> vals]
  BY DEF Row
<1> HIDE DEF vals
<1> QED
  BY <1>3, <1>4 DEF Rows

\* FillValues, when nothing throws.
LEMMA FillValuesSound ==
  ASSUME NEW t \in Task, NEW ev \in Events, DOMAIN config.index \subseteq DOMAIN ev.matching,
         NEW e \in Entry, e.names # {}, BoundTo(config, e), ~ Throws(t, config, ev, e)
  PROVE  LET f == FillValues(t, config, ev, e)
         IN /\ f \in Entry
            /\ f = [e EXCEPT !.rows = f.rows]
            /\ RowsEvaluated(f)
            /\ RowsRight(config, t, f, ev)
<1> DEFINE all == Candidates(config, ev, e)
           T == {at \in ToSet(all) : RowOutcome(t, config, ev, e, at) = "pass"}
           passing == Those(all, T)
           rows == [n \in DOMAIN passing |-> Row(e, passing[n])]
           f == FillValues(t, config, ev, e)
<1>1. e.names \subseteq Branches
  BY DEF Entry
<1>2. /\ all \in Seq([e.names -> Nat])
      /\ IsInjective(all)
      /\ ToSet(all) = Combinations(e, ev)
  <2>1. Cardinality(e.names) <= 2
    <3>1. Cardinality(e.names) \in Nat /\ ~ (Cardinality(e.names) > 2)
      BY <1>1, SortedForms DEF Throws
    <3> QED
      BY <3>1
  <2> QED
    BY <1>1, <2>1, CandidatesSound DEF CandidatesRight
<1>3. \A at \in ToSet(all) : RowOutcome(t, config, ev, e, at) # "throw"
  BY DEF Throws
<1>4. f = [e EXCEPT !.rows = rows]
  BY DEF FillValues
<1> HIDE DEF all
<1>5. /\ passing \in Seq([e.names -> Nat]) /\ IsInjective(passing)
      /\ ToSet(passing) = ToSet(all) \cap T
  BY <1>2, ThoseSound
<1>6. ToSet(passing) = T
  BY <1>5
<1>7. T = Expected(config, t, e, ev)
  <2>1. \A at \in ToSet(all) :
          RowOutcome(t, config, ev, e, at) = "pass" <=> Selected(t, e, ev, at)
    BY <1>1, <1>3, RowsSelected
  <2> QED
    BY <1>2, <2>1, ExpectedSelected
<1> HIDE DEF T, passing
<1>8. \A at \in [e.names -> Nat] : at \in Ats
  BY <1>1 DEF Ats
<1>9. /\ DOMAIN rows = 1 .. Len(passing) /\ Len(passing) \in Nat
      /\ DOMAIN passing = 1 .. Len(passing)
      /\ \A n \in DOMAIN rows : passing[n] \in [e.names -> Nat]
  BY <1>5
<1>10. \A n \in DOMAIN rows : /\ rows[n] = Row(e, passing[n]) /\ rows[n] \in Rows
                              /\ rows[n].at = passing[n]
  <2> SUFFICES ASSUME NEW n \in DOMAIN rows
               PROVE  rows[n] \in Rows /\ rows[n].at = passing[n]
    OBVIOUS
  <2>1. passing[n] \in Ats
    BY <1>8, <1>9
  <2> QED
    BY <2>1, RowType
<1> HIDE DEF rows, f
<1>11. rows \in Seq(Rows) /\ Len(rows) = Len(passing)
  <2>1. \A n \in 1 .. Len(passing) : rows[n] \in Rows
    BY <1>9, <1>10
  <2>2. rows = [n \in 1 .. Len(passing) |-> rows[n]]
    BY <1>9 DEF rows
  <2> QED
    BY <1>9, <2>1, <2>2
<1>12. /\ f \in Entry /\ f.rows = rows /\ f = [e EXCEPT !.rows = f.rows]
       /\ f.names = e.names /\ f.cut = e.cut /\ f.vars = e.vars
  BY <1>4, <1>11 DEF Entry
<1>13. RowsEvaluated(f)
  <2>1. \A at : Row(f, at) = Row(e, at)
    BY <1>12 DEF Row
  <2> QED
    BY <1>10, <1>12, <2>1 DEF RowsEvaluated
<1>14. RowsOf(f) = T
  <2>1. RowsOf(f) = {rows[n].at : n \in DOMAIN rows}
    BY <1>12 DEF RowsOf
  <2>2. {rows[n].at : n \in DOMAIN rows} = {passing[n] : n \in DOMAIN passing}
    BY <1>9, <1>10
  <2> QED
    BY <1>6, <2>1, <2>2 DEF ToSet
<1>15. IsFiniteSet(RowsOf(f)) /\ Cardinality(RowsOf(f)) = Len(f.rows)
  <2> DEFINE n0 == Len(passing)
  <2>1. n0 \in Nat /\ DOMAIN passing = 1 .. n0 /\ IsInjective(passing)
    BY <1>5, <1>9
  <2>2. RowsOf(f) = {passing[n] : n \in 1 .. n0}
    BY <1>6, <1>9, <1>14 DEF ToSet
  <2>3. Len(f.rows) = n0
    BY <1>11, <1>12
  <2> HIDE DEF n0
  <2>4. IsFiniteSet(1 .. n0) /\ Cardinality(1 .. n0) = n0
    BY <2>1, FS_Interval
  <2>5. /\ IsFiniteSet({passing[n] : n \in 1 .. n0})
        /\ Cardinality({passing[n] : n \in 1 .. n0}) = Cardinality(1 .. n0)
    BY <2>1, <2>4, ImageCardinality
  <2> QED
    BY <2>2, <2>3, <2>4, <2>5
<1>16. Expected(config, t, f, ev) = Expected(config, t, e, ev)
  <2>1. CutsOn(t, f) = CutsOn(t, e)
    BY <1>12 DEF CutsOn
  <2> QED
    BY <1>12, <2>1 DEF Expected
<1>17. RowsRight(config, t, f, ev)
  BY <1>7, <1>14, <1>15, <1>16 DEF RowsRight
<1> QED
  BY <1>12, <1>13, <1>17 DEF f

\* A task before its events is ready when its entries have their Matchings and
\* its cuts are initialised.
EntryReady(c, t, e) ==
  /\ e.names # {} /\ e.names \subseteq t.readers
  /\ BoundTo(c, e)
  /\ e.cut \in t.ready \cup {NoCut}
  /\ \A b \in e.names \cap DOMAIN t.cutsMap : t.cutsMap[b] \in t.ready

TaskReady(c, t) ==
  /\ \A k \in DOMAIN t.entries : EntryReady(c, t, t.entries[k])
  /\ t.kind = "PlainTreeFiller" => Len(t.entries) = 1

\* A table in an event: the entry but for its rows, which are right.
Evaluates(t, e, f, ev) ==
  /\ f = [e EXCEPT !.rows = f.rows]
  /\ RowsEvaluated(f)
  /\ RowsRight(config, t, f, ev)

\* Exec, when nothing throws: the tables are evaluated, a plain tree gets the
\* rows of its table, nothing else changes.
ExecRight(t, u, ev) ==
  /\ u \in Task
  /\ u = [t EXCEPT !.entries = u.entries, !.plain = u.plain]
  /\ DOMAIN u.entries = DOMAIN t.entries
  /\ \A k \in DOMAIN t.entries : Evaluates(t, t.entries[k], u.entries[k], ev)
  /\ t.kind = "PlainTreeFiller" => Len(u.plain) = Len(t.plain) + Len(u.entries[1].rows)

LEMMA ExecSound ==
  ASSUME NEW t \in Task, NEW ev \in Events, DOMAIN config.index \subseteq DOMAIN ev.matching,
         TaskReady(config, t), \A e \in ToSet(t.entries) : ~ Throws(t, config, ev, e)
  PROVE  ExecRight(t, Exec(t, config, ev), ev)
<1> DEFINE list == [k \in DOMAIN t.entries |-> FillValues(t, config, ev, t.entries[k])]
           u0 == ExecEntries(t, config, ev)
           u == Exec(t, config, ev)
<1>1. t.entries \in Seq(Entry) /\ t.plain \in Seq(Rows)
  BY DEF Task
<1>2. ASSUME NEW k \in DOMAIN t.entries
      PROVE  list[k] \in Entry /\ Evaluates(t, t.entries[k], list[k], ev)
  <2> DEFINE e == t.entries[k]
  <2>1. e \in Entry /\ e \in ToSet(t.entries)
    BY <1>1 DEF ToSet
  <2>2. e.names # {} /\ BoundTo(config, e) /\ ~ Throws(t, config, ev, e)
    BY <2>1 DEF TaskReady, EntryReady
  <2> HIDE DEF e
  <2>3. LET f == FillValues(t, config, ev, e)
        IN /\ f \in Entry
           /\ f = [e EXCEPT !.rows = f.rows]
           /\ RowsEvaluated(f)
           /\ RowsRight(config, t, f, ev)
    BY <2>1, <2>2, FillValuesSound
  <2>4. list[k] = FillValues(t, config, ev, e)
    BY DEF e
  <2> HIDE DEF list
  <2>5. list[k] \in Entry /\ Evaluates(t, e, list[k], ev)
    BY <2>3, <2>4 DEF Evaluates
  <2> QED
    BY <2>5 DEF e
<1>3. u0 = [t EXCEPT !.entries = list]
  BY DEF ExecEntries
<1>4. DOMAIN list = DOMAIN t.entries
  OBVIOUS
<1> HIDE DEF list
<1>5. list \in Seq(Entry)
  <2>1. DOMAIN list = 1 .. Len(t.entries) /\ Len(t.entries) \in Nat
    BY <1>1, <1>4
  <2>2. \A k \in 1 .. Len(t.entries) : list[k] \in Entry
    BY <1>2, <1>4, <2>1
  <2>3. list = [k \in 1 .. Len(t.entries) |-> list[k]]
    BY <1>4, <2>1 DEF list
  <2> QED
    BY <2>1, <2>2, <2>3
<1>6. u0 \in Task /\ u0.entries = list /\ u0.plain = t.plain /\ u0.kind = t.kind
  BY <1>3, <1>5 DEF Task
<1>7. CASE t.kind = "PlainTreeFiller"
  <2>1. 1 \in DOMAIN t.entries
    BY <1>1, <1>7 DEF TaskReady
  <2>2. list[1].rows \in Seq(Rows)
    BY <1>2, <2>1 DEF Entry
  <2>3. /\ t.plain \o list[1].rows \in Seq(Rows)
        /\ Len(t.plain \o list[1].rows) = Len(t.plain) + Len(list[1].rows)
    BY <1>1, <2>2
  <2>4. u = [u0 EXCEPT !.plain = t.plain \o list[1].rows]
    BY <1>6, <1>7 DEF Exec, FillPlainTree
  <2> HIDE DEF u
  <2>5. /\ u \in Task /\ u.entries = list /\ u.plain = t.plain \o list[1].rows
        /\ u = [t EXCEPT !.entries = u.entries, !.plain = u.plain]
    BY <1>3, <1>6, <2>3, <2>4 DEF Task
  <2>6. ExecRight(t, u, ev)
    BY <1>2, <1>4, <2>3, <2>5 DEF ExecRight
  <2> QED
    BY <2>6 DEF u
<1>8. CASE t.kind # "PlainTreeFiller"
  <2>1. u = u0
    BY <1>8 DEF Exec
  <2> HIDE DEF u, u0
  <2>2. u = [t EXCEPT !.entries = u.entries, !.plain = u.plain]
    BY <1>3, <1>6, <2>1 DEF Task
  <2>3. ExecRight(t, u, ev)
    BY <1>2, <1>4, <1>6, <1>8, <2>1, <2>2 DEF ExecRight
  <2> QED
    BY <2>3 DEF u
<1> QED
  BY <1>7, <1>8

(***************************************************************************)
(* AddEntry                                                                *)
(***************************************************************************)
\* What AddEntry is given, by users or by PlainTreeFiller::Init.
AnyRequest == [vars : Seq(Variables) \ {<<>>}, cut : Cuts]

BranchesOf(vs) == UNION {v.branches : v \in ToSet(vs)}

\* The branches of an entry are those of its variables and its cut.
ReadsNames(e) ==
  /\ e.vars # <<>>
  /\ e.names = BranchesOf(e.vars) \cup BranchesOfCut(e.cut)

\* f is e with more variables.
Extends(f, e) ==
  /\ f = [e EXCEPT !.vars = f.vars]
  /\ Len(e.vars) <= Len(f.vars)
  /\ \A i \in 1 .. Len(e.vars) : f.vars[i] = e.vars[i]

\* The ids are those of the columns that were asked for, under that cut.
GrantKept(r, ids, e) ==
  /\ Len(ids) = Len(r.vars)
  /\ \A i \in DOMAIN r.vars :
       /\ ids[i] \in 0 .. Len(e.vars) - 1
       /\ SameVariable(e.vars[ids[i] + 1], r.vars[i])
  /\ EqualCuts(e.cut, r.cut)

\* The entries of u are those of t, perhaps with more variables, and new ones.
EntriesGrow(list, r, new) ==
  /\ new \in Seq(Entry)
  /\ Len(list) <= Len(new)
  /\ \A k \in 1 .. Len(list) : Extends(new[k], list[k])
  /\ \A k \in DOMAIN new :
       /\ ReadsNames(new[k])
       /\ k > Len(list) => new[k].rows = <<>> /\ new[k].match = <<>> /\ new[k].cut = r.cut
       /\ \A i \in DOMAIN new[k].vars :
            \/ new[k].vars[i] \in ToSet(r.vars)
            \/ k <= Len(list) /\ new[k].vars[i] \in ToSet(list[k].vars)

\* What AddEntry makes of a task and returns.
AddSound(t, r, added) ==
  /\ added.task \in Task
  /\ added.task = [t EXCEPT !.entries = added.task.entries]
  /\ EntriesGrow(t.entries, r, added.task.entries)
  /\ added.entry \in DOMAIN added.task.entries
  /\ added.ids \in Seq(Nat)
  /\ GrantKept(r, added.ids, added.task.entries[added.entry])

LEMMA BranchesOfSound ==
  ASSUME NEW vs
  PROVE  /\ \A b \in BranchesOf(vs) : \E v \in ToSet(vs) : b \in v.branches
         /\ \A v \in ToSet(vs) : v.branches \subseteq BranchesOf(vs)
BY DEF BranchesOf

LEMMA BranchNamesSound ==
  ASSUME NEW r
  PROVE  BranchNames(r) = BranchesOf(r.vars) \cup BranchesOfCut(r.cut)
BY DEF BranchNames, BranchesOf

LEMMA RequestType ==
  ASSUME NEW r \in AnyRequest
  PROVE  /\ r.vars \in Seq(Variables) /\ r.vars # <<>> /\ r.cut \in Cuts
         /\ BranchNames(r) \subseteq Branches
         /\ \A v \in ToSet(r.vars) : v \in Variables /\ v.branches \subseteq BranchNames(r)
<1>1. r.vars \in Seq(Variables) /\ r.vars # <<>> /\ r.cut \in Cuts
  BY DEF AnyRequest
<1>2. \A v \in ToSet(r.vars) : v \in Variables
  BY <1>1 DEF ToSet
<1>3. \A v \in ToSet(r.vars) : v.branches \subseteq Branches
  BY <1>2, RequestsAssumption
<1>4. BranchesOfCut(r.cut) \subseteq Branches
  BY <1>1, RequestsAssumption DEF BranchesOfCut, Cuts
<1>5. BranchNames(r) \subseteq Branches
  BY <1>3, <1>4, BranchesOfSound, BranchNamesSound
<1>6. \A v \in ToSet(r.vars) : v.branches \subseteq BranchNames(r)
  BY BranchesOfSound, BranchNamesSound
<1> QED
  BY <1>1, <1>2, <1>5, <1>6

LEMMA EqualCutsReflexive == \A c : EqualCuts(c, c)
BY DEF EqualCuts

LEMMA ExtendsReflexive ==
  ASSUME NEW e \in Entry
  PROVE  Extends(e, e)
<1>1. e = [e EXCEPT !.vars = e.vars] /\ Len(e.vars) \in Nat
  BY DEF Entry
<1> QED
  BY <1>1 DEF Extends

\* A table of its own.
LEMMA AddedNewSound ==
  ASSUME NEW t \in Task, NEW r \in AnyRequest,
         \A k \in DOMAIN t.entries : ReadsNames(t.entries[k])
  PROVE  AddSound(t, r, AddedNew(t, r))
<1> DEFINE list == t.entries
           e == NewEntry(r)
           new == Append(list, e)
           is == [i \in DOMAIN r.vars |-> i - 1]
           u == [t EXCEPT !.entries = new]
           added == AddedNew(t, r)
<1>1. added.task = u /\ added.entry = Len(list) + 1 /\ added.ids = is
  BY DEF AddedNew
<1>2. /\ r.vars \in Seq(Variables) /\ r.vars # <<>> /\ r.cut \in Cuts
      /\ BranchNames(r) \subseteq Branches
  BY RequestType
<1>3. /\ e \in Entry /\ e.names = BranchNames(r) /\ e.vars = r.vars
      /\ e.cut = r.cut /\ e.rows = <<>> /\ e.match = <<>>
  <2>1. <<>> \in Pairs /\ <<>> \in Seq(Rows) /\ FALSE \in BOOLEAN
    BY DEF Pairs
  <2> QED
    BY <1>2, <2>1 DEF NewEntry, Entry
<1>4. ReadsNames(e)
  BY <1>2, <1>3, BranchNamesSound DEF ReadsNames
<1>5. /\ is \in Seq(Nat) /\ Len(is) = Len(r.vars)
      /\ \A i \in DOMAIN r.vars : is[i] = i - 1 /\ is[i] \in 0 .. Len(r.vars) - 1
                                  /\ is[i] + 1 = i
  <2>1. DOMAIN r.vars = 1 .. Len(r.vars) /\ Len(r.vars) \in Nat
    BY <1>2
  <2>2. \A i \in 1 .. Len(r.vars) : i - 1 \in Nat
    OBVIOUS
  <2> QED
    BY <2>1, <2>2
<1>6. list \in Seq(Entry)
  BY DEF Task
<1> HIDE DEF is, e, list
<1>7. /\ new \in Seq(Entry) /\ Len(new) = Len(list) + 1 /\ Len(list) \in Nat
      /\ \A k \in 1 .. Len(list) : new[k] = list[k]
      /\ new[Len(list) + 1] = e
  BY <1>3, <1>6
<1> HIDE DEF new
<1>8. GrantKept(r, is, e)
  <2>1. \A v : SameVariable(v, v)
    BY DEF SameVariable
  <2> QED
    BY <1>3, <1>5, <2>1, EqualCutsReflexive DEF GrantKept
<1>9. \A k \in 1 .. Len(list) : Extends(new[k], list[k])
  BY <1>6, <1>7, ExtendsReflexive
<1>10. ASSUME NEW k \in DOMAIN new
       PROVE  /\ ReadsNames(new[k])
              /\ k > Len(list) =>
                   new[k].rows = <<>> /\ new[k].match = <<>> /\ new[k].cut = r.cut
              /\ \A i \in DOMAIN new[k].vars :
                   \/ new[k].vars[i] \in ToSet(r.vars)
                   \/ k <= Len(list) /\ new[k].vars[i] \in ToSet(list[k].vars)
  <2>1. k \in 1 .. Len(list) \/ k = Len(list) + 1
    BY <1>7
  <2>2. CASE k \in 1 .. Len(list)
    <3>1. new[k] = list[k] /\ k \in DOMAIN list /\ k <= Len(list) /\ ~(k > Len(list))
      BY <1>6, <1>7, <2>2
    <3>2. ReadsNames(list[k])
      BY <3>1 DEF list
    <3> QED
      BY <3>1, <3>2 DEF ToSet
  <2>3. CASE k = Len(list) + 1
    BY <1>3, <1>4, <1>7, <2>3 DEF ToSet
  <2> QED
    BY <2>1, <2>2, <2>3
<1>11. EntriesGrow(list, r, new)
  BY <1>7, <1>9, <1>10 DEF EntriesGrow
<1>12. /\ u \in Task /\ u.entries = new /\ u = [t EXCEPT !.entries = u.entries]
  BY <1>7 DEF Task
<1>13. Len(list) + 1 \in DOMAIN new
  BY <1>7
<1> HIDE DEF added, u
<1>14. AddSound(t, r, added)
  BY <1>1, <1>5, <1>7, <1>8, <1>11, <1>12, <1>13 DEF AddSound, list
<1> QED
  BY <1>14 DEF added

\* The table of another request.
LEMMA AddedToSound ==
  ASSUME NEW t \in Task, NEW r \in AnyRequest,
         \A k \in DOMAIN t.entries : ReadsNames(t.entries[k]),
         NEW n \in Sharing(t, r)
  PROVE  AddSound(t, r, AddedTo(t, n, r))
<1> DEFINE list == t.entries
           e == list[n]
           res == AddVariables(e.vars, r.vars)
           f == [e EXCEPT !.vars = res.vars]
           new == [list EXCEPT ![n] = f]
           u == [t EXCEPT !.entries = new]
           added == AddedTo(t, n, r)
<1>1. n \in DOMAIN list /\ e.names = BranchNames(r) /\ EqualCuts(e.cut, r.cut)
  BY DEF Sharing
<1>2. list \in Seq(Entry)
  BY DEF Task
<1>3. added.task = u /\ added.entry = n /\ added.ids = res.ids
  <2>1. added = [task |-> [t EXCEPT !.entries[n].vars = res.vars], entry |-> n,
                 ids |-> res.ids]
    BY Zenon DEF AddedTo
  <2>2. [t EXCEPT !.entries[n].vars = res.vars] = u
    OBVIOUS
  <2> HIDE DEF added, res, u
  <2> QED
    BY <2>1, <2>2
<1>4. ReadsNames(e)
  BY <1>1
<1> HIDE DEF list
<1>5. e \in Entry /\ e.vars \in Seq(Variables)
  <2>1. e \in Entry
    BY <1>1, <1>2
  <2> HIDE DEF e
  <2> QED
    BY <2>1 DEF Entry
<1>6. /\ r.vars \in Seq(Variables) /\ r.vars # <<>> /\ r.cut \in Cuts
      /\ \A v \in ToSet(r.vars) : v \in Variables /\ v.branches \subseteq BranchNames(r)
  BY RequestType
<1>7. Placed(res, Variables, e.vars, r.vars, Len(r.vars))
  BY <1>5, <1>6, AddVariablesPlace
<1> HIDE DEF res
<1>8. /\ res.vars \in Seq(Variables) /\ res.ids \in Seq(Nat)
      /\ Len(res.ids) = Len(r.vars) /\ Len(e.vars) <= Len(res.vars)
      /\ \A k \in 1 .. Len(e.vars) : res.vars[k] = e.vars[k]
      /\ \A k \in DOMAIN res.vars : res.vars[k] \in ToSet(e.vars) \cup ToSet(r.vars)
      /\ \A j \in 1 .. Len(r.vars) :
           /\ res.ids[j] \in 0 .. Len(res.vars) - 1
           /\ SameVariable(res.vars[res.ids[j] + 1], r.vars[j])
  BY <1>7 DEF Placed
<1>9. /\ f \in Entry /\ f.vars = res.vars /\ f = [e EXCEPT !.vars = f.vars]
      /\ f.names = e.names /\ f.cut = e.cut /\ f.rows = e.rows
  BY <1>5, <1>8 DEF Entry
<1>10. /\ Len(list) \in Nat /\ DOMAIN list = 1 .. Len(list)
       /\ \A k \in DOMAIN list : list[k] \in Entry
  BY <1>2
<1> HIDE DEF f, e
<1>11. /\ DOMAIN new = 1 .. Len(list) /\ new[n] = f
       /\ \A k \in DOMAIN list : k # n => new[k] = list[k]
  BY <1>1, <1>10
<1>12. new \in Seq(Entry) /\ Len(new) = Len(list)
  <2>1. \A k \in 1 .. Len(list) : new[k] \in Entry
    BY <1>9, <1>10, <1>11
  <2>2. new = [k \in 1 .. Len(list) |-> new[k]]
    BY <1>10
  <2> HIDE DEF new
  <2> QED
    BY <1>10, <1>11, <2>1, <2>2
<1> HIDE DEF new
<1>13. ReadsNames(f)
  <2>1. e.vars # <<>> /\ e.names = BranchesOf(e.vars) \cup BranchesOfCut(e.cut)
    BY <1>4 DEF ReadsNames
  <2>2. ToSet(e.vars) \subseteq ToSet(res.vars)
    <3>1. DOMAIN e.vars = 1 .. Len(e.vars) /\ Len(e.vars) \in Nat
          /\ DOMAIN res.vars = 1 .. Len(res.vars) /\ Len(res.vars) \in Nat
      BY <1>5, <1>8
    <3>2. \A k \in DOMAIN e.vars : k \in DOMAIN res.vars /\ res.vars[k] = e.vars[k]
      BY <1>8, <3>1
    <3> QED
      BY <3>2 DEF ToSet
  <2>3. ToSet(res.vars) \subseteq ToSet(e.vars) \cup ToSet(r.vars)
    BY <1>8 DEF ToSet
  <2>4. \A v \in ToSet(r.vars) : v.branches \subseteq e.names
    BY <1>1, <1>6 DEF e
  <2>5. BranchesOf(res.vars) \cup BranchesOfCut(e.cut) = e.names
    <3>1. BranchesOf(e.vars) \subseteq BranchesOf(res.vars)
      BY <2>2, BranchesOfSound
    <3>2. BranchesOf(res.vars) \subseteq e.names
      BY <2>1, <2>3, <2>4, BranchesOfSound
    <3> QED
      BY <2>1, <3>1, <3>2
  <2>6. res.vars # <<>>
    BY <1>5, <1>8, <2>1
  <2> QED
    BY <1>9, <2>5, <2>6 DEF ReadsNames
<1>14. Extends(f, e)
  BY <1>8, <1>9 DEF Extends
<1>15. \A k \in 1 .. Len(list) : Extends(new[k], list[k])
  <2> SUFFICES ASSUME NEW k \in 1 .. Len(list)
               PROVE  Extends(new[k], list[k])
    OBVIOUS
  <2>1. CASE k = n
    BY <1>11, <1>14, <2>1 DEF e
  <2>2. CASE k # n
    BY <1>10, <1>11, <2>2, ExtendsReflexive
  <2> QED
    BY <2>1, <2>2
<1>16. ASSUME NEW k \in DOMAIN new
       PROVE  /\ ReadsNames(new[k])
              /\ k > Len(list) =>
                   new[k].rows = <<>> /\ new[k].match = <<>> /\ new[k].cut = r.cut
              /\ \A i \in DOMAIN new[k].vars :
                   \/ new[k].vars[i] \in ToSet(r.vars)
                   \/ k <= Len(list) /\ new[k].vars[i] \in ToSet(list[k].vars)
  <2>1. k \in DOMAIN list /\ k <= Len(list) /\ ~(k > Len(list))
    BY <1>10, <1>11
  <2>2. CASE k = n
    <3>1. new[k] = f /\ list[k] = e
      BY <1>11, <2>2 DEF e
    <3>2. \A i \in DOMAIN f.vars : f.vars[i] \in ToSet(r.vars) \cup ToSet(e.vars)
      BY <1>8, <1>9
    <3> QED
      BY <1>13, <2>1, <3>1, <3>2
  <2>3. CASE k # n
    <3>1. new[k] = list[k]
      BY <1>11, <2>1, <2>3
    <3>2. ReadsNames(list[k])
      BY <2>1 DEF list
    <3> QED
      BY <2>1, <3>1, <3>2 DEF ToSet
  <2> QED
    BY <2>2, <2>3
<1>17. EntriesGrow(list, r, new)
  BY <1>10, <1>12, <1>15, <1>16 DEF EntriesGrow
<1>18. GrantKept(r, res.ids, f)
  <2>1. DOMAIN r.vars = 1 .. Len(r.vars)
    BY <1>6
  <2>2. EqualCuts(f.cut, r.cut)
    BY <1>1, <1>9 DEF e
  <2> QED
    BY <1>8, <1>9, <2>1, <2>2 DEF GrantKept
<1>19. u \in Task /\ u.entries = new /\ u = [t EXCEPT !.entries = u.entries]
  BY <1>12 DEF Task
<1>20. n \in DOMAIN new
  BY <1>1, <1>10, <1>11
<1> HIDE DEF added, u
<1>21. AddSound(t, r, added)
  BY <1>3, <1>8, <1>11, <1>17, <1>18, <1>19, <1>20 DEF AddSound, list
<1> QED
  BY <1>21 DEF added

\* AddEntry takes the first table that can be shared, or makes one.
LEMMA AddEntrySound ==
  ASSUME NEW t \in Task, NEW r \in AnyRequest,
         \A k \in DOMAIN t.entries : ReadsNames(t.entries[k])
  PROVE  AddSound(t, r, AddEntry(t, r))
<1> DEFINE S == Sharing(t, r)
<1>1. AddEntry(t, r) = IF S = {} THEN AddedNew(t, r) ELSE AddedTo(t, Min(S), r)
  BY DEF AddEntry
<1>2. CASE S = {}
  BY <1>1, <1>2, AddedNewSound
<1>3. CASE S # {}
  <2>1. S \subseteq DOMAIN t.entries /\ t.entries \in Seq(Entry)
    BY DEF Sharing, Task
  <2>2. DOMAIN t.entries = 1 .. Len(t.entries) /\ Len(t.entries) \in Int
    BY <2>1
  <2>3. IsFiniteSet(1 .. Len(t.entries)) /\ 1 .. Len(t.entries) \subseteq Int
    BY <2>2, FS_Interval
  <2>4. IsFiniteSet(S) /\ S \subseteq Int
    BY <2>1, <2>2, <2>3, FS_Subset
  <2>5. Min(S) \in S
    BY <1>3, <2>4, MinSound
  <2> HIDE DEF S
  <2>6. AddEntry(t, r) = AddedTo(t, Min(S), r)
    BY <1>1, <1>3
  <2>7. Min(S) \in Sharing(t, r)
    BY <2>5 DEF S
  <2> QED
    BY <2>6, <2>7, AddedToSound
<1> QED
  BY <1>2, <1>3

(***************************************************************************)
(* Init of a task                                                          *)
(***************************************************************************)
\* s has the task after each of the first n fields of PlainTreeFiller::Init.
FieldsUpTo(s, t, fields, n) ==
  \A i \in 0 .. n : s[i] = IF i = 0 THEN t ELSE AddEntry(s[i - 1], OfField(fields[i])).task

LEMMA FieldsExist ==
  ASSUME NEW t, NEW fields, NEW n \in Nat
  PROVE  \E s : FieldsUpTo(s, t, fields, n)
<1> DEFINE B == {m \in Nat : ~ \E s : FieldsUpTo(s, t, fields, m)}
<1> SUFFICES ASSUME B # {} PROVE FALSE
  OBVIOUS
<1>1. PICK m \in B : \A j \in B : m <= j
  <2>1. B \subseteq Nat
    OBVIOUS
  <2> HIDE DEF B
  <2> QED
    BY <2>1, LeastNatural
<1>2. m # 0
  <2>1. FieldsUpTo([i \in 0 .. 0 |-> t], t, fields, 0)
    BY DEF FieldsUpTo
  <2> QED
    BY <2>1
<1>3. PICK s : FieldsUpTo(s, t, fields, m - 1)
  <2>1. m - 1 \in Nat /\ ~ (m <= m - 1)
    BY <1>2
  <2> QED
    BY <1>1, <2>1
<1> DEFINE h == [i \in 0 .. m |-> IF i = m THEN AddEntry(s[i - 1], OfField(fields[i])).task
                                  ELSE s[i]]
<1>4. ASSUME NEW i \in 0 .. m
      PROVE  h[i] = IF i = 0 THEN t ELSE AddEntry(h[i - 1], OfField(fields[i])).task
  <2>1. CASE i = 0
    <3>1. 0 \in 0 .. m - 1 /\ h[0] = s[0]
      BY <1>2, <2>1
    <3> QED
      BY <1>3, <2>1, <3>1 DEF FieldsUpTo
  <2>2. CASE i # 0 /\ i # m
    <3>1. i \in 0 .. m - 1 /\ h[i] = s[i] /\ i - 1 \in 0 .. m /\ i - 1 # m
      BY <2>2
    <3>2. h[i - 1] = s[i - 1]
      BY <3>1
    <3>3. s[i] = AddEntry(s[i - 1], OfField(fields[i])).task
      BY <1>3, <2>2, <3>1 DEF FieldsUpTo
    <3> HIDE DEF h
    <3> QED
      BY <2>2, <3>1, <3>2, <3>3
  <2>3. CASE i = m
    <3>1. i # 0 /\ i - 1 \in 0 .. m /\ i - 1 # m
      BY <1>2, <2>3
    <3>2. h[i - 1] = s[i - 1] /\ h[i] = AddEntry(s[i - 1], OfField(fields[i])).task
      BY <2>3, <3>1
    <3> HIDE DEF h
    <3> QED
      BY <3>1, <3>2
  <2> QED
    BY <2>1, <2>2, <2>3
<1>5. FieldsUpTo(h, t, fields, m)
  BY <1>4 DEF FieldsUpTo
<1> QED
  BY <1>1, <1>5

\* WithFields is the last of these.
LEMMA WithFieldsLoop ==
  ASSUME NEW t, t.branch # NoBranch,
         NEW fields, fields = BranchFields(t.branch), Len(fields) \in Nat
  PROVE  \E s : FieldsUpTo(s, t, fields, Len(fields)) /\ WithFields(t) = s[Len(fields)]
<1> DEFINE Is(s) == s = [i \in 0 .. Len(fields) |->
                           IF i = 0 THEN t ELSE AddEntry(s[i - 1], OfField(fields[i])).task]
           with == CHOOSE s : Is(s)
<1>1. WithFields(t) = with[Len(fields)]
  BY DEF WithFields
<1>2. \A s : Is(s) => FieldsUpTo(s, t, fields, Len(fields))
  BY DEF FieldsUpTo
<1>3. PICK s : FieldsUpTo(s, t, fields, Len(fields))
  BY FieldsExist
<1> DEFINE h == [i \in 0 .. Len(fields) |-> s[i]]
<1>4. Is(h)
  <2> DEFINE g == [i \in 0 .. Len(fields) |->
                     IF i = 0 THEN t ELSE AddEntry(h[i - 1], OfField(fields[i])).task]
  <2>1. ASSUME NEW i \in 0 .. Len(fields)
        PROVE  h[i] = g[i]
    <3>1. CASE i = 0
      BY <1>3, <3>1 DEF FieldsUpTo
    <3>2. CASE i # 0
      <4>1. i - 1 \in 0 .. Len(fields)
        BY <3>2
      <4>2. s[i] = AddEntry(s[i - 1], OfField(fields[i])).task
        BY <1>3, <3>2 DEF FieldsUpTo
      <4>3. h[i] = s[i] /\ h[i - 1] = s[i - 1]
        BY <4>1
      <4> HIDE DEF h
      <4> QED
        BY <3>2, <4>2, <4>3
    <3> QED
      BY <3>1, <3>2
  <2>2. h = g
    BY <2>1
  <2> QED
    BY <2>2
<1> HIDE DEF Is
<1>5. Is(with)
  BY <1>4
<1> HIDE DEF with
<1>6. FieldsUpTo(with, t, fields, Len(fields))
  BY <1>2, <1>5
<1> QED
  BY <1>1, <1>6

\* No entry has been initialised or filled.
TaskFresh(t) ==
  \A k \in DOMAIN t.entries :
    ReadsNames(t.entries[k]) /\ t.entries[k].rows = <<>> /\ t.entries[k].match = <<>>

\* u is t with more entries and with more variables in its entries.
Grown(t, u) ==
  /\ u \in Task
  /\ u = [t EXCEPT !.entries = u.entries]
  /\ Len(t.entries) <= Len(u.entries)
  /\ \A k \in 1 .. Len(t.entries) : Extends(u.entries[k], t.entries[k])

LEMMA GrownReflexive ==
  ASSUME NEW t \in Task
  PROVE  Grown(t, t)
<1>1. t.entries \in Seq(Entry) /\ t = [t EXCEPT !.entries = t.entries]
  BY DEF Task
<1>2. Len(t.entries) \in Nat /\ \A k \in 1 .. Len(t.entries) : t.entries[k] \in Entry
  BY <1>1
<1> QED
  BY <1>1, <1>2, ExtendsReflexive DEF Grown

LEMMA ExtendsTransitive ==
  ASSUME NEW e \in Entry, NEW f \in Entry, NEW g \in Entry, Extends(f, e), Extends(g, f)
  PROVE  Extends(g, e)
<1>1. Len(e.vars) \in Nat /\ Len(f.vars) \in Nat /\ Len(g.vars) \in Nat
  BY DEF Entry
<1>2. g = [e EXCEPT !.vars = g.vars]
  BY DEF Extends, Entry
<1>3. \A i \in 1 .. Len(e.vars) : g.vars[i] = e.vars[i]
  BY <1>1 DEF Extends
<1> QED
  BY <1>1, <1>2, <1>3 DEF Extends

\* AddEntry as a step of growth.
LEMMA AddEntryGrows ==
  ASSUME NEW t \in Task, NEW u, Grown(t, u), TaskFresh(u), NEW r \in AnyRequest
  PROVE  LET w == AddEntry(u, r).task
         IN Grown(t, w) /\ TaskFresh(w)
<1> DEFINE added == AddEntry(u, r)
           w == added.task
<1>1. u \in Task /\ \A k \in DOMAIN u.entries : ReadsNames(u.entries[k])
  BY DEF Grown, TaskFresh
<1>2. AddSound(u, r, added)
  BY <1>1, AddEntrySound
<1> HIDE DEF added
<1>3. /\ w \in Task /\ w = [u EXCEPT !.entries = w.entries]
      /\ EntriesGrow(u.entries, r, w.entries)
  BY <1>2 DEF AddSound
<1> HIDE DEF w
<1>4. t.entries \in Seq(Entry) /\ u.entries \in Seq(Entry) /\ w.entries \in Seq(Entry)
  BY <1>1, <1>3 DEF Task
<1>5. /\ Len(t.entries) \in Nat /\ DOMAIN t.entries = 1 .. Len(t.entries)
      /\ Len(u.entries) \in Nat /\ DOMAIN u.entries = 1 .. Len(u.entries)
      /\ Len(w.entries) \in Nat /\ DOMAIN w.entries = 1 .. Len(w.entries)
      /\ \A k \in DOMAIN t.entries : t.entries[k] \in Entry
      /\ \A k \in DOMAIN u.entries : u.entries[k] \in Entry
      /\ \A k \in DOMAIN w.entries : w.entries[k] \in Entry
  BY <1>4
<1>6. /\ Len(t.entries) <= Len(u.entries)
      /\ \A k \in 1 .. Len(t.entries) : Extends(u.entries[k], t.entries[k])
      /\ u = [t EXCEPT !.entries = u.entries]
  BY DEF Grown
<1>7. /\ Len(u.entries) <= Len(w.entries)
      /\ \A k \in 1 .. Len(u.entries) : Extends(w.entries[k], u.entries[k])
      /\ \A k \in DOMAIN w.entries :
           /\ ReadsNames(w.entries[k])
           /\ k > Len(u.entries) => w.entries[k].rows = <<>> /\ w.entries[k].match = <<>>
  BY <1>3 DEF EntriesGrow
<1>8. Grown(t, w)
  <2>1. w = [t EXCEPT !.entries = w.entries]
    BY <1>1, <1>3, <1>6 DEF Task
  <2>2. Len(t.entries) <= Len(w.entries)
    BY <1>5, <1>6, <1>7
  <2>3. ASSUME NEW k \in 1 .. Len(t.entries)
        PROVE  Extends(w.entries[k], t.entries[k])
    <3>1. k \in DOMAIN t.entries /\ k \in DOMAIN u.entries /\ k \in DOMAIN w.entries
      BY <1>5, <1>6, <1>7
    <3> QED
      BY <1>5, <1>6, <1>7, <3>1, ExtendsTransitive
  <2> QED
    BY <1>3, <2>1, <2>2, <2>3 DEF Grown
<1>9. TaskFresh(w)
  <2> SUFFICES ASSUME NEW k \in DOMAIN w.entries
               PROVE  w.entries[k].rows = <<>> /\ w.entries[k].match = <<>>
    BY <1>7 DEF TaskFresh
  <2>1. CASE k > Len(u.entries)
    BY <1>7, <2>1
  <2>2. CASE ~(k > Len(u.entries))
    <3>1. k \in 1 .. Len(u.entries) /\ k \in DOMAIN u.entries
      BY <1>5, <2>2
    <3>2. w.entries[k] = [u.entries[k] EXCEPT !.vars = w.entries[k].vars]
      BY <1>7, <3>1 DEF Extends
    <3>3. w.entries[k].rows = u.entries[k].rows /\ w.entries[k].match = u.entries[k].match
      <4> DEFINE e == u.entries[k]
                 f == w.entries[k]
      <4>1. e \in Entry /\ f = [e EXCEPT !.vars = f.vars]
        BY <1>5, <3>1, <3>2
      <4> HIDE DEF e, f
      <4>2. f.rows = e.rows /\ f.match = e.match
        BY <4>1 DEF Entry
      <4> QED
        BY <4>2 DEF e, f
    <3> QED
      BY <3>1, <3>3 DEF TaskFresh
  <2> QED
    BY <2>1, <2>2
<1> QED
  BY <1>8, <1>9 DEF w, added

\* The fields PlainTreeFiller adds leave what there is.
LEMMA ToInitSound ==
  ASSUME NEW t \in Task, TaskFresh(t)
  PROVE  Grown(t, ToInit(t)) /\ TaskFresh(ToInit(t))
<1>1. Grown(t, t)
  BY GrownReflexive
<1>2. CASE t.kind # "PlainTreeFiller" \/ t.branch = NoBranch
  <2>1. ToInit(t) = t
    BY <1>2 DEF ToInit, WithFields
  <2> QED
    BY <1>1, <2>1
<1>3. CASE t.kind = "PlainTreeFiller" /\ t.branch # NoBranch
  <2> DEFINE fields == BranchFields(t.branch)
  <2>1. fields \in Seq(Variables)
    <3>1. t.branch \in Branches
      BY <1>3 DEF Task
    <3> QED
      BY <3>1, RequestsAssumption
  <2>2. Len(fields) \in Nat /\ \A i \in 1 .. Len(fields) : fields[i] \in Variables
    BY <2>1
  <2>3. PICK s : FieldsUpTo(s, t, fields, Len(fields)) /\ WithFields(t) = s[Len(fields)]
    BY <1>3, <2>2, WithFieldsLoop
  <2>4. ToInit(t) = s[Len(fields)]
    BY <1>3, <2>3 DEF ToInit
  <2> HIDE DEF fields
  <2> DEFINE Good(u) == Grown(t, u) /\ TaskFresh(u)
             B == {n \in 0 .. Len(fields) : ~ Good(s[n])}
  <2>5. ASSUME B # {}
        PROVE  FALSE
    <3>1. PICK n \in B : \A j \in B : n <= j
      <4>1. B \subseteq Nat
        OBVIOUS
      <4> HIDE DEF B
      <4> QED
        BY <2>5, <4>1, LeastNatural
    <3>2. n \in 0 .. Len(fields) /\ ~ Good(s[n])
      OBVIOUS
    <3>3. n # 0
      <4>1. s[0] = t
        BY <2>2, <2>3 DEF FieldsUpTo
      <4> QED
        BY <1>1, <3>2, <4>1
    <3>4. n - 1 \in 0 .. Len(fields) /\ ~ (n <= n - 1)
      BY <2>2, <3>2, <3>3
    <3>5. Good(s[n - 1])
      BY <3>1, <3>4
    <3>6. s[n] = AddEntry(s[n - 1], OfField(fields[n])).task
      BY <2>3, <3>2, <3>3 DEF FieldsUpTo
    <3>7. OfField(fields[n]) \in AnyRequest
      <4>1. fields[n] \in Variables
        BY <2>2, <3>2, <3>3
      <4>2. <<fields[n]>> \in Seq(Variables) \ {<<>>} /\ NoCut \in Cuts
        BY <4>1 DEF Cuts
      <4> QED
        BY <4>2 DEF OfField, AnyRequest
    <3>8. Good(s[n])
      <4> DEFINE u == s[n - 1]
                 r == OfField(fields[n])
      <4>1. Grown(t, u) /\ TaskFresh(u) /\ r \in AnyRequest
        BY <3>5, <3>7
      <4> HIDE DEF u, r
      <4>2. Grown(t, AddEntry(u, r).task) /\ TaskFresh(AddEntry(u, r).task)
        BY <4>1, AddEntryGrows
      <4> QED
        BY <3>6, <4>2 DEF u, r
    <3> QED
      BY <3>2, <3>8
  <2>6. Good(s[Len(fields)])
    BY <2>2, <2>5
  <2> QED
    BY <2>4, <2>6
<1> QED
  BY <1>2, <1>3

\* An entry gets the Matching its branches have, the right way round.
LEMMA BoundEntrySound ==
  ASSUME NEW c, NEW t \in Task, NEW e \in Entry, e.match = <<>>, EntryOk(t, c, e)
  PROVE  LET f == BoundEntry(c, e)
         IN /\ f \in Entry
            /\ f = [e EXCEPT !.match = f.match, !.inverted = f.inverted]
            /\ BoundTo(c, f)
            /\ f.match # <<>> => f.match \in DOMAIN c.index
<1> DEFINE own == Sorted(e.names)
           info == MatchInfo(c, own[1], own[2])
           f == BoundEntry(c, e)
<1>1. e.names \subseteq Branches
  BY DEF Entry
<1>2. own \in Seq(Branches)
  BY <1>1, SortedSound
<1>3. CASE ~ NeedsMatching(c, e)
  <2>1. f = e
    BY <1>3 DEF BoundEntry
  <2>2. e = [e EXCEPT !.match = e.match, !.inverted = e.inverted]
    BY DEF Entry
  <2>3. BoundTo(c, e)
    BY <1>3 DEF BoundTo
  <2> QED
    BY <2>1, <2>2, <2>3
<1>4. CASE NeedsMatching(c, e)
  <2>1. Len(own) > 1 /\ HasMatching(c, e)
    BY <1>4 DEF NeedsMatching, EntryOk
  <2>2. own[1] \in Branches /\ own[2] \in Branches
    BY <1>2, <2>1
  <2>3. f = [e EXCEPT !.match = info.match, !.inverted = info.inverted]
    BY <1>4 DEF BoundEntry
  <2>4. /\ {<<own[1], own[2]>>, <<own[2], own[1]>>} \cap DOMAIN c.index # {}
    BY <2>1 DEF HasMatching
  <2> HIDE DEF own
  <2>5. /\ info.match \in DOMAIN c.index /\ info.match \in Branches \X Branches
        /\ info.inverted \in BOOLEAN
    BY <2>2, <2>4 DEF MatchInfo
  <2> HIDE DEF info, f
  <2>6. /\ f \in Entry /\ f.match = info.match /\ f.inverted = info.inverted
        /\ f.names = e.names
    BY <2>3, <2>5 DEF Entry, Pairs
  <2>7. BoundTo(c, f)
    <3>1. HasMatching(c, f)
      BY <2>1, <2>6 DEF HasMatching
    <3> QED
      BY <2>6, <3>1 DEF BoundTo, info, own
  <2> QED
    BY <2>3, <2>5, <2>6, <2>7 DEF f
<1> QED
  BY <1>3, <1>4

\* f has the columns of e, under its cut, and perhaps more.
Widens(f, e) ==
  /\ f.cut = e.cut
  /\ Len(e.vars) <= Len(f.vars)
  /\ \A i \in 1 .. Len(e.vars) : f.vars[i] = e.vars[i]

\* u is t after Init.
Initiated(c, t, u) ==
  /\ u \in Task
  /\ u.kind = t.kind /\ u.cutsMap = t.cutsMap /\ u.plain = t.plain
  /\ u.inBranches = t.inBranches /\ u.readers = t.inBranches
  /\ \A k \in DOMAIN u.entries :
       /\ ReadsNames(u.entries[k]) /\ u.entries[k].rows = <<>>
       /\ u.entries[k].match # <<>> => u.entries[k].match \in DOMAIN c.index
  /\ \A k \in DOMAIN t.entries :
       k \in DOMAIN u.entries /\ Widens(u.entries[k], t.entries[k])
  /\ TaskReady(c, u)

\* What is left of an entry when only its Matching is set.
LEMMA MatchOnly ==
  ASSUME NEW e \in Entry, NEW f, f = [e EXCEPT !.match = f.match, !.inverted = f.inverted]
  PROVE  f.vars = e.vars /\ f.cut = e.cut /\ f.names = e.names /\ f.rows = e.rows
BY DEF Entry

LEMMA ExtendsWidens ==
  ASSUME NEW e \in Entry, NEW f, Extends(f, e)
  PROVE  Widens(f, e)
BY DEF Extends, Widens, Entry

\* An entry with a variable reads a branch.
LEMMA SomeBranch ==
  ASSUME NEW e \in Entry, ReadsNames(e)
  PROVE  e.names # {}
<1>1. e.vars \in Seq(Variables) /\ e.vars # <<>>
  BY DEF Entry, ReadsNames
<1>2. e.vars[1] \in Variables /\ e.vars[1] \in ToSet(e.vars)
  BY <1>1 DEF ToSet
<1>3. e.vars[1].branches # {}
  BY <1>2, RequestsAssumption
<1>4. e.vars[1].branches \subseteq BranchesOf(e.vars)
  BY <1>2, BranchesOfSound
<1> QED
  BY <1>3, <1>4 DEF ReadsNames

\* Init of a task that does not throw.
LEMMA InitTaskSound ==
  ASSUME NEW c, NEW t \in Task, TaskFresh(t), TaskOk(t, c)
  PROVE  Initiated(c, t, InitTask(t, c))
<1> DEFINE w == ToInit(t)
           list == [k \in DOMAIN w.entries |-> BoundEntry(c, w.entries[k])]
           u == InitTask(t, c)
           ready == InitialisedCuts(w)
<1>1. Grown(t, w) /\ TaskFresh(w)
  BY ToInitSound
<1>2. /\ \A e \in ToSet(w.entries) : EntryOk(t, c, e)
      /\ t.kind = "PlainTreeFiller" => Len(w.entries) = 1
  BY DEF TaskOk
<1>3. u = [w EXCEPT !.readers = t.inBranches, !.ready = ready, !.entries = list]
  BY DEF InitTask
<1>4. ready = {w.cutsMap[b] : b \in w.inBranches \cap DOMAIN w.cutsMap}
              \cup ({e.cut : e \in ToSet(w.entries)} \ {NoCut})
  BY DEF InitialisedCuts
<1> HIDE DEF w, u, ready
<1>5. /\ w \in Task /\ w = [t EXCEPT !.entries = w.entries]
      /\ Len(t.entries) <= Len(w.entries)
      /\ \A k \in 1 .. Len(t.entries) : Extends(w.entries[k], t.entries[k])
  BY <1>1 DEF Grown
<1>6. /\ w.kind = t.kind /\ w.cutsMap = t.cutsMap /\ w.plain = t.plain
      /\ w.inBranches = t.inBranches
  BY <1>5 DEF Task
<1>7. /\ t.entries \in Seq(Entry) /\ w.entries \in Seq(Entry)
      /\ t.inBranches \in SUBSET Branches /\ t.cutsMap \in TaskSettings
  BY <1>5 DEF Task
<1>8. /\ DOMAIN w.entries = 1 .. Len(w.entries) /\ Len(w.entries) \in Nat
      /\ DOMAIN t.entries = 1 .. Len(t.entries) /\ Len(t.entries) \in Nat
      /\ \A k \in DOMAIN w.entries : w.entries[k] \in Entry
      /\ \A k \in DOMAIN t.entries : t.entries[k] \in Entry
  BY <1>7
<1>9. \A k \in DOMAIN w.entries : w.entries[k] \in ToSet(w.entries)
  BY DEF ToSet
<1>10. ready \subseteq CutObjects
  <2>1. \A b \in DOMAIN t.cutsMap : t.cutsMap[b] \in CutObjects
    BY <1>7, RequestsAssumption
  <2>2. \A e \in ToSet(w.entries) : e.cut \in Cuts
    <3>1. \A e \in ToSet(w.entries) : e \in Entry
      BY <1>8 DEF ToSet
    <3> QED
      BY <3>1 DEF Entry
  <2> QED
    BY <1>4, <1>6, <2>1, <2>2 DEF Cuts
<1>11. ASSUME NEW k \in DOMAIN w.entries
       PROVE  /\ list[k] \in Entry
              /\ list[k] = [w.entries[k] EXCEPT !.match = list[k].match,
                                                !.inverted = list[k].inverted]
              /\ BoundTo(c, list[k])
              /\ list[k].match # <<>> => list[k].match \in DOMAIN c.index
  <2>1. w.entries[k] \in Entry /\ w.entries[k].match = <<>> /\ EntryOk(t, c, w.entries[k])
    BY <1>1, <1>2, <1>8, <1>9 DEF TaskFresh
  <2> DEFINE e == w.entries[k]
  <2>2. e \in Entry /\ e.match = <<>> /\ EntryOk(t, c, e) /\ list[k] = BoundEntry(c, e)
    BY <2>1
  <2> HIDE DEF e, list
  <2>3. /\ BoundEntry(c, e) \in Entry
        /\ BoundEntry(c, e) = [e EXCEPT !.match = BoundEntry(c, e).match,
                                        !.inverted = BoundEntry(c, e).inverted]
        /\ BoundTo(c, BoundEntry(c, e))
        /\ BoundEntry(c, e).match # <<>> => BoundEntry(c, e).match \in DOMAIN c.index
    BY <2>2, BoundEntrySound
  <2>4. /\ list[k] \in Entry
        /\ list[k] = [e EXCEPT !.match = list[k].match, !.inverted = list[k].inverted]
        /\ BoundTo(c, list[k])
        /\ list[k].match # <<>> => list[k].match \in DOMAIN c.index
    BY <2>2, <2>3
  <2> QED
    BY <2>4 DEF e
<1>12. list \in Seq(Entry) /\ DOMAIN list = DOMAIN w.entries /\ Len(list) = Len(w.entries)
  <2>1. \A k \in 1 .. Len(w.entries) : BoundEntry(c, w.entries[k]) \in Entry
    BY <1>8, <1>11
  <2> QED
    BY <1>8, <2>1
<1> HIDE DEF list
<1>13. /\ u \in Task /\ u.entries = list
       /\ u.kind = t.kind /\ u.cutsMap = t.cutsMap /\ u.plain = t.plain
       /\ u.inBranches = t.inBranches /\ u.readers = t.inBranches /\ u.ready = ready
  BY <1>3, <1>5, <1>6, <1>7, <1>10, <1>12 DEF Task
<1>14. ASSUME NEW k \in DOMAIN w.entries
       PROVE  /\ list[k].vars = w.entries[k].vars /\ list[k].cut = w.entries[k].cut
              /\ list[k].names = w.entries[k].names /\ list[k].rows = w.entries[k].rows
  BY <1>8, <1>11, MatchOnly
<1>15. ASSUME NEW k \in DOMAIN list
       PROVE  ReadsNames(list[k]) /\ list[k].rows = <<>>
  BY <1>1, <1>12, <1>14 DEF TaskFresh, ReadsNames
<1>16. ASSUME NEW k \in DOMAIN t.entries
       PROVE  k \in DOMAIN list /\ Widens(list[k], t.entries[k])
  <2>1. k \in DOMAIN w.entries /\ Extends(w.entries[k], t.entries[k])
    BY <1>5, <1>8
  <2>2. Widens(w.entries[k], t.entries[k])
    BY <1>8, <2>1, ExtendsWidens
  <2> QED
    BY <1>12, <1>14, <2>1, <2>2 DEF Widens
<1>17. ASSUME NEW k \in DOMAIN list
       PROVE  EntryReady(c, u, list[k])
  <2>1. k \in DOMAIN w.entries /\ w.entries[k] \in ToSet(w.entries)
    BY <1>9, <1>12
  <2>2. list[k].names \subseteq t.inBranches
    BY <1>2, <1>14, <2>1 DEF EntryOk
  <2>3. list[k].names # {}
    BY <1>11, <1>12, <1>15, SomeBranch
  <2>4. list[k].cut \in ready \cup {NoCut}
    BY <1>4, <1>14, <2>1
  <2>5. \A b \in list[k].names \cap DOMAIN t.cutsMap : t.cutsMap[b] \in ready
    BY <1>4, <1>6, <2>2
  <2> QED
    BY <1>11, <1>13, <2>1, <2>2, <2>3, <2>4, <2>5 DEF EntryReady
<1>18. TaskReady(c, u)
  BY <1>2, <1>12, <1>13, <1>17 DEF TaskReady
<1>19. Initiated(c, t, u)
  BY <1>11, <1>12, <1>13, <1>15, <1>16, <1>18 DEF Initiated
<1> QED
  BY <1>19 DEF u

(***************************************************************************)
(* The inductive invariant                                                 *)
(***************************************************************************)
Grants == [task : Nat, request : Requests, entry : Nat, ids : Seq(Nat)]

\* The types.  Once the constructor has come through there is the Configuration
\* of the input.
Shape ==
  /\ phase \in {"new", "setup", "ready", "running", "finished", "refused", "failed"}
  /\ phase \notin {"new", "refused"} =>
       files \in Inputs /\ config = GetConfigurationFromFileList(files).config
  /\ tasks \in Seq(Task) /\ granted \in Seq(Grants)
  /\ seen \in Seq(Events) /\ left \in Nat
  /\ written \in Seq(Nat) /\ ToSet(written) \subseteq 1 .. Len(seen)

\* Tables are about the branches of their variables and cuts, and their rows
\* are what the variables are there.
TaskNamed(t) ==
  /\ t.readers \subseteq t.inBranches
  /\ \A j \in DOMAIN t.entries : ReadsNames(t.entries[j]) /\ RowsEvaluated(t.entries[j])

Named == \A k \in DOMAIN tasks : TaskNamed(tasks[k])

\* What was asked of task k in the calls gs.
Asked(gs, k, v) == \E g \in DOMAIN gs : gs[g].task = k /\ v \in ToSet(gs[g].request.vars)

AskedCut(gs, k, c) == \E g \in DOMAIN gs : gs[g].task = k /\ gs[g].request.cut = c

\* Before Init the tables are empty and have only what was asked for.
TaskNew(gs, k, t) ==
  /\ TaskFresh(t)
  /\ \A j \in DOMAIN t.entries :
       /\ \A v \in ToSet(t.entries[j].vars) : Asked(gs, k, v)
       /\ AskedCut(gs, k, t.entries[j].cut)

BeforeInit ==
  phase \in {"new", "setup", "refused"} =>
    \A k \in DOMAIN tasks : TaskNew(granted, k, tasks[k])

\* The columns that were returned are still those that were asked for, and were
\* asked of that task.
ColumnsKept(gs, g, e) ==
  /\ GrantKept(gs[g].request, gs[g].ids, e)
  /\ \A i \in DOMAIN gs[g].ids : Asked(gs, gs[g].task, e.vars[gs[g].ids[i] + 1])
  /\ AskedCut(gs, gs[g].task, e.cut)

GrantsKept ==
  \A g \in DOMAIN granted :
    /\ granted[g].task \in DOMAIN tasks
    /\ granted[g].entry \in DOMAIN tasks[granted[g].task].entries
    /\ ColumnsKept(granted, g, tasks[granted[g].task].entries[granted[g].entry])

\* Before Run there is no event and no output.
BeforeRun ==
  phase \in {"new", "setup", "refused", "ready"} =>
    /\ seen = <<>> /\ written = <<>> /\ ~ current
    /\ \A k \in DOMAIN tasks : tasks[k].plain = <<>>

\* The readers and the Matchings of a task have their objects.
Served(c, objects, t) ==
  /\ \A b \in t.readers : b \in DOMAIN objects /\ objects[b] = c.branch[b].type
  /\ \A j \in DOMAIN t.entries :
       t.entries[j].match # <<>> =>
         /\ t.entries[j].match \in DOMAIN c.index
         /\ c.index[t.entries[j].match] \in DOMAIN objects
         /\ objects[c.index[t.entries[j].match]] = "Matching"

AfterInit ==
  Initialised =>
    \A k \in DOMAIN tasks :
      TaskReady(config, tasks[k]) /\ Served(config, pointers, tasks[k])

\* RowsExact of a task.
TaskExact(c, t, ev) == \A j \in DOMAIN t.entries : RowsRight(c, t, t.entries[j], ev)

Exact ==
  current =>
    /\ seen # <<>>
    /\ \A k \in DOMAIN tasks : TaskExact(config, tasks[k], seen[Len(seen)])

\* The events in s that the cuts of set accept, and what a plain tree has of them.
Accepts(set, ev) ==
  set.eventCuts # NoCut =>
    Passes(set.eventCuts, ev, [b \in CutBranches[set.eventCuts] |-> 0])

Accepted(set, s) == {i \in DOMAIN s : Accepts(set, s[i])}

PlainRows(c, set, t, s) ==
  UNION {{i} \X Expected(c, t, t.entries[1], s[i]) : i \in Accepted(set, s)}

PlainRight(c, set, t, s) ==
  t.kind = "PlainTreeFiller" =>
    /\ IsFiniteSet(PlainRows(c, set, t, s))
    /\ Len(t.plain) = Cardinality(PlainRows(c, set, t, s))

OutputRight ==
  phase \in {"running", "finished"} =>
    /\ settings.outFile /\ settings.outTree => written = Ascending(Accepted(settings, seen))
    /\ \A k \in DOMAIN tasks : PlainRight(config, settings, tasks[k], seen)

\* A table of t is over more branches than it can be, or has one whose id is lost.
Failing(c, t) ==
  \E j \in DOMAIN t.entries :
    \/ Cardinality(t.entries[j].names) > 2
    \/ Cardinality(t.entries[j].names) = 2
         /\ \E b \in t.entries[j].names : ~ IdSurvives(c, b)

Failures == phase = "failed" => \E k \in DOMAIN tasks : Failing(config, tasks[k])

IInv ==
  /\ Shape /\ Named /\ BeforeInit /\ GrantsKept /\ BeforeRun
  /\ AfterInit /\ Exact /\ OutputRight /\ Failures

(***************************************************************************)
(* What the steps before Init leave                                        *)
(***************************************************************************)
\* hs are the calls gs and perhaps more.
MoreCalls(gs, hs) ==
  /\ gs \in Seq(Grants) /\ hs \in Seq(Grants)
  /\ \A g \in DOMAIN gs : g \in DOMAIN hs /\ hs[g] = gs[g]

\* What was asked for stays asked for.
LEMMA StillAsked ==
  ASSUME NEW gs, NEW hs, MoreCalls(gs, hs), NEW k
  PROVE  /\ \A v : Asked(gs, k, v) => Asked(hs, k, v)
         /\ \A c : AskedCut(gs, k, c) => AskedCut(hs, k, c)
BY DEF MoreCalls, Asked, AskedCut

\* The columns stay when the table gets more.
LEMMA ColumnsWiden ==
  ASSUME NEW gs, NEW hs, MoreCalls(gs, hs), NEW g \in DOMAIN gs,
         NEW e \in Entry, NEW f \in Entry, Widens(f, e), ColumnsKept(gs, g, e)
  PROVE  ColumnsKept(hs, g, f)
<1> DEFINE r == gs[g].request
           ids == gs[g].ids
<1>1. g \in DOMAIN hs /\ hs[g] = gs[g] /\ gs[g] \in Grants
  BY DEF MoreCalls
<1>2. r \in Requests /\ ids \in Seq(Nat)
  BY <1>1 DEF Grants
<1>3. r.vars \in Seq(Variables)
  BY <1>2, RequestsAssumption
<1>4. GrantKept(r, ids, e)
  BY DEF ColumnsKept
<1>5. /\ \A i \in DOMAIN ids : Asked(gs, gs[g].task, e.vars[ids[i] + 1])
      /\ AskedCut(gs, gs[g].task, e.cut)
  BY DEF ColumnsKept
<1> HIDE DEF r, ids
<1>6. Len(ids) = Len(r.vars) /\ DOMAIN ids = DOMAIN r.vars
  BY <1>2, <1>3, <1>4 DEF GrantKept
<1>7. /\ Len(e.vars) \in Nat /\ Len(f.vars) \in Nat /\ Len(e.vars) <= Len(f.vars)
      /\ f.cut = e.cut /\ \A i \in 1 .. Len(e.vars) : f.vars[i] = e.vars[i]
  BY DEF Entry, Widens
<1>8. ASSUME NEW i \in DOMAIN r.vars
      PROVE  /\ ids[i] \in 0 .. Len(f.vars) - 1
             /\ f.vars[ids[i] + 1] = e.vars[ids[i] + 1]
             /\ SameVariable(e.vars[ids[i] + 1], r.vars[i])
  <2>1. ids[i] \in 0 .. Len(e.vars) - 1 /\ SameVariable(e.vars[ids[i] + 1], r.vars[i])
    BY <1>4 DEF GrantKept
  <2>2. ids[i] + 1 \in 1 .. Len(e.vars)
    BY <1>7, <2>1
  <2> QED
    BY <1>7, <2>1, <2>2
<1>9. GrantKept(r, ids, f)
  <2>1. EqualCuts(f.cut, r.cut)
    BY <1>4, <1>7 DEF GrantKept
  <2>2. ASSUME NEW i \in DOMAIN r.vars
        PROVE  ids[i] \in 0 .. Len(f.vars) - 1 /\ SameVariable(f.vars[ids[i] + 1], r.vars[i])
    <3>1. SameVariable(e.vars[ids[i] + 1], r.vars[i]) /\ ids[i] \in 0 .. Len(f.vars) - 1
      BY <1>8
    <3>2. f.vars[ids[i] + 1] = e.vars[ids[i] + 1]
      BY <1>8
    <3> QED
      BY <3>1, <3>2
  <2> QED
    BY <1>6, <2>1, <2>2 DEF GrantKept
<1>10. ASSUME NEW i \in DOMAIN ids
       PROVE  Asked(hs, hs[g].task, f.vars[ids[i] + 1])
  <2>1. Asked(gs, gs[g].task, e.vars[ids[i] + 1])
    BY <1>5
  <2>2. f.vars[ids[i] + 1] = e.vars[ids[i] + 1]
    BY <1>6, <1>8
  <2>3. Asked(hs, gs[g].task, e.vars[ids[i] + 1])
    BY <2>1, StillAsked
  <2> QED
    BY <1>1, <2>2, <2>3
<1>11. AskedCut(hs, hs[g].task, f.cut)
  <2>1. AskedCut(hs, gs[g].task, e.cut)
    BY <1>5, StillAsked
  <2> QED
    BY <1>1, <1>7, <2>1
<1> QED
  BY <1>1, <1>9, <1>10, <1>11 DEF ColumnsKept, r, ids

\* A task stays new when others are asked for more.
LEMMA StaysNew ==
  ASSUME NEW gs, NEW hs, MoreCalls(gs, hs), NEW k, NEW t, TaskNew(gs, k, t)
  PROVE  TaskNew(hs, k, t)
BY StillAsked DEF TaskNew

\* Before Init most parts of the invariant are about nothing.
LEMMA StepBeforeInit ==
  ASSUME IInv, phase \in {"new", "setup"}, phase' \in {"setup", "refused"},
         UNCHANGED run, Shape', Named', BeforeInit', GrantsKept',
         \A k \in DOMAIN tasks' : tasks'[k].plain = <<>>
  PROVE  IInv'
<1>1. seen' = <<>> /\ written' = <<>> /\ ~ current'
  BY DEF IInv, BeforeRun, run
<1>2. BeforeRun'
  BY <1>1 DEF BeforeRun
<1>3. AfterInit' /\ Exact' /\ OutputRight' /\ Failures'
  BY <1>1 DEF AfterInit, Initialised, Exact, OutputRight, Failures
<1> QED
  BY <1>2, <1>3 DEF IInv

\* A task changes, and AddEntry may have returned something.
LEMMA TaskChanges ==
  ASSUME IInv, phase = "setup", UNCHANGED <<phase, setup, run>>,
         NEW k \in DOMAIN tasks, NEW u \in Task, tasks' = [tasks EXCEPT ![k] = u],
         u.plain = tasks[k].plain, TaskNamed(u), TaskNew(granted', k, u),
         \A j \in DOMAIN tasks[k].entries :
           j \in DOMAIN u.entries /\ Widens(u.entries[j], tasks[k].entries[j]),
         MoreCalls(granted, granted'),
         \A g \in DOMAIN granted' \ DOMAIN granted :
           /\ granted'[g].task = k /\ granted'[g].entry \in DOMAIN u.entries
           /\ ColumnsKept(granted', g, u.entries[granted'[g].entry])
  PROVE  IInv'
<1> USE DEF setup, run
<1>1. /\ tasks \in Seq(Task) /\ DOMAIN tasks' = DOMAIN tasks /\ tasks'[k] = u
      /\ tasks' \in Seq(Task)
      /\ \A m \in DOMAIN tasks : m # k => tasks'[m] = tasks[m]
      /\ \A m \in DOMAIN tasks : tasks[m] \in Task /\ tasks'[m] \in Task
  BY DEF IInv, Shape
<1>2. Shape'
  BY <1>1 DEF IInv, Shape, MoreCalls
<1>3. Named'
  BY <1>1 DEF IInv, Named
<1>4. BeforeInit'
  <2> SUFFICES ASSUME NEW m \in DOMAIN tasks PROVE TaskNew(granted', m, tasks'[m])
    BY <1>1 DEF BeforeInit
  <2>1. CASE m = k
    BY <1>1, <2>1
  <2>2. CASE m # k
    <3>1. TaskNew(granted, m, tasks[m])
      BY DEF IInv, BeforeInit
    <3>2. TaskNew(granted', m, tasks[m])
      BY <3>1, StaysNew
    <3> QED
      BY <1>1, <2>2, <3>2
  <2> QED
    BY <2>1, <2>2
<1>5. GrantsKept'
  <2> SUFFICES ASSUME NEW g \in DOMAIN granted'
               PROVE  /\ granted'[g].task \in DOMAIN tasks'
                      /\ granted'[g].entry \in DOMAIN tasks'[granted'[g].task].entries
                      /\ ColumnsKept(granted', g,
                           tasks'[granted'[g].task].entries[granted'[g].entry])
    BY DEF GrantsKept
  <2>1. CASE g \notin DOMAIN granted
    BY <1>1, <2>1
  <2>2. CASE g \in DOMAIN granted
    <3> DEFINE m == granted[g].task
               n == granted[g].entry
    <3>1. granted'[g] = granted[g]
      BY <2>2 DEF MoreCalls
    <3>2. m \in DOMAIN tasks /\ n \in DOMAIN tasks[m].entries
          /\ ColumnsKept(granted, g, tasks[m].entries[n])
      BY <2>2 DEF IInv, GrantsKept
    <3> HIDE DEF m, n
    <3>3. n \in DOMAIN tasks'[m].entries /\ Widens(tasks'[m].entries[n], tasks[m].entries[n])
      <4>1. CASE m = k
        BY <1>1, <3>2, <4>1
      <4>2. CASE m # k
        <5>1. tasks'[m] = tasks[m] /\ tasks[m].entries[n] \in Entry
          BY <1>1, <3>2, <4>2 DEF Task
        <5>2. Widens(tasks[m].entries[n], tasks[m].entries[n])
          BY <5>1 DEF Widens, Entry
        <5> QED
          BY <3>2, <5>1, <5>2
      <4> QED
        BY <4>1, <4>2
    <3>4. tasks'[m].entries[n] \in Entry /\ tasks[m].entries[n] \in Entry
      BY <1>1, <3>2, <3>3 DEF Task
    <3>5. ColumnsKept(granted', g, tasks'[m].entries[n])
      BY <2>2, <3>2, <3>3, <3>4, ColumnsWiden
    <3> QED
      BY <1>1, <3>1, <3>2, <3>3, <3>5 DEF m, n
  <2> QED
    BY <2>1, <2>2
<1>6. \A m \in DOMAIN tasks' : tasks'[m].plain = <<>>
  BY <1>1 DEF IInv, BeforeRun
<1> QED
  BY <1>2, <1>3, <1>4, <1>5, <1>6, StepBeforeInit

(***************************************************************************)
(* The steps before Init                                                   *)
(***************************************************************************)
LEMMA ConstructKeeps ==
  ASSUME IInv, NEW list \in Inputs, NEW set \in Settings, Construct(list, set)
  PROVE  IInv'
<1> USE DEF setup, run
<1>1. /\ phase = "new" /\ phase' \in {"setup", "refused"} /\ UNCHANGED <<tasks, run, granted>>
      /\ phase' = "setup" =>
           files' \in Inputs /\ config' = GetConfigurationFromFileList(files').config
  BY DEF Construct
<1>2. Shape'
  BY <1>1 DEF IInv, Shape
<1>3. Named' /\ GrantsKept'
  BY <1>1 DEF IInv, Named, GrantsKept
<1>4. BeforeInit'
  BY <1>1 DEF IInv, BeforeInit
<1>5. \A k \in DOMAIN tasks' : tasks'[k].plain = <<>>
  BY <1>1 DEF IInv, BeforeRun
<1> QED
  BY <1>1, <1>2, <1>3, <1>4, <1>5, StepBeforeInit

\* A task without entries.
LEMMA NewTaskSound ==
  ASSUME NEW kind \in {"VarManager", "PlainTreeFiller"}, NEW m \in TaskSettings
  PROVE  LET t == NewTask(kind, m)
         IN t \in Task /\ t.entries = <<>> /\ t.plain = <<>> /\ t.readers = {}
<1>1. /\ NoBranch \in Branches \cup {NoBranch} /\ {} \in SUBSET Branches
      /\ {} \in SUBSET CutObjects /\ <<>> \in Seq(Entry) /\ <<>> \in Seq(Rows)
  OBVIOUS
<1> QED
  BY <1>1 DEF NewTask, Task

LEMMA AddTaskKeeps ==
  ASSUME IInv, NEW kind \in {"VarManager", "PlainTreeFiller"}, NEW m \in TaskSettings,
         AddTask(kind, m)
  PROVE  IInv'
<1> USE DEF setup, run
<1> DEFINE t == NewTask(kind, m)
<1>1. t \in Task /\ t.entries = <<>> /\ t.plain = <<>> /\ t.readers = {}
  BY NewTaskSound
<1>2. /\ phase = "setup" /\ phase' = "setup" /\ UNCHANGED <<setup, run, granted>>
      /\ tasks' = Append(tasks, t)
  BY DEF AddTask
<1>3. tasks \in Seq(Task)
  BY DEF IInv, Shape
<1> HIDE DEF t
<1>4. /\ tasks' \in Seq(Task) /\ DOMAIN tasks \subseteq DOMAIN tasks'
      /\ \A k \in DOMAIN tasks : tasks'[k] = tasks[k]
      /\ \A k \in DOMAIN tasks' \ DOMAIN tasks : tasks'[k] = t
  BY <1>1, <1>2, <1>3
<1>5. Shape'
  BY <1>2, <1>4 DEF IInv, Shape
<1>6. Named'
  <2>1. TaskNamed(t)
    BY <1>1 DEF TaskNamed
  <2> QED
    BY <1>4, <2>1 DEF IInv, Named
<1>7. BeforeInit'
  <2>1. \A k : TaskNew(granted, k, t)
    BY <1>1 DEF TaskNew, TaskFresh
  <2>2. \A k \in DOMAIN tasks : TaskNew(granted, k, tasks[k])
    BY <1>2 DEF IInv, BeforeInit
  <2>3. \A k \in DOMAIN tasks' : TaskNew(granted, k, tasks'[k])
    BY <1>4, <2>1, <2>2
  <2> QED
    BY <1>2, <2>3 DEF BeforeInit
<1>8. GrantsKept'
  BY <1>2, <1>4 DEF IInv, GrantsKept
<1>9. \A k \in DOMAIN tasks' : tasks'[k].plain = <<>>
  <2>1. \A k \in DOMAIN tasks : tasks[k].plain = <<>>
    BY <1>2 DEF IInv, BeforeRun
  <2> QED
    BY <1>1, <1>4, <2>1
<1> QED
  BY <1>2, <1>5, <1>6, <1>7, <1>8, <1>9, StepBeforeInit

\* A table without rows is evaluated.
LEMMA NoRows ==
  ASSUME NEW e, e.rows = <<>>
  PROVE  RowsEvaluated(e)
BY DEF RowsEvaluated

\* The entries of a new task with what AddEntry adds for a request.
LEMMA RequestedTask ==
  ASSUME NEW gs, NEW hs, MoreCalls(gs, hs), NEW k, NEW t \in Task, TaskNew(gs, k, t),
         t.readers \subseteq t.inBranches,
         NEW r \in AnyRequest, NEW added, added = AddEntry(t, r),
         \A v \in ToSet(r.vars) : Asked(hs, k, v), AskedCut(hs, k, r.cut)
  PROVE  /\ AddSound(t, r, added)
         /\ added.task.plain = t.plain
         /\ TaskNamed(added.task)
         /\ TaskNew(hs, k, added.task)
         /\ \A j \in DOMAIN t.entries :
              /\ j \in DOMAIN added.task.entries
              /\ Widens(added.task.entries[j], t.entries[j])
<1> DEFINE u == added.task
<1>1. TaskFresh(t) /\ \A j \in DOMAIN t.entries : ReadsNames(t.entries[j])
  BY DEF TaskNew, TaskFresh
<1>2. AddSound(t, r, added)
  BY <1>1, AddEntrySound
<1>3. TaskFresh(u)
  BY <1>1, GrownReflexive, AddEntryGrows
<1>4. u \in Task /\ u = [t EXCEPT !.entries = u.entries] /\ EntriesGrow(t.entries, r, u.entries)
  BY <1>2 DEF AddSound
<1> HIDE DEF u
<1>5. u.plain = t.plain /\ u.readers = t.readers /\ u.inBranches = t.inBranches
  BY <1>4 DEF Task
<1>6. t.entries \in Seq(Entry) /\ u.entries \in Seq(Entry)
  BY <1>4 DEF Task
<1>7. /\ DOMAIN t.entries = 1 .. Len(t.entries) /\ Len(t.entries) \in Nat
      /\ DOMAIN u.entries = 1 .. Len(u.entries) /\ Len(u.entries) \in Nat
      /\ Len(t.entries) <= Len(u.entries)
      /\ \A j \in DOMAIN t.entries : t.entries[j] \in Entry
      /\ \A j \in DOMAIN u.entries : u.entries[j] \in Entry
  BY <1>4, <1>6 DEF EntriesGrow
<1>8. ASSUME NEW j \in DOMAIN t.entries
      PROVE  j \in DOMAIN u.entries /\ Widens(u.entries[j], t.entries[j])
  <2>1. Extends(u.entries[j], t.entries[j])
    BY <1>4, <1>7 DEF EntriesGrow
  <2> QED
    BY <1>7, <2>1, ExtendsWidens
<1>9. TaskNamed(u)
  <2>1. \A j \in DOMAIN u.entries : ReadsNames(u.entries[j]) /\ u.entries[j].rows = <<>>
    BY <1>3 DEF TaskFresh
  <2>2. \A j \in DOMAIN u.entries : RowsEvaluated(u.entries[j])
    BY <2>1, NoRows
  <2> QED
    BY <1>5, <2>1, <2>2 DEF TaskNamed
<1>10. ASSUME NEW j \in DOMAIN u.entries
       PROVE  /\ \A v \in ToSet(u.entries[j].vars) : Asked(hs, k, v)
              /\ AskedCut(hs, k, u.entries[j].cut)
  <2>1. /\ j > Len(t.entries) => u.entries[j].cut = r.cut
        /\ \A i \in DOMAIN u.entries[j].vars :
             \/ u.entries[j].vars[i] \in ToSet(r.vars)
             \/ j <= Len(t.entries) /\ u.entries[j].vars[i] \in ToSet(t.entries[j].vars)
    BY <1>4 DEF EntriesGrow
  <2>2. j <= Len(t.entries) => j \in DOMAIN t.entries
    BY <1>7
  <2>3. j \in DOMAIN t.entries =>
          /\ \A v \in ToSet(t.entries[j].vars) : Asked(hs, k, v)
          /\ AskedCut(hs, k, t.entries[j].cut)
    BY StillAsked DEF TaskNew
  <2>4. \A i \in DOMAIN u.entries[j].vars : Asked(hs, k, u.entries[j].vars[i])
    BY <2>1, <2>2, <2>3
  <2>5. AskedCut(hs, k, u.entries[j].cut)
    <3>1. CASE j \in DOMAIN t.entries
      BY <1>8, <2>3, <3>1 DEF Widens
    <3>2. CASE j \notin DOMAIN t.entries
      <4>1. j > Len(t.entries)
        BY <1>7, <3>2
      <4> QED
        BY <2>1, <4>1
    <3> QED
      BY <3>1, <3>2
  <2> QED
    BY <2>4, <2>5 DEF ToSet
<1>11. TaskNew(hs, k, u)
  BY <1>3, <1>10 DEF TaskNew
<1> QED
  BY <1>2, <1>5, <1>8, <1>9, <1>11 DEF u

LEMMA RequestEntryKeeps ==
  ASSUME IInv, NEW k \in DOMAIN tasks, NEW r \in Requests, RequestEntry(k, r)
  PROVE  IInv'
<1> USE DEF setup, run
<1> DEFINE added == AddEntry(tasks[k], r)
           x == [task |-> k, request |-> r, entry |-> added.entry, ids |-> added.ids]
           u == added.task
<1>1. /\ phase = "setup" /\ UNCHANGED <<phase, setup, run>>
      /\ tasks' = [tasks EXCEPT ![k] = u] /\ granted' = Append(granted, x)
  BY DEF RequestEntry, MayCall
<1>2. tasks \in Seq(Task) /\ tasks[k] \in Task /\ k \in Nat /\ granted \in Seq(Grants)
  BY DEF IInv, Shape
<1>3. r \in AnyRequest
  BY RequestsAssumption DEF AnyRequest, Cuts
<1>4. /\ tasks[k].readers \subseteq tasks[k].inBranches
      /\ \A j \in DOMAIN tasks[k].entries : ReadsNames(tasks[k].entries[j])
  BY DEF IInv, Named, TaskNamed
<1>5. AddSound(tasks[k], r, added)
  BY <1>2, <1>3, <1>4, AddEntrySound
<1> HIDE DEF added
<1>6. /\ added.entry \in DOMAIN u.entries /\ added.ids \in Seq(Nat) /\ u \in Task
      /\ GrantKept(r, added.ids, u.entries[added.entry])
  BY <1>5 DEF AddSound
<1> HIDE DEF u
<1>7. u.entries \in Seq(Entry)
  BY <1>6 DEF Task
<1>8. added.entry \in Nat /\ u.entries[added.entry] \in Entry
  BY <1>6, <1>7
<1>9. x \in Grants
  BY <1>2, <1>6, <1>8 DEF Grants
<1>10. x.task = k /\ x.request = r /\ x.entry = added.entry /\ x.ids = added.ids
  OBVIOUS
<1> HIDE DEF x
<1>11. MoreCalls(granted, granted') /\ granted'[Len(granted) + 1] = x
       /\ Len(granted) + 1 \in DOMAIN granted'
       /\ DOMAIN granted' \ DOMAIN granted = {Len(granted) + 1}
  BY <1>1, <1>2, <1>9 DEF MoreCalls
<1>12. (\A v \in ToSet(r.vars) : Asked(granted', k, v)) /\ AskedCut(granted', k, r.cut)
  BY <1>10, <1>11 DEF Asked, AskedCut
<1>13. TaskNew(granted, k, tasks[k])
  BY <1>1 DEF IInv, BeforeInit
<1>14. /\ u.plain = tasks[k].plain /\ TaskNamed(u) /\ TaskNew(granted', k, u)
       /\ \A j \in DOMAIN tasks[k].entries :
            j \in DOMAIN u.entries /\ Widens(u.entries[j], tasks[k].entries[j])
  BY <1>2, <1>3, <1>4, <1>11, <1>12, <1>13, RequestedTask DEF added, u
<1>15. ASSUME NEW g \in DOMAIN granted' \ DOMAIN granted
       PROVE  /\ granted'[g].task = k /\ granted'[g].entry \in DOMAIN u.entries
              /\ ColumnsKept(granted', g, u.entries[granted'[g].entry])
  <2> DEFINE e == u.entries[added.entry]
  <2>1. granted'[g] = x
    BY <1>11
  <2>2. e \in Entry /\ GrantKept(r, added.ids, e)
    BY <1>6, <1>8
  <2>3. (\A v \in ToSet(e.vars) : Asked(granted', k, v)) /\ AskedCut(granted', k, e.cut)
    BY <1>6, <1>14 DEF TaskNew
  <2> HIDE DEF e
  <2>4. e.vars \in Seq(Variables) /\ r.vars \in Seq(Variables)
    BY <1>3, <2>2 DEF Entry, AnyRequest
  <2>5. ASSUME NEW i \in DOMAIN added.ids
        PROVE  Asked(granted', k, e.vars[added.ids[i] + 1])
    <3>1. i \in DOMAIN r.vars
      BY <1>6, <2>2, <2>4 DEF GrantKept
    <3>2. added.ids[i] \in 0 .. Len(e.vars) - 1
      BY <2>2, <3>1 DEF GrantKept
    <3>3. added.ids[i] + 1 \in DOMAIN e.vars
      BY <2>4, <3>2
    <3>4. e.vars[added.ids[i] + 1] \in ToSet(e.vars)
      BY <3>3 DEF ToSet
    <3> QED
      BY <2>3, <3>4
  <2>6. ColumnsKept(granted', g, e)
    BY <1>10, <2>1, <2>2, <2>3, <2>5 DEF ColumnsKept
  <2> QED
    BY <1>6, <1>10, <2>1, <2>6 DEF e
<1> QED
  BY <1>1, <1>6, <1>11, <1>14, <1>15, TaskChanges

\* A task of which only the branches change.
LEMMA BranchesChange ==
  ASSUME IInv, phase = "setup", UNCHANGED <<phase, setup, run, granted>>,
         NEW k \in DOMAIN tasks, NEW u \in Task, tasks' = [tasks EXCEPT ![k] = u],
         u.entries = tasks[k].entries, u.plain = tasks[k].plain,
         u.readers = tasks[k].readers, tasks[k].inBranches \subseteq u.inBranches
  PROVE  IInv'
<1> USE DEF setup, run
<1>1. tasks[k] \in Task /\ granted \in Seq(Grants)
  BY DEF IInv, Shape
<1>2. TaskNamed(u)
  BY DEF IInv, Named, TaskNamed
<1>3. TaskNew(granted, k, tasks[k])
  BY DEF IInv, BeforeInit
<1>4. TaskNew(granted', k, u)
  BY <1>3 DEF TaskNew, TaskFresh
<1>5. MoreCalls(granted, granted')
  BY <1>1 DEF MoreCalls
<1>6. ASSUME NEW j \in DOMAIN tasks[k].entries
      PROVE  j \in DOMAIN u.entries /\ Widens(u.entries[j], tasks[k].entries[j])
  <2>1. tasks[k].entries[j] \in Entry
    BY <1>1 DEF Task
  <2> QED
    BY <2>1 DEF Widens, Entry
<1> QED
  BY <1>2, <1>4, <1>5, <1>6, TaskChanges

LEMMA RequestBranchKeeps ==
  ASSUME IInv, NEW k \in DOMAIN tasks, NEW b \in ToSet(NameOrder), RequestBranch(k, b)
  PROVE  IInv'
<1> USE DEF setup, run
<1> DEFINE t == tasks[k]
           u == AddBranch(t, b)
<1>1. /\ phase = "setup" /\ UNCHANGED <<phase, setup, run, granted>>
      /\ tasks' = [tasks EXCEPT ![k] = u]
  BY DEF RequestBranch, MayCall
<1>2. t \in Task
  BY DEF IInv, Shape
<1>3. u = [t EXCEPT !.branch = b, !.inBranches = @ \cup {b}]
  BY DEF AddBranch
<1> HIDE DEF t, u
<1>4. /\ u \in Task /\ u.entries = t.entries /\ u.plain = t.plain
      /\ u.readers = t.readers /\ t.inBranches \subseteq u.inBranches
  BY <1>2, <1>3 DEF Task, Branches
<1> QED
  BY <1>1, <1>4, BranchesChange DEF t

LEMMA CollectBranchesKeeps ==
  ASSUME IInv, NEW k \in DOMAIN tasks, CollectBranches(k)
  PROVE  IInv'
<1> USE DEF setup, run
<1> DEFINE t == tasks[k]
           all == UNION {e.names : e \in ToSet(t.entries)}
           u == FillBranchNames(t)
<1>1. /\ phase = "setup" /\ UNCHANGED <<phase, setup, run, granted>>
      /\ tasks' = [tasks EXCEPT ![k] = u]
  BY DEF CollectBranches
<1>2. t \in Task
  BY DEF IInv, Shape
<1>3. u = [t EXCEPT !.inBranches = @ \cup all]
  BY DEF FillBranchNames
<1>4. all \subseteq Branches
  <2>1. \A e \in ToSet(t.entries) : e \in Entry
    <3>1. t.entries \in Seq(Entry)
      BY <1>2 DEF Task
    <3> QED
      BY <3>1 DEF ToSet
  <2> QED
    BY <2>1 DEF Entry
<1> HIDE DEF t, u, all
<1>5. /\ u \in Task /\ u.entries = t.entries /\ u.plain = t.plain
      /\ u.readers = t.readers /\ t.inBranches \subseteq u.inBranches
  BY <1>2, <1>3, <1>4 DEF Task
<1> QED
  BY <1>1, <1>5, BranchesChange DEF t

(***************************************************************************)
(* Init                                                                    *)
(***************************************************************************)
\* There are objects for these branches, and for the Matchings.
BranchObjects(c, objects, names) ==
  \A b \in names : c.branch[b].type # "kGeneric" =>
    b \in DOMAIN objects /\ objects[b] = c.branch[b].type

MatchingObjects(c, objects) ==
  \A p \in DOMAIN c.index :
    c.index[p] \in DOMAIN objects /\ objects[c.index[p]] = "Matching"

\* What the tasks read has its object, and so have the Matchings.
LEMMA PointersServe ==
  ASSUME NEW c, NEW chain, NEW names, PointersOk(chain, c, names),
         NEW objects, objects = GetPointersToBranches(c, names)
  PROVE  BranchObjects(c, objects, names) /\ MatchingObjects(c, objects)
<1> DEFINE wanted == Wanted(c, names)
           matchings == MatchingNames(c)
<1>1. objects = [n \in wanted \cup matchings |->
                   IF n \in matchings THEN "Matching"
                   ELSE IF c.branch[n].type = "kGeneric" THEN "nullptr"
                   ELSE c.branch[n].type]
  BY DEF GetPointersToBranches
<1>2. wanted \cap matchings = {}
  BY DEF PointersOk
<1>3. \A b \in names : b \in wanted
  BY DEF Wanted
<1>4. \A p \in DOMAIN c.index : c.index[p] \in matchings
  BY DEF MatchingNames
<1> HIDE DEF wanted, matchings
<1> QED
  BY <1>1, <1>2, <1>3, <1>4 DEF BranchObjects, MatchingObjects

\* Init of a task keeps what the invariant says of it and makes it ready.
LEMMA TaskInitialised ==
  ASSUME NEW c, NEW objects, NEW t \in Task, NEW gs, NEW k, TaskNew(gs, k, t),
         TaskOk(t, c), NEW u, u = InitTask(t, c),
         BranchObjects(c, objects, t.inBranches), MatchingObjects(c, objects)
  PROVE  /\ u \in Task /\ u.plain = t.plain
         /\ TaskNamed(u) /\ TaskReady(c, u) /\ Served(c, objects, u)
         /\ \A j \in DOMAIN t.entries :
              j \in DOMAIN u.entries /\ Widens(u.entries[j], t.entries[j])
<1>1. Initiated(c, t, u)
  BY InitTaskSound DEF TaskNew
<1>2. /\ u \in Task /\ u.plain = t.plain
      /\ u.inBranches = t.inBranches /\ u.readers = t.inBranches
      /\ \A j \in DOMAIN u.entries :
           /\ ReadsNames(u.entries[j]) /\ u.entries[j].rows = <<>>
           /\ u.entries[j].match # <<>> => u.entries[j].match \in DOMAIN c.index
      /\ \A j \in DOMAIN t.entries :
           j \in DOMAIN u.entries /\ Widens(u.entries[j], t.entries[j])
      /\ TaskReady(c, u)
  BY <1>1 DEF Initiated
<1>3. TaskNamed(u)
  BY <1>2, NoRows DEF TaskNamed
<1>4. \A b \in t.inBranches : c.branch[b].type # "kGeneric"
  BY DEF TaskOk, ReaderOk
<1>5. Served(c, objects, u)
  BY <1>2, <1>4 DEF Served, BranchObjects, MatchingObjects
<1> QED
  BY <1>2, <1>3, <1>5

\* The columns stay when the tables get more, or their rows change.
LEMMA GrantsStay ==
  ASSUME IInv, UNCHANGED granted, tasks' \in Seq(Task), DOMAIN tasks' = DOMAIN tasks,
         \A k \in DOMAIN tasks : \A j \in DOMAIN tasks[k].entries :
           /\ j \in DOMAIN tasks'[k].entries
           /\ Widens(tasks'[k].entries[j], tasks[k].entries[j])
  PROVE  GrantsKept'
<1> SUFFICES ASSUME NEW g \in DOMAIN granted
             PROVE  /\ granted[g].task \in DOMAIN tasks'
                    /\ granted[g].entry \in DOMAIN tasks'[granted[g].task].entries
                    /\ ColumnsKept(granted, g,
                         tasks'[granted[g].task].entries[granted[g].entry])
  BY DEF GrantsKept
<1> DEFINE m == granted[g].task
           n == granted[g].entry
<1>1. m \in DOMAIN tasks /\ n \in DOMAIN tasks[m].entries
      /\ ColumnsKept(granted, g, tasks[m].entries[n])
  BY DEF IInv, GrantsKept
<1>2. granted \in Seq(Grants) /\ tasks \in Seq(Task)
  BY DEF IInv, Shape
<1>3. MoreCalls(granted, granted)
  BY <1>2 DEF MoreCalls
<1> HIDE DEF m, n
<1>4. /\ tasks[m].entries[n] \in Entry
      /\ n \in DOMAIN tasks'[m].entries /\ tasks'[m].entries[n] \in Entry
      /\ Widens(tasks'[m].entries[n], tasks[m].entries[n])
  <2>1. /\ n \in DOMAIN tasks'[m].entries
        /\ Widens(tasks'[m].entries[n], tasks[m].entries[n])
    BY <1>1
  <2>2. tasks[m] \in Task /\ tasks'[m] \in Task
    BY <1>1, <1>2
  <2>3. tasks[m].entries \in Seq(Entry) /\ tasks'[m].entries \in Seq(Entry)
    BY <2>2 DEF Task
  <2> QED
    BY <1>1, <2>1, <2>3
<1>5. ColumnsKept(granted, g, tasks'[m].entries[n])
  BY <1>1, <1>3, <1>4, ColumnsWiden
<1> QED
  BY <1>1, <1>4, <1>5 DEF m, n

\* Init throws.
LEMMA InitRefused ==
  ASSUME IInv, phase = "setup", phase' = "refused",
         UNCHANGED <<setup, run, granted, tasks>>
  PROVE  IInv'
<1> USE DEF setup, run
<1>1. Shape'
  BY DEF IInv, Shape
<1>2. Named' /\ GrantsKept'
  BY DEF IInv, Named, GrantsKept
<1>3. BeforeInit'
  BY DEF IInv, BeforeInit
<1>4. \A k \in DOMAIN tasks' : tasks'[k].plain = <<>>
  BY DEF IInv, BeforeRun
<1> QED
  BY <1>1, <1>2, <1>3, <1>4, StepBeforeInit

LEMMA InitTasksKeeps ==
  ASSUME IInv, InitTasks
  PROVE  IInv'
<1> USE DEF setup, run
<1>1. phase = "setup" /\ UNCHANGED <<setup, run, granted>>
  BY DEF InitTasks
<1>2. CASE phase' = "refused" /\ UNCHANGED tasks
  BY <1>1, <1>2, InitRefused
<1>3. CASE /\ PointersOk(MakeChain(files), config, InputBranches)
           /\ \A t \in ToSet(tasks) : TaskOk(t, config)
           /\ phase' = "ready"
           /\ pointers' = GetPointersToBranches(config, InputBranches)
           /\ tasks' = [k \in DOMAIN tasks |-> InitTask(tasks[k], config)]
  <2>1. tasks \in Seq(Task) /\ \A k \in DOMAIN tasks : tasks[k] \in Task
    BY DEF IInv, Shape
  <2>2. \A k \in DOMAIN tasks : tasks[k] \in ToSet(tasks)
    BY DEF ToSet
  <2>3. /\ BranchObjects(config, pointers', InputBranches)
        /\ MatchingObjects(config, pointers')
    BY <1>3, PointersServe
  <2>4. \A k \in DOMAIN tasks : tasks[k].inBranches \subseteq InputBranches
    BY <2>2 DEF InputBranches
  <2>5. ASSUME NEW k \in DOMAIN tasks
        PROVE  /\ tasks'[k] \in Task /\ tasks'[k].plain = tasks[k].plain
               /\ TaskNamed(tasks'[k]) /\ TaskReady(config, tasks'[k])
               /\ Served(config, pointers', tasks'[k])
               /\ \A j \in DOMAIN tasks[k].entries :
                    /\ j \in DOMAIN tasks'[k].entries
                    /\ Widens(tasks'[k].entries[j], tasks[k].entries[j])
    <3>1. tasks'[k] = InitTask(tasks[k], config) /\ TaskOk(tasks[k], config)
      BY <1>3, <2>2
    <3>2. TaskNew(granted, k, tasks[k])
      BY <1>1 DEF IInv, BeforeInit
    <3>3. BranchObjects(config, pointers', tasks[k].inBranches)
      BY <2>3, <2>4 DEF BranchObjects
    <3> QED
      BY <2>1, <2>3, <3>1, <3>2, <3>3, TaskInitialised
  <2>6. tasks' \in Seq(Task) /\ DOMAIN tasks' = DOMAIN tasks
    <3>1. DOMAIN tasks' = DOMAIN tasks /\ DOMAIN tasks = 1 .. Len(tasks) /\ Len(tasks) \in Nat
      BY <1>3, <2>1
    <3>2. tasks' = [k \in 1 .. Len(tasks) |-> tasks'[k]]
      BY <1>3, <3>1
    <3> QED
      BY <2>5, <3>1, <3>2
  <2>7. Shape'
    BY <1>1, <1>3, <2>6 DEF IInv, Shape
  <2>8. Named' /\ BeforeInit'
    BY <1>3, <2>5, <2>6 DEF Named, BeforeInit
  <2>9. GrantsKept'
    BY <1>1, <2>5, <2>6, GrantsStay
  <2>10. BeforeRun'
    BY <1>1, <2>5, <2>6 DEF IInv, BeforeRun
  <2>11. AfterInit'
    BY <1>1, <2>5, <2>6 DEF AfterInit
  <2>12. Exact' /\ OutputRight' /\ Failures'
    BY <1>1, <1>3, <2>10 DEF BeforeRun, Exact, OutputRight, Failures
  <2> QED
    BY <2>7, <2>8, <2>9, <2>10, <2>11, <2>12 DEF IInv
<1> QED
  BY <1>2, <1>3 DEF InitTasks

(***************************************************************************)
(* The events that are accepted and the rows a plain tree gets of them     *)
(***************************************************************************)
LEMMA AcceptedSound ==
  ASSUME NEW set, NEW s \in Seq(Events)
  PROVE  /\ IsFiniteSet(Accepted(set, s))
         /\ Accepted(set, s) \subseteq 1 .. Len(s)
         /\ Len(s) \in Nat
<1>1. Len(s) \in Nat /\ DOMAIN s = 1 .. Len(s)
  OBVIOUS
<1>2. IsFiniteSet(1 .. Len(s))
  BY <1>1, FS_Interval
<1>3. Accepted(set, s) \subseteq 1 .. Len(s)
  BY <1>1 DEF Accepted
<1> QED
  BY <1>1, <1>2, <1>3, FS_Subset

LEMMA AcceptedAppend ==
  ASSUME NEW set, NEW s \in Seq(Events), NEW ev \in Events
  PROVE  Accepted(set, Append(s, ev)) =
           IF Accepts(set, ev) THEN Accepted(set, s) \cup {Len(s) + 1} ELSE Accepted(set, s)
<1> DEFINE s2 == Append(s, ev)
           n == Len(s) + 1
<1>1. /\ DOMAIN s = 1 .. Len(s) /\ DOMAIN s2 = 1 .. n /\ s2[n] = ev /\ Len(s) \in Nat
      /\ \A i \in 1 .. Len(s) : s2[i] = s[i]
  OBVIOUS
<1> HIDE DEF s2
<1>2. \A i : i \in Accepted(set, s2) <=> i \in 1 .. n /\ Accepts(set, s2[i])
  BY <1>1 DEF Accepted
<1>3. \A i : i \in Accepted(set, s) <=> i \in 1 .. Len(s) /\ Accepts(set, s[i])
  BY <1>1 DEF Accepted
<1>4. \A i : i \in 1 .. n <=> i \in 1 .. Len(s) \/ i = n
  BY <1>1
<1>5. n \notin 1 .. Len(s)
  BY <1>1
<1> HIDE DEF n
<1>6. ASSUME NEW i
      PROVE  i \in Accepted(set, s2) <=> i \in Accepted(set, s) \/ (i = n /\ Accepts(set, ev))
  <2>1. CASE i \in 1 .. Len(s)
    <3>1. s2[i] = s[i] /\ i # n /\ i \in 1 .. n
      BY <1>1, <1>4, <1>5, <2>1
    <3> QED
      BY <1>2, <1>3, <2>1, <3>1
  <2>2. CASE i = n
    <3>1. s2[i] = ev /\ i \notin 1 .. Len(s) /\ i \in 1 .. n
      BY <1>1, <1>4, <1>5, <2>2
    <3> QED
      BY <1>2, <1>3, <2>2, <3>1
  <2>3. CASE i \notin 1 .. Len(s) /\ i # n
    <3>1. i \notin 1 .. n
      BY <1>4, <2>3
    <3> QED
      BY <1>2, <1>3, <2>3, <3>1
  <2> QED
    BY <2>1, <2>2, <2>3
<1>7. CASE Accepts(set, ev)
  <2>1. Accepted(set, s2) = Accepted(set, s) \cup {n}
    BY <1>6, <1>7
  <2> QED
    BY <1>7, <2>1 DEF s2, n
<1>8. CASE ~ Accepts(set, ev)
  <2>1. Accepted(set, s2) = Accepted(set, s)
    BY <1>6, <1>8
  <2> QED
    BY <1>8, <2>1 DEF s2
<1> QED
  BY <1>7, <1>8

\* The same names and cuts expect the same rows.
LEMMA ExpectedKept ==
  ASSUME NEW c, NEW t, NEW u, NEW e, NEW f, NEW ev,
         u.cutsMap = t.cutsMap, f.names = e.names, f.cut = e.cut
  PROVE  Expected(c, u, f, ev) = Expected(c, t, e, ev)
<1>1. CutsOn(u, f) = CutsOn(t, e)
  BY DEF CutsOn
<1> QED
  BY <1>1 DEF Expected

LEMMA PlainRowsKept ==
  ASSUME NEW c, NEW set, NEW t, NEW u, NEW s,
         u.cutsMap = t.cutsMap, u.entries[1].names = t.entries[1].names,
         u.entries[1].cut = t.entries[1].cut
  PROVE  PlainRows(c, set, u, s) = PlainRows(c, set, t, s)
<1>1. \A ev : Expected(c, u, u.entries[1], ev) = Expected(c, t, t.entries[1], ev)
  BY ExpectedKept
<1> QED
  BY <1>1 DEF PlainRows

LEMMA PlainRowsMember ==
  ASSUME NEW c, NEW set, NEW t, NEW s, NEW x
  PROVE  x \in PlainRows(c, set, t, s) <=>
           \E i \in Accepted(set, s) : x \in {i} \X Expected(c, t, t.entries[1], s[i])
BY DEF PlainRows

LEMMA PlainRowsAppend ==
  ASSUME NEW c, NEW set, NEW t, NEW s \in Seq(Events), NEW ev \in Events
  PROVE  PlainRows(c, set, t, Append(s, ev)) =
           IF Accepts(set, ev)
           THEN PlainRows(c, set, t, s) \cup ({Len(s) + 1} \X Expected(c, t, t.entries[1], ev))
           ELSE PlainRows(c, set, t, s)
<1> DEFINE s2 == Append(s, ev)
           n == Len(s) + 1
           X(e) == Expected(c, t, t.entries[1], e)
<1>1. s2[n] = ev /\ Len(s) \in Nat /\ \A i \in 1 .. Len(s) : s2[i] = s[i]
  OBVIOUS
<1>2. Accepted(set, s2) = IF Accepts(set, ev) THEN Accepted(set, s) \cup {n} ELSE Accepted(set, s)
  BY AcceptedAppend
<1>3. Accepted(set, s) \subseteq 1 .. Len(s)
  BY AcceptedSound
<1>4. \A x : x \in PlainRows(c, set, t, s2) <=>
               \E i \in Accepted(set, s2) : x \in {i} \X X(s2[i])
  BY PlainRowsMember
<1>5. \A x : x \in PlainRows(c, set, t, s) <=>
               \E i \in Accepted(set, s) : x \in {i} \X X(s[i])
  BY PlainRowsMember
<1> HIDE DEF s2, X, n
<1>6. \A i \in Accepted(set, s) : s2[i] = s[i]
  BY <1>1, <1>3
<1>7. CASE Accepts(set, ev)
  <2>1. \A x : x \in PlainRows(c, set, t, s2) <=>
                 x \in PlainRows(c, set, t, s) \/ x \in {n} \X X(ev)
    BY <1>1, <1>2, <1>4, <1>5, <1>6, <1>7
  <2>2. PlainRows(c, set, t, s2) = PlainRows(c, set, t, s) \cup ({n} \X X(ev))
    BY <2>1
  <2> QED
    BY <1>7, <2>2 DEF s2, n, X
<1>8. CASE ~ Accepts(set, ev)
  <2>1. \A x : x \in PlainRows(c, set, t, s2) <=> x \in PlainRows(c, set, t, s)
    BY <1>2, <1>4, <1>5, <1>6, <1>8
  <2>2. PlainRows(c, set, t, s2) = PlainRows(c, set, t, s)
    BY <2>1
  <2> QED
    BY <1>8, <2>2 DEF s2
<1> QED
  BY <1>7, <1>8

\* As many pairs with n as elements.
LEMMA PairsCardinality ==
  ASSUME NEW n, NEW S, IsFiniteSet(S)
  PROVE  IsFiniteSet({n} \X S) /\ Cardinality({n} \X S) = Cardinality(S)
<1> DEFINE f == [x \in S |-> <<n, x>>]
<1>1. DOMAIN f = S /\ \A x \in S : f[x] = <<n, x>>
  OBVIOUS
<1>2. {f[x] : x \in S} = {n} \X S
  BY <1>1
<1> HIDE DEF f
<1>3. IsInjective(f)
  BY <1>1 DEF IsInjective
<1>4. /\ IsFiniteSet({f[x] : x \in S})
      /\ Cardinality({f[x] : x \in S}) = Cardinality(S)
  BY <1>1, <1>3, ImageCardinality
<1> QED
  BY <1>2, <1>4

\* An accepted event adds as many rows to the plain tree as are expected of it.
LEMMA PlainRowsCount ==
  ASSUME NEW c, NEW set, NEW t, NEW s \in Seq(Events), NEW ev \in Events,
         Accepts(set, ev), IsFiniteSet(PlainRows(c, set, t, s)),
         NEW S, S = Expected(c, t, t.entries[1], ev), IsFiniteSet(S)
  PROVE  /\ IsFiniteSet(PlainRows(c, set, t, Append(s, ev)))
         /\ Cardinality(PlainRows(c, set, t, Append(s, ev)))
              = Cardinality(PlainRows(c, set, t, s)) + Cardinality(S)
<1> DEFINE R == PlainRows(c, set, t, s)
           n == Len(s) + 1
           N == {n} \X S
<1>1. PlainRows(c, set, t, Append(s, ev)) = R \cup N
  BY PlainRowsAppend
<1>2. IsFiniteSet(N) /\ Cardinality(N) = Cardinality(S)
  BY PairsCardinality
<1>3. R \cap N = {}
  <2>1. ASSUME NEW x \in R PROVE x \notin N
    <3>1. PICK i \in Accepted(set, s) : x \in {i} \X Expected(c, t, t.entries[1], s[i])
      BY PlainRowsMember
    <3>2. i \in 1 .. Len(s) /\ Len(s) \in Nat
      BY AcceptedSound
    <3>3. i # n
      BY <3>2
    <3>4. x[1] = i
      BY <3>1
    <3>5. \A y \in N : y[1] = n
      OBVIOUS
    <3> QED
      BY <3>3, <3>4, <3>5
  <2> QED
    BY <2>1
<1> HIDE DEF R, N
<1>4. /\ IsFiniteSet(R \cup N)
      /\ Cardinality(R \cup N) = Cardinality(R) + Cardinality(N) - Cardinality(R \cap N)
  BY <1>2, FS_Union DEF R
<1>5. Cardinality(R) \in Nat /\ Cardinality(N) \in Nat
  BY <1>2, FS_CardinalityType DEF R
<1>6. Cardinality(R \cap N) = 0
  BY <1>3, FS_EmptySet
<1>7. /\ IsFiniteSet(R \cup N) /\ Cardinality(R \cup N) = Cardinality(R) + Cardinality(S)
  BY <1>2, <1>4, <1>5, <1>6
<1> QED
  BY <1>1, <1>7 DEF R

\* u is t after Exec of an event.
Executed(c, objects, t, u, ev) ==
  /\ u \in Task /\ u.kind = t.kind /\ u.cutsMap = t.cutsMap
  /\ TaskNamed(u) /\ TaskReady(c, u) /\ Served(c, objects, u) /\ TaskExact(c, u, ev)
  /\ \A j \in DOMAIN t.entries :
       /\ j \in DOMAIN u.entries
       /\ Widens(u.entries[j], t.entries[j])
       /\ u.entries[j].names = t.entries[j].names
  /\ u.kind = "PlainTreeFiller" =>
       /\ IsFiniteSet(Expected(c, u, u.entries[1], ev))
       /\ Len(u.plain) = Len(t.plain) + Cardinality(Expected(c, u, u.entries[1], ev))

\* What the rows of an entry do not change.
LEMMA RowsOnly ==
  ASSUME NEW e \in Entry, NEW f, f = [e EXCEPT !.rows = f.rows]
  PROVE  /\ f.vars = e.vars /\ f.cut = e.cut /\ f.names = e.names
         /\ f.match = e.match /\ f.inverted = e.inverted
BY DEF Entry

\* An entry stays ready when its rows change.
LEMMA ReadyKept ==
  ASSUME NEW c, NEW t, NEW u, u.readers = t.readers, u.ready = t.ready, u.cutsMap = t.cutsMap,
         NEW e, NEW f, f.names = e.names, f.cut = e.cut, f.match = e.match,
         f.inverted = e.inverted, EntryReady(c, t, e)
  PROVE  EntryReady(c, u, f)
<1>1. BoundTo(c, e)
  BY DEF EntryReady
<1>2. NeedsMatching(c, f) = NeedsMatching(c, e) /\ HasMatching(c, f) = HasMatching(c, e)
  BY DEF NeedsMatching, HasMatching
<1>3. BoundTo(c, f)
  BY <1>1, <1>2 DEF BoundTo
<1> QED
  BY <1>3 DEF EntryReady

LEMMA ExecKeeps ==
  ASSUME NEW t \in Task, NEW ev \in Events, NEW u, ExecRight(t, u, ev), NEW objects,
         TaskNamed(t), TaskReady(config, t), Served(config, objects, t)
  PROVE  Executed(config, objects, t, u, ev)
<1>1. /\ u \in Task /\ u = [t EXCEPT !.entries = u.entries, !.plain = u.plain]
      /\ DOMAIN u.entries = DOMAIN t.entries
      /\ \A j \in DOMAIN t.entries : Evaluates(t, t.entries[j], u.entries[j], ev)
      /\ t.kind = "PlainTreeFiller" => Len(u.plain) = Len(t.plain) + Len(u.entries[1].rows)
  BY DEF ExecRight
<1>2. /\ u.kind = t.kind /\ u.cutsMap = t.cutsMap /\ u.inBranches = t.inBranches
      /\ u.readers = t.readers /\ u.ready = t.ready
  BY <1>1 DEF Task
<1>3. t.entries \in Seq(Entry) /\ u.entries \in Seq(Entry)
  BY <1>1 DEF Task
<1>4. \A j \in DOMAIN t.entries : t.entries[j] \in Entry
  BY <1>3
<1>5. ASSUME NEW j \in DOMAIN t.entries
      PROVE  /\ u.entries[j].vars = t.entries[j].vars /\ u.entries[j].cut = t.entries[j].cut
             /\ u.entries[j].names = t.entries[j].names
             /\ u.entries[j].match = t.entries[j].match
             /\ u.entries[j].inverted = t.entries[j].inverted
             /\ RowsEvaluated(u.entries[j])
             /\ RowsRight(config, t, u.entries[j], ev)
  <2>1. Evaluates(t, t.entries[j], u.entries[j], ev)
    BY <1>1
  <2>2. /\ u.entries[j] = [t.entries[j] EXCEPT !.rows = u.entries[j].rows]
        /\ RowsEvaluated(u.entries[j]) /\ RowsRight(config, t, u.entries[j], ev)
    BY <2>1 DEF Evaluates
  <2> QED
    BY <1>4, <2>2, RowsOnly
<1>6. TaskNamed(u)
  <2>1. \A j \in DOMAIN u.entries : ReadsNames(t.entries[j])
    BY <1>1 DEF TaskNamed
  <2>2. \A j \in DOMAIN u.entries : ReadsNames(u.entries[j])
    BY <1>1, <1>5, <2>1 DEF ReadsNames
  <2> QED
    BY <1>1, <1>2, <1>5, <2>2 DEF TaskNamed
<1>7. ASSUME NEW j \in DOMAIN u.entries
      PROVE  EntryReady(config, u, u.entries[j])
  <2>1. j \in DOMAIN t.entries /\ EntryReady(config, t, t.entries[j])
    BY <1>1 DEF TaskReady
  <2> QED
    BY <1>2, <1>5, <2>1, ReadyKept
<1>8. t.kind = "PlainTreeFiller" => Len(t.entries) = 1 /\ Len(u.entries) = 1
  <2>1. Len(u.entries) = Len(t.entries)
    BY <1>1, <1>3
  <2> QED
    BY <2>1 DEF TaskReady
<1>9. TaskReady(config, u)
  BY <1>2, <1>7, <1>8 DEF TaskReady
<1>10. Served(config, objects, u)
  BY <1>1, <1>2, <1>5 DEF Served
<1>11. ASSUME NEW j \in DOMAIN u.entries
       PROVE  RowsRight(config, u, u.entries[j], ev)
  <2>1. RowsRight(config, t, u.entries[j], ev)
    BY <1>1, <1>5
  <2>2. Expected(config, u, u.entries[j], ev) = Expected(config, t, u.entries[j], ev)
    BY <1>2, ExpectedKept
  <2> QED
    BY <2>1, <2>2 DEF RowsRight
<1>12. TaskExact(config, u, ev)
  BY <1>11 DEF TaskExact
<1>13. ASSUME NEW j \in DOMAIN t.entries
       PROVE  j \in DOMAIN u.entries /\ Widens(u.entries[j], t.entries[j])
  <2>1. Len(t.entries[j].vars) \in Nat
    BY <1>4 DEF Entry
  <2> QED
    BY <1>1, <1>5, <2>1 DEF Widens
<1>14. ASSUME u.kind = "PlainTreeFiller"
       PROVE  /\ IsFiniteSet(Expected(config, u, u.entries[1], ev))
              /\ Len(u.plain) = Len(t.plain) + Cardinality(Expected(config, u, u.entries[1], ev))
  <2>1. 1 \in DOMAIN u.entries
    BY <1>2, <1>3, <1>8, <1>14
  <2>2. RowsRight(config, u, u.entries[1], ev)
    BY <1>11, <2>1
  <2> QED
    BY <1>1, <1>2, <1>14, <2>2 DEF RowsRight
<1> QED
  BY <1>1, <1>2, <1>5, <1>6, <1>9, <1>10, <1>12, <1>13, <1>14 DEF Executed

\* The plain tree of a task has the rows of the accepted events, whether the
\* next one is taken or skipped.
LEMMA PlainTaken ==
  ASSUME NEW c, NEW objects, NEW set, NEW t \in Task, NEW u, NEW s \in Seq(Events),
         NEW ev \in Events, Accepts(set, ev), Executed(c, objects, t, u, ev),
         TaskReady(c, t), PlainRight(c, set, t, s)
  PROVE  PlainRight(c, set, u, Append(s, ev))
<1> SUFFICES ASSUME u.kind = "PlainTreeFiller"
             PROVE  /\ IsFiniteSet(PlainRows(c, set, u, Append(s, ev)))
                    /\ Len(u.plain) = Cardinality(PlainRows(c, set, u, Append(s, ev)))
  BY DEF PlainRight
<1> DEFINE S == Expected(c, u, u.entries[1], ev)
<1>1. /\ u.kind = t.kind /\ u.cutsMap = t.cutsMap /\ IsFiniteSet(S)
      /\ Len(u.plain) = Len(t.plain) + Cardinality(S)
      /\ \A j \in DOMAIN t.entries :
           Widens(u.entries[j], t.entries[j]) /\ u.entries[j].names = t.entries[j].names
  BY DEF Executed
<1>2. t.entries \in Seq(Entry) /\ Len(t.entries) = 1
  BY <1>1 DEF Task, TaskReady
<1>3. 1 \in DOMAIN t.entries
  BY <1>2
<1>4. u.entries[1].names = t.entries[1].names /\ u.entries[1].cut = t.entries[1].cut
  BY <1>1, <1>3 DEF Widens
<1>5. PlainRows(c, set, u, s) = PlainRows(c, set, t, s)
  BY <1>1, <1>4, PlainRowsKept
<1>6. IsFiniteSet(PlainRows(c, set, t, s)) /\ Len(t.plain) = Cardinality(PlainRows(c, set, t, s))
  BY <1>1 DEF PlainRight
<1> HIDE DEF S
<1>7. /\ IsFiniteSet(PlainRows(c, set, u, Append(s, ev)))
      /\ Cardinality(PlainRows(c, set, u, Append(s, ev)))
           = Cardinality(PlainRows(c, set, u, s)) + Cardinality(S)
  BY <1>1, <1>5, <1>6, PlainRowsCount DEF S
<1> QED
  BY <1>1, <1>5, <1>6, <1>7

LEMMA PlainSkipped ==
  ASSUME NEW c, NEW set, NEW t, NEW s \in Seq(Events), NEW ev \in Events,
         ~ Accepts(set, ev), PlainRight(c, set, t, s)
  PROVE  PlainRight(c, set, t, Append(s, ev))
<1>1. PlainRows(c, set, t, Append(s, ev)) = PlainRows(c, set, t, s)
  BY PlainRowsAppend
<1> QED
  BY <1>1 DEF PlainRight

(***************************************************************************)
(* Run and Finish                                                          *)
(***************************************************************************)
LEMMA AcceptsIsPasses ==
  ASSUME NEW ev
  PROVE  Accepts(settings, ev) <=> EventPasses(ev)
BY DEF Accepts, EventPasses

\* Before the first event.
LEMMA NothingAccepted ==
  ASSUME NEW set
  PROVE  Accepted(set, <<>>) = {} /\ Ascending(Accepted(set, <<>>)) = <<>>
<1>1. Accepted(set, <<>>) = {}
  BY DEF Accepted
<1>2. Cardinality({}) = 0
  BY FS_EmptySet
<1>3. Ascending({}) = <<>>
  BY <1>2 DEF Ascending
<1> QED
  BY <1>1, <1>3

LEMMA NoPlainRows ==
  ASSUME NEW c, NEW set, NEW t, t.plain = <<>>
  PROVE  PlainRight(c, set, t, <<>>)
<1>1. PlainRows(c, set, t, <<>>) = {}
  BY NothingAccepted DEF PlainRows
<1> QED
  BY <1>1, FS_EmptySet DEF PlainRight

\* Run sets the number of events to take.
LEMMA RunKeeps ==
  ASSUME IInv, NEW n \in RunArguments, Run(n)
  PROVE  IInv'
<1> USE DEF setup, run
<1>1. /\ phase = "ready" /\ phase' = "running"
      /\ left' = IF n < 0 \/ n > Entries THEN Entries ELSE n
      /\ UNCHANGED <<setup, tasks, pointers, seen, current, written, granted>>
  BY DEF Run
<1>2. /\ files \in Inputs /\ config = GetConfigurationFromFileList(files).config
      /\ tasks \in Seq(Task) /\ granted \in Seq(Grants)
  BY <1>1 DEF IInv, Shape
<1>3. Entries \in Nat /\ n \in Int
  BY <1>2, EventsAssumption DEF Entries
<1>4. left' \in Nat
  BY <1>1, <1>3
<1>5. Shape'
  BY <1>1, <1>4 DEF IInv, Shape
<1>6. Named' /\ GrantsKept' /\ BeforeInit' /\ BeforeRun' /\ Failures'
  BY <1>1 DEF IInv, Named, GrantsKept, BeforeInit, BeforeRun, Failures
<1>7. AfterInit'
  BY <1>1 DEF IInv, AfterInit, Initialised
<1>8. /\ seen' = <<>> /\ written' = <<>> /\ ~ current'
      /\ \A k \in DOMAIN tasks : tasks[k].plain = <<>>
  BY <1>1 DEF IInv, BeforeRun
<1>9. Exact'
  BY <1>8 DEF Exact
<1>10. OutputRight'
  BY <1>1, <1>8, NothingAccepted, NoPlainRows DEF OutputRight
<1> QED
  BY <1>5, <1>6, <1>7, <1>9, <1>10 DEF IInv

LEMMA FinishKeeps ==
  ASSUME IInv, Finish
  PROVE  IInv'
<1> USE DEF setup, run
<1>1. /\ phase = "running" /\ phase' = "finished"
      /\ UNCHANGED <<setup, tasks, pointers, run, granted>>
  BY DEF Finish
<1>2. Shape'
  BY <1>1 DEF IInv, Shape
<1>3. Named' /\ GrantsKept' /\ BeforeInit' /\ BeforeRun' /\ Failures'
  BY <1>1 DEF IInv, Named, GrantsKept, BeforeInit, BeforeRun, Failures
<1>4. AfterInit'
  BY <1>1 DEF IInv, AfterInit, Initialised
<1>5. Exact' /\ OutputRight'
  BY <1>1 DEF IInv, Exact, OutputRight
<1> QED
  BY <1>2, <1>3, <1>4, <1>5 DEF IInv

\* The numbers of the events written, when one more was taken.
LEMMA SeenMore ==
  ASSUME IInv, NEW ev \in Events, GetEntry(ev), phase = "running", left > 0
  PROVE  /\ seen \in Seq(Events) /\ seen' \in Seq(Events) /\ seen' = Append(seen, ev)
         /\ Len(seen) \in Nat /\ Len(seen') = Len(seen) + 1 /\ left' \in Nat
         /\ seen' # <<>> /\ seen'[Len(seen')] = ev
         /\ written \in Seq(Nat) /\ ToSet(written) \subseteq 1 .. Len(seen)
<1>1. /\ seen \in Seq(Events) /\ left \in Nat
      /\ written \in Seq(Nat) /\ ToSet(written) \subseteq 1 .. Len(seen)
  BY DEF IInv, Shape
<1>2. seen' = Append(seen, ev) /\ left' = left - 1
  BY DEF GetEntry
<1> QED
  BY <1>1, <1>2

LEMMA SkipEventKeeps ==
  ASSUME IInv, NEW ev \in Events, SkipEvent(ev)
  PROVE  IInv'
<1> USE DEF setup, run
<1>1. /\ phase = "running" /\ phase' = "running" /\ left > 0 /\ GetEntry(ev)
      /\ ~ Accepts(settings, ev) /\ current' = FALSE
      /\ UNCHANGED <<setup, tasks, pointers, written, granted>>
  BY AcceptsIsPasses DEF SkipEvent
<1>2. /\ seen \in Seq(Events) /\ seen' \in Seq(Events) /\ seen' = Append(seen, ev)
      /\ Len(seen) \in Nat /\ Len(seen') = Len(seen) + 1 /\ left' \in Nat
      /\ written \in Seq(Nat) /\ ToSet(written) \subseteq 1 .. Len(seen)
  BY <1>1, SeenMore
<1>3. Shape'
  <2>1. ToSet(written) \subseteq 1 .. Len(seen')
    BY <1>2
  <2> QED
    BY <1>1, <1>2, <2>1 DEF IInv, Shape
<1>4. Named' /\ GrantsKept' /\ BeforeInit' /\ BeforeRun' /\ Failures'
  BY <1>1 DEF IInv, Named, GrantsKept, BeforeInit, BeforeRun, Failures
<1>5. AfterInit'
  BY <1>1 DEF IInv, AfterInit, Initialised
<1>6. Exact'
  BY <1>1 DEF Exact
<1>7. OutputRight'
  <2>1. Accepted(settings, seen') = Accepted(settings, seen)
    BY <1>1, <1>2, AcceptedAppend
  <2>2. ASSUME NEW k \in DOMAIN tasks
        PROVE  PlainRight(config, settings, tasks[k], seen')
    <3>1. PlainRight(config, settings, tasks[k], seen)
      BY <1>1 DEF IInv, OutputRight
    <3> QED
      BY <1>1, <1>2, <3>1, PlainSkipped
  <2> QED
    BY <1>1, <2>1, <2>2 DEF IInv, OutputRight
<1> QED
  BY <1>3, <1>4, <1>5, <1>6, <1>7 DEF IInv

\* What makes Exec of an event fail.
LEMMA FailingFound ==
  ASSUME NEW c, c = config, NEW t \in Task, TaskReady(c, t), NEW ev,
         NEW e \in ToSet(t.entries), Throws(t, config, ev, e)
  PROVE  Failing(c, t)
<1>1. PICK j \in DOMAIN t.entries : e = t.entries[j]
  BY DEF ToSet
<1>2. EntryReady(config, t, e)
  BY <1>1 DEF TaskReady
<1>3. e.names \subseteq Branches
  <2>1. e \in Entry
    BY <1>1 DEF Task
  <2> QED
    BY <2>1 DEF Entry
<1>4. CASE Cardinality(e.names) > 2
  BY <1>1, <1>4 DEF Failing
<1>5. CASE \E at \in ToSet(Candidates(config, ev, e)) : RowOutcome(t, config, ev, e, at) = "throw"
  <2>1. PICK at : RowOutcome(t, config, ev, e, at) = "throw"
    BY <1>5
  <2>2. /\ e.cut \in t.ready \cup {NoCut}
        /\ \A b \in e.names \cap DOMAIN t.cutsMap : t.cutsMap[b] \in t.ready
    BY <1>2 DEF EntryReady
  <2>3. Cardinality(e.names) = 2 /\ \E b \in e.names : ~ IdSurvives(config, b)
    BY <1>3, <2>1, <2>2, ReadyOutcome
  <2> QED
    BY <1>1, <2>3 DEF Failing
<1> QED
  BY <1>4, <1>5 DEF Throws

\* An event fails.
LEMMA EventFails ==
  ASSUME IInv, NEW ev \in Events, GetEntry(ev), phase = "running", left > 0,
         NEW t \in ToSet(tasks), NEW e \in ToSet(t.entries), Throws(t, config, ev, e),
         phase' = "failed", current' = FALSE,
         UNCHANGED <<tasks, written, setup, pointers, granted>>
  PROVE  IInv'
<1> USE DEF setup, run
<1>1. /\ seen' \in Seq(Events) /\ Len(seen) \in Nat /\ Len(seen') = Len(seen) + 1
      /\ left' \in Nat /\ written \in Seq(Nat) /\ ToSet(written) \subseteq 1 .. Len(seen)
  BY SeenMore
<1>2. Shape'
  <2>1. ToSet(written) \subseteq 1 .. Len(seen')
    BY <1>1
  <2> QED
    BY <1>1, <2>1 DEF IInv, Shape
<1>3. Named' /\ GrantsKept' /\ BeforeInit' /\ BeforeRun'
  BY DEF IInv, Named, GrantsKept, BeforeInit, BeforeRun
<1>4. AfterInit'
  BY DEF IInv, AfterInit, Initialised
<1>5. Exact' /\ OutputRight'
  BY DEF Exact, OutputRight
<1>6. Failures'
  <2>1. PICK k \in DOMAIN tasks : t = tasks[k]
    BY DEF ToSet
  <2>2. t \in Task /\ TaskReady(config, t)
    BY <2>1 DEF IInv, Shape, AfterInit, Initialised
  <2>3. Failing(config, t)
    BY <2>2, FailingFound
  <2> QED
    BY <2>1, <2>3 DEF Failures
<1> QED
  BY <1>2, <1>3, <1>4, <1>5, <1>6 DEF IInv

\* An event is executed.
LEMMA EventExecuted ==
  ASSUME IInv, NEW ev \in Events, GetEntry(ev), phase = "running", left > 0,
         EventPasses(ev),
         \A t \in ToSet(tasks) : \A e \in ToSet(t.entries) : ~ Throws(t, config, ev, e),
         tasks' = [k \in DOMAIN tasks |-> Exec(tasks[k], config, ev)],
         written' = Filled, current' = TRUE,
         UNCHANGED <<phase, setup, pointers, granted>>
  PROVE  IInv'
<1> USE DEF setup, run
<1>1. /\ seen \in Seq(Events) /\ seen' \in Seq(Events) /\ seen' = Append(seen, ev)
      /\ Len(seen) \in Nat /\ Len(seen') = Len(seen) + 1 /\ left' \in Nat
      /\ seen' # <<>> /\ seen'[Len(seen')] = ev
      /\ written \in Seq(Nat) /\ ToSet(written) \subseteq 1 .. Len(seen)
  BY SeenMore
<1>2. /\ files \in Inputs /\ config = GetConfigurationFromFileList(files).config
      /\ tasks \in Seq(Task) /\ granted \in Seq(Grants)
      /\ \A k \in DOMAIN tasks : tasks[k] \in Task
  BY DEF IInv, Shape
<1>3. DOMAIN config.index \subseteq DOMAIN ev.matching
  BY <1>2, EventsAssumption
<1>4. ASSUME NEW k \in DOMAIN tasks
      PROVE  /\ TaskNamed(tasks[k]) /\ TaskReady(config, tasks[k])
             /\ Served(config, pointers, tasks[k])
             /\ PlainRight(config, settings, tasks[k], seen)
  BY DEF IInv, Named, AfterInit, Initialised, OutputRight
<1>5. ASSUME NEW k \in DOMAIN tasks
      PROVE  Executed(config, pointers, tasks[k], tasks'[k], ev)
  <2>1. tasks'[k] = Exec(tasks[k], config, ev) /\ tasks[k] \in ToSet(tasks)
    BY DEF ToSet
  <2>2. ExecRight(tasks[k], Exec(tasks[k], config, ev), ev)
    BY <1>2, <1>3, <1>4, <2>1, ExecSound
  <2>3. ExecRight(tasks[k], tasks'[k], ev)
    BY <2>1, <2>2
  <2> QED
    BY <1>2, <1>4, <2>3, ExecKeeps
<1>6. ASSUME NEW k \in DOMAIN tasks
      PROVE  /\ tasks'[k] \in Task /\ TaskNamed(tasks'[k]) /\ TaskReady(config, tasks'[k])
             /\ Served(config, pointers, tasks'[k]) /\ TaskExact(config, tasks'[k], ev)
             /\ \A j \in DOMAIN tasks[k].entries :
                  /\ j \in DOMAIN tasks'[k].entries
                  /\ Widens(tasks'[k].entries[j], tasks[k].entries[j])
  BY <1>5 DEF Executed
<1>7. tasks' \in Seq(Task) /\ DOMAIN tasks' = DOMAIN tasks
  <2>1. DOMAIN tasks' = DOMAIN tasks /\ DOMAIN tasks = 1 .. Len(tasks) /\ Len(tasks) \in Nat
    BY <1>2
  <2>2. tasks' = [k \in 1 .. Len(tasks) |-> tasks'[k]]
    BY <2>1
  <2> QED
    BY <1>6, <2>1, <2>2
<1>8. Shape'
  <2>1. written' \in Seq(Nat) /\ ToSet(written') \subseteq 1 .. Len(seen')
    <3>1. CASE written' = written
      BY <1>1, <3>1
    <3>2. CASE written' = Append(written, Len(seen) + 1)
      <4>1. /\ DOMAIN written' = 1 .. Len(written) + 1 /\ Len(written) \in Nat
            /\ written'[Len(written) + 1] = Len(seen) + 1
            /\ \A i \in 1 .. Len(written) : written'[i] = written[i] /\ written[i] \in ToSet(written)
        BY <1>1, <3>2 DEF ToSet
      <4>2. \A i \in DOMAIN written' : written'[i] \in 1 .. Len(seen')
        BY <1>1, <4>1
      <4> QED
        BY <1>1, <3>2, <4>2 DEF ToSet
    <3> QED
      BY <3>1, <3>2 DEF Filled
  <2> QED
    BY <1>1, <1>2, <1>7, <2>1 DEF IInv, Shape
<1>9. Named' /\ AfterInit' /\ Exact'
  BY <1>1, <1>6, <1>7 DEF Named, AfterInit, Exact
<1>10. BeforeInit' /\ BeforeRun' /\ Failures'
  BY DEF BeforeInit, BeforeRun, Failures
<1>11. GrantsKept'
  BY <1>6, <1>7, GrantsStay
<1>12. OutputRight'
  <2>1. Accepts(settings, ev)
    BY AcceptsIsPasses
  <2>2. ASSUME settings.outFile /\ settings.outTree
        PROVE  written' = Ascending(Accepted(settings, seen'))
    <3> DEFINE S == Accepted(settings, seen)
               n == Len(seen) + 1
    <3>1. written = Ascending(S)
      BY <2>2 DEF IInv, OutputRight
    <3>2. Accepted(settings, seen') = S \cup {n}
      BY <1>1, <2>1, AcceptedAppend
    <3>3. IsFiniteSet(S) /\ S \subseteq 1 .. Len(seen)
      BY <1>1, AcceptedSound
    <3>4. written' = Append(written, n)
      BY <2>2 DEF Filled
    <3> HIDE DEF S
    <3>5. S \subseteq Int /\ n \in Int /\ \A m \in S : m < n
      BY <1>1, <3>3
    <3> HIDE DEF n
    <3>6. Ascending(S \cup {n}) = Append(Ascending(S), n)
      BY <3>3, <3>5, AscendingAppend
    <3> QED
      BY <3>1, <3>2, <3>4, <3>6
  <2>3. ASSUME NEW k \in DOMAIN tasks
        PROVE  PlainRight(config, settings, tasks'[k], seen')
    BY <1>1, <1>2, <1>4, <1>5, <2>1, PlainTaken
  <2> QED
    BY <1>7, <2>2, <2>3 DEF OutputRight
<1> QED
  BY <1>8, <1>9, <1>10, <1>11, <1>12 DEF IInv

LEMMA TakeEventKeeps ==
  ASSUME IInv, NEW ev \in Events, TakeEvent(ev)
  PROVE  IInv'
<1>1. /\ phase = "running" /\ left > 0 /\ EventPasses(ev) /\ GetEntry(ev)
      /\ UNCHANGED <<setup, pointers, granted>>
  BY DEF TakeEvent
<1>2. CASE \E t \in ToSet(tasks) : \E e \in ToSet(t.entries) : Throws(t, config, ev, e)
  <2>1. phase' = "failed" /\ current' = FALSE /\ UNCHANGED <<tasks, written>>
    BY <1>2 DEF TakeEvent
  <2>2. PICK t \in ToSet(tasks) : \E e \in ToSet(t.entries) : Throws(t, config, ev, e)
    BY <1>2
  <2>3. PICK e \in ToSet(t.entries) : Throws(t, config, ev, e)
    BY <2>2
  <2> QED
    BY <1>1, <2>1, <2>3, EventFails
<1>3. CASE ~ \E t \in ToSet(tasks) : \E e \in ToSet(t.entries) : Throws(t, config, ev, e)
  <2>1. /\ tasks' = [k \in DOMAIN tasks |-> Exec(tasks[k], config, ev)]
        /\ written' = Filled /\ current' = TRUE /\ phase' = phase
    BY <1>3 DEF TakeEvent
  <2>2. \A t \in ToSet(tasks) : \A e \in ToSet(t.entries) : ~ Throws(t, config, ev, e)
    BY <1>3
  <2> QED
    BY <1>1, <2>1, <2>2, EventExecuted
<1> QED
  BY <1>2, <1>3

(***************************************************************************)
(* The theorems                                                            *)
(***************************************************************************)
LEMMA InitInvariant == Init => IInv
<1> SUFFICES ASSUME Init PROVE IInv
  OBVIOUS
<1>1. /\ phase = "new" /\ tasks = <<>> /\ granted = <<>> /\ seen = <<>> /\ left = 0
      /\ written = <<>> /\ current = FALSE
  BY DEF Init
<1>2. Shape
  <2>1. ToSet(<<>>) = {}
    BY DEF ToSet
  <2> QED
    BY <1>1, <2>1 DEF Shape
<1>3. Named /\ BeforeInit /\ GrantsKept /\ BeforeRun
  BY <1>1 DEF Named, BeforeInit, GrantsKept, BeforeRun
<1>4. AfterInit /\ Exact /\ OutputRight /\ Failures
  BY <1>1 DEF AfterInit, Initialised, Exact, OutputRight, Failures
<1> QED
  BY <1>2, <1>3, <1>4 DEF IInv

LEMMA StutterKeeps ==
  ASSUME IInv, UNCHANGED vars
  PROVE  IInv'
<1> USE DEF vars, setup, run
<1>1. Shape' /\ Named' /\ BeforeInit' /\ GrantsKept' /\ BeforeRun'
  BY DEF IInv, Shape, Named, BeforeInit, GrantsKept, BeforeRun
<1>2. AfterInit' /\ Exact' /\ OutputRight' /\ Failures'
  BY DEF IInv, AfterInit, Initialised, Exact, OutputRight, Failures
<1> QED
  BY <1>1, <1>2 DEF IInv

LEMMA NextInvariant == IInv /\ [Next]_vars => IInv'
<1> SUFFICES ASSUME IInv, [Next]_vars PROVE IInv'
  OBVIOUS
<1>1. ASSUME NEW list \in Inputs, NEW set \in Settings, Construct(list, set)
      PROVE  IInv'
  BY <1>1, ConstructKeeps
<1>2. ASSUME NEW kind \in {"VarManager", "PlainTreeFiller"}, NEW m \in TaskSettings,
             AddTask(kind, m)
      PROVE  IInv'
  BY <1>2, AddTaskKeeps
<1>3. ASSUME NEW k \in DOMAIN tasks, NEW r \in Requests, RequestEntry(k, r)
      PROVE  IInv'
  BY <1>3, RequestEntryKeeps
<1>4. ASSUME NEW k \in DOMAIN tasks, NEW b \in ToSet(NameOrder), RequestBranch(k, b)
      PROVE  IInv'
  BY <1>4, RequestBranchKeeps
<1>5. ASSUME NEW k \in DOMAIN tasks, CollectBranches(k)
      PROVE  IInv'
  BY <1>5, CollectBranchesKeeps
<1>6. CASE InitTasks
  BY <1>6, InitTasksKeeps
<1>7. ASSUME NEW n \in RunArguments, Run(n)
      PROVE  IInv'
  BY <1>7, RunKeeps
<1>8. ASSUME NEW ev \in Events, SkipEvent(ev)
      PROVE  IInv'
  BY <1>8, SkipEventKeeps
<1>9. ASSUME NEW ev \in Events, TakeEvent(ev)
      PROVE  IInv'
  BY <1>9, TakeEventKeeps
<1>10. CASE Finish
  BY <1>10, FinishKeeps
<1>11. CASE UNCHANGED vars
  BY <1>11, StutterKeeps
<1> QED
  BY <1>1, <1>2, <1>3, <1>4, <1>5, <1>6, <1>7, <1>8, <1>9, <1>10, <1>11 DEF Next

LEMMA Invariant == Spec => []IInv
<1> QED
  BY InitInvariant, NextInvariant, PTL DEF Spec

LEMMA TypeFromInvariant ==
  ASSUME IInv
  PROVE  TypeOK
<1>1. /\ phase \in {"new", "setup", "ready", "running", "finished", "refused", "failed"}
      /\ tasks \in Seq(Task) /\ granted \in Seq(Grants)
      /\ left \in Nat /\ ToSet(written) \subseteq 1 .. Len(seen)
  BY DEF IInv, Shape
<1>2. ASSUME NEW k \in DOMAIN tasks
      PROVE  /\ tasks[k].readers \subseteq tasks[k].inBranches
             /\ \A e \in ToSet(tasks[k].entries) :
                  /\ e.names = (UNION {v.branches : v \in ToSet(e.vars)}) \cup BranchesOfCut(e.cut)
                  /\ \A n \in DOMAIN e.rows : Len(e.rows[n].values) = Len(e.vars)
  <2>1. TaskNamed(tasks[k]) /\ tasks[k] \in Task
    BY <1>1 DEF IInv, Named
  <2>2. ASSUME NEW e \in ToSet(tasks[k].entries)
        PROVE  /\ e.names = (UNION {v.branches : v \in ToSet(e.vars)}) \cup BranchesOfCut(e.cut)
               /\ \A n \in DOMAIN e.rows : Len(e.rows[n].values) = Len(e.vars)
    <3>1. ReadsNames(e) /\ RowsEvaluated(e)
      BY <2>1 DEF TaskNamed, ToSet
    <3>2. e \in Entry
      <4>1. tasks[k].entries \in Seq(Entry)
        BY <2>1 DEF Task
      <4> QED
        BY <4>1 DEF ToSet
    <3>3. ASSUME NEW n \in DOMAIN e.rows
          PROVE  Len(e.rows[n].values) = Len(e.vars)
      <4>1. e.rows \in Seq(Rows)
        BY <3>2 DEF Entry
      <4>2. e.rows[n].at \in Ats
        <5>1. e.rows[n] \in Rows
          BY <4>1
        <5> QED
          BY <5>1 DEF Rows
      <4>3. e.rows[n] = Row(e, e.rows[n].at)
        BY <3>1 DEF RowsEvaluated
      <4>4. Len(Row(e, e.rows[n].at).values) = Len(e.vars)
        BY <3>2, <4>2, RowType
      <4> QED
        BY <4>3, <4>4
    <3> QED
      BY <3>1, <3>3 DEF ReadsNames, BranchesOf
  <2> QED
    BY <2>1, <2>2 DEF TaskNamed
<1>3. ASSUME NEW g \in DOMAIN granted
      PROVE  LET entries == tasks[granted[g].task].entries
             IN /\ granted[g].entry \in DOMAIN entries
                /\ ToSet(granted[g].ids) \subseteq 0 .. Len(entries[granted[g].entry].vars) - 1
  <2> DEFINE e == tasks[granted[g].task].entries[granted[g].entry]
             r == granted[g].request
             ids == granted[g].ids
  <2>1. /\ granted[g].entry \in DOMAIN tasks[granted[g].task].entries
        /\ GrantKept(r, ids, e)
    BY DEF IInv, GrantsKept, ColumnsKept
  <2>2. r \in Requests /\ ids \in Seq(Nat)
    <3>1. granted[g] \in Grants
      BY <1>1
    <3> QED
      BY <3>1 DEF Grants
  <2>3. r.vars \in Seq(Variables)
    BY <2>2, RequestsAssumption
  <2> HIDE DEF e, r, ids
  <2>4. DOMAIN ids = DOMAIN r.vars
    BY <2>1, <2>2, <2>3 DEF GrantKept
  <2>5. \A i \in DOMAIN ids : ids[i] \in 0 .. Len(e.vars) - 1
    BY <2>1, <2>4 DEF GrantKept
  <2>6. ToSet(ids) \subseteq 0 .. Len(e.vars) - 1
    BY <2>5 DEF ToSet
  <2> QED
    BY <2>1, <2>6 DEF e, ids
<1> QED
  BY <1>1, <1>2, <1>3 DEF TypeOK

LEMMA ServedFromInvariant ==
  ASSUME IInv
  PROVE  TasksServed
<1> SUFFICES ASSUME Initialised, NEW t \in ToSet(tasks)
             PROVE  /\ \A b \in t.readers : b \in DOMAIN pointers /\ pointers[b] = config.branch[b].type
                    /\ \A e \in ToSet(t.entries) :
                         /\ e.names \subseteq t.readers
                         /\ e.match # <<>> => /\ e.match \in DOMAIN config.index
                                              /\ config.index[e.match] \in DOMAIN pointers
                                              /\ pointers[config.index[e.match]] = "Matching"
  BY DEF TasksServed
<1>1. TaskReady(config, t) /\ Served(config, pointers, t)
  BY DEF IInv, AfterInit, ToSet
<1>2. \A j \in DOMAIN t.entries : t.entries[j].names \subseteq t.readers
  BY <1>1 DEF TaskReady, EntryReady
<1> QED
  BY <1>1, <1>2 DEF Served, ToSet

\* What the invariant calls asked is what the property does.
LEMMA AskedIsRequested ==
  ASSUME NEW k
  PROVE  /\ \A v : Asked(granted, k, v) => v \in RequestedOf(k)
         /\ \A c : AskedCut(granted, k, c) => c \in RequestedCuts(k)
BY DEF Asked, AskedCut, RequestedOf, RequestedCuts

LEMMA ColumnsFromInvariant ==
  ASSUME IInv
  PROVE  ColumnsDenoteRequests
<1> SUFFICES ASSUME NEW g \in DOMAIN granted, ToldApart(granted[g].task)
             PROVE  LET r == granted[g].request
                        e == tasks[granted[g].task].entries[granted[g].entry]
                    IN /\ e.cut = r.cut
                       /\ \A n \in DOMAIN e.rows, i \in DOMAIN r.vars :
                            e.rows[n].values[granted[g].ids[i] + 1] = Value(r.vars[i], e.rows[n].at)
  BY DEF ColumnsDenoteRequests
<1> DEFINE k == granted[g].task
           t == tasks[k]
           e == t.entries[granted[g].entry]
           r == granted[g].request
           ids == granted[g].ids
<1>1. /\ granted \in Seq(Grants) /\ tasks \in Seq(Task)
      /\ k \in DOMAIN tasks /\ granted[g].entry \in DOMAIN t.entries
      /\ ColumnsKept(granted, g, e)
  BY DEF IInv, Shape, GrantsKept
<1>2. r \in Requests /\ ids \in Seq(Nat)
  <2>1. granted[g] \in Grants
    BY <1>1
  <2> QED
    BY <2>1 DEF Grants
<1>3. r.vars \in Seq(Variables)
  BY <1>2, RequestsAssumption
<1>4. e \in Entry /\ RowsEvaluated(e)
  <2>1. t \in Task /\ TaskNamed(t)
    BY <1>1 DEF IInv, Named
  <2> QED
    BY <1>1, <2>1 DEF Task, TaskNamed
<1>5. /\ GrantKept(r, ids, e) /\ AskedCut(granted, k, e.cut)
      /\ \A i \in DOMAIN ids : Asked(granted, k, e.vars[ids[i] + 1])
  BY <1>1 DEF ColumnsKept
<1>6. AskedCut(granted, k, r.cut) /\ \A v \in ToSet(r.vars) : Asked(granted, k, v)
  BY DEF Asked, AskedCut
<1>7. ToldApart(k)
  OBVIOUS
<1> HIDE DEF k, t, e, r, ids
<1>8. e.cut = r.cut
  <2>1. EqualCuts(e.cut, r.cut)
    BY <1>5 DEF GrantKept
  <2>2. e.cut \in RequestedCuts(k) /\ r.cut \in RequestedCuts(k)
    BY <1>5, <1>6, AskedIsRequested
  <2> QED
    BY <1>7, <2>1, <2>2 DEF ToldApart
<1>9. ASSUME NEW n \in DOMAIN e.rows, NEW i \in DOMAIN r.vars
      PROVE  e.rows[n].values[ids[i] + 1] = Value(r.vars[i], e.rows[n].at)
  <2> DEFINE v == e.vars[ids[i] + 1]
             w == r.vars[i]
             at == e.rows[n].at
  <2>1. ids[i] \in 0 .. Len(e.vars) - 1 /\ SameVariable(v, w) /\ i \in DOMAIN ids
    BY <1>2, <1>3, <1>5 DEF GrantKept
  <2>2. e.vars \in Seq(Variables)
    BY <1>4 DEF Entry
  <2>3. ids[i] + 1 \in DOMAIN e.vars
    BY <2>1, <2>2
  <2>4. v \in Variables /\ w \in Variables
    BY <1>3, <2>2, <2>3
  <2>5. v \in RequestedOf(k) /\ w \in RequestedOf(k)
    <3>1. Asked(granted, k, v)
      BY <1>5, <2>1
    <3>2. w \in ToSet(r.vars)
      BY DEF ToSet
    <3> QED
      BY <1>6, <3>1, <3>2, AskedIsRequested
  <2>6. e.rows[n] = Row(e, at)
    BY <1>4 DEF RowsEvaluated
  <2>7. e.rows[n].values[ids[i] + 1] = Value(v, at)
    <3>1. Row(e, at).values = [m \in DOMAIN e.vars |-> Value(e.vars[m], at)]
      BY DEF Row
    <3> QED
      BY <2>3, <2>6, <3>1
  <2> HIDE DEF v, w, at
  <2>8. v.key = w.key /\ v.fn = w.fn
    BY <1>7, <2>1, <2>5 DEF ToldApart, SameVariable
  <2>9. v.branches = w.branches
    BY <2>1, <2>4, RequestsAssumption
  <2>10. Value(v, at) = Value(w, at)
    BY <2>8, <2>9 DEF Value
  <2> QED
    BY <2>7, <2>10 DEF w, at
<1> QED
  BY <1>8, <1>9 DEF e, r, ids, t, k

LEMMA RowsFromInvariant ==
  ASSUME IInv
  PROVE  RowsExact
<1> SUFFICES ASSUME current, NEW t \in ToSet(tasks), NEW e \in ToSet(t.entries)
             PROVE  LET ev == seen[Len(seen)]
                    IN RowsOf(e) = Expected(config, t, e, ev) /\ Len(e.rows) = Cardinality(RowsOf(e))
  BY DEF RowsExact
<1>1. TaskExact(config, t, seen[Len(seen)])
  BY DEF IInv, Exact, ToSet
<1>2. RowsRight(config, t, e, seen[Len(seen)])
  BY <1>1 DEF TaskExact, ToSet
<1> QED
  BY <1>2 DEF RowsRight

LEMMA OutputFromInvariant ==
  ASSUME IInv
  PROVE  OutputFollowsEvents
<1> DEFINE passed == {i \in DOMAIN seen : EventPasses(seen[i])}
<1>1. passed = Accepted(settings, seen)
  BY AcceptsIsPasses DEF Accepted
<1>2. ASSUME phase \in {"running", "finished"}, NEW t \in ToSet(tasks), t.kind = "PlainTreeFiller"
      PROVE  Len(t.plain) = Cardinality(
               UNION {{i} \X Expected(config, t, t.entries[1], seen[i]) : i \in passed})
  <2>1. PlainRight(config, settings, t, seen)
    BY <1>2 DEF IInv, OutputRight, ToSet
  <2>2. Len(t.plain) = Cardinality(PlainRows(config, settings, t, seen))
    BY <1>2, <2>1 DEF PlainRight
  <2>3. PlainRows(config, settings, t, seen)
          = UNION {{i} \X Expected(config, t, t.entries[1], seen[i]) : i \in passed}
    BY <1>1 DEF PlainRows
  <2> QED
    BY <2>2, <2>3
<1>3. phase \in {"running", "finished"} /\ settings.outFile /\ settings.outTree =>
        written = Ascending(passed)
  BY <1>1 DEF IInv, OutputRight
<1> HIDE DEF passed
<1>4. phase \in {"running", "finished"} =>
        /\ settings.outFile /\ settings.outTree => written = Ascending(passed)
        /\ \A t \in ToSet(tasks) : t.kind = "PlainTreeFiller" =>
             Len(t.plain) = Cardinality(
               UNION {{i} \X Expected(config, t, t.entries[1], seen[i]) : i \in passed})
  BY <1>2, <1>3
<1> QED
  BY <1>4 DEF OutputFollowsEvents, passed

LEMMA RunsFromInvariant ==
  ASSUME IInv
  PROVE  ReadyTasksRun
<1> SUFFICES ASSUME phase = "failed"
             PROVE  \E t \in ToSet(tasks) : \E e \in ToSet(t.entries) :
                      \/ Cardinality(e.names) > 2
                      \/ Cardinality(e.names) = 2 /\ \E b \in e.names : ~ IdSurvives(config, b)
  BY DEF ReadyTasksRun
<1>1. PICK k \in DOMAIN tasks : Failing(config, tasks[k])
  BY DEF IInv, Failures
<1> QED
  BY <1>1 DEF Failing, ToSet

\* Every table reads the branches of its variables and its cut, its rows have a
\* value for each column, the ids AddEntry returned are within their tables and
\* the output has entries of events that were taken.
THEOREM TypeCorrect == Spec => []TypeOK
<1>1. IInv => TypeOK
  BY TypeFromInvariant
<1> QED
  BY <1>1, Invariant, PTL

\* After Init every lookup in branches_map_ that a task has made found its
\* branch, with the type of the Configuration, and its Matching.
THEOREM TasksServedHolds == Spec => []TasksServed
<1>1. IInv => TasksServed
  BY ServedFromInvariant
<1> QED
  BY <1>1, Invariant, PTL

\* A column whose id VarManager::AddEntry returned holds the variable that was
\* asked for, under the cut that was asked for, whatever is added to the table
\* after it and whatever PlainTreeFiller::Init adds.
THEOREM ColumnsHold == Spec => []ColumnsDenoteRequests
<1>1. IInv => ColumnsDenoteRequests
  BY ColumnsFromInvariant
<1> QED
  BY <1>1, Invariant, PTL

\* FillFromOneBranch and FillFromTwoBranches make the rows that the Matchings
\* and the cuts of the event say, none twice.
THEOREM RowsExactHolds == Spec => []RowsExact
<1>1. IInv => RowsExact
  BY RowsFromInvariant
<1> QED
  BY <1>1, Invariant, PTL

\* The output tree and the plain trees follow the events that Run accepted.
THEOREM OutputFollowsEventsHolds == Spec => []OutputFollowsEvents
<1>1. IInv => OutputFollowsEvents
  BY OutputFromInvariant
<1> QED
  BY <1>1, Invariant, PTL

\* Only tables over more than two branches, or over two of which one has an id
\* that a short loses, make an event fail after Init.
THEOREM ReadyTasksRunHolds == Spec => []ReadyTasksRun
<1>1. IInv => ReadyTasksRun
  BY RunsFromInvariant
<1> QED
  BY <1>1, Invariant, PTL
=============================================================================
