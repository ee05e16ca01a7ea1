------------------------- MODULE AnalysisTaskProofs -------------------------
(***************************************************************************)
(* The invariants of AnalysisTask, and after them those of the task that   *)
(* extends it, PlainTreeFiller, hold for all branches, fields, requests,   *)
(* cuts, matchings and events.                                             *)
(***************************************************************************)
EXTENDS PlainTreeFiller, InOrderProofs

(***************************************************************************)
(* What a table, its cuts and the matchings are like                       *)
(***************************************************************************)
Cuts == CutObjects \cup {NoCut}

\* Channels of some branches.
Ats == UNION {[N -> Nat] : N \in SUBSET Branches}

Terms == {Value(v, at) : v \in Variables, at \in Ats}

Rows == [at : Ats, values : Seq(Terms), weight : Terms]

CutTables == {<<>>} \cup (UNION {[N -> Cuts] : N \in SUBSET Branches})

Pairs == {<<>>} \cup (ChannelBranches \X ChannelBranches)

Entry ==
  [names : SUBSET Branches, vars : Seq(Variables), weight : Variables,
   cut : Cuts, cuts : CutTables, match : Pairs, inverted : BOOLEAN,
   rows : Seq(Rows)]

Grant == [request : Requests, entry : Nat, ids : Seq(Nat)]

\* The branches with channels of an entry, in some order.
LEMMA WithChannelsSound ==
  ASSUME NEW names, names \subseteq Branches
  PROVE  /\ WithChannels(names) \in Seq(ChannelBranches)
         /\ ToSet(WithChannels(names)) = names \cap ChannelBranches
         /\ IsInjective(WithChannels(names))
<1> DEFINE free == Those(NameOrder, names \cap ChannelBranches)
<1>1. NameOrder \in Seq(Branches) /\ ToSet(NameOrder) = Branches /\ IsInjective(NameOrder)
  BY AnalysisTaskAssumption
<1>2. /\ free \in Seq(Branches)
      /\ ToSet(free) = ToSet(NameOrder) \cap (names \cap ChannelBranches)
      /\ IsInjective(free)
  BY <1>1, ThoseSound
<1> HIDE DEF free
<1>3. ToSet(free) = names \cap ChannelBranches
  BY <1>1, <1>2 DEF Branches
<1>4. free \in Seq(ChannelBranches)
  <2>1. \A i \in 1 .. Len(free) : free[i] \in ChannelBranches
    <3> SUFFICES ASSUME NEW i \in 1 .. Len(free) PROVE free[i] \in ToSet(free)
      BY <1>3
    <3> QED
      BY <1>2 DEF ToSet
  <2> QED
    BY <1>2, <2>1
<1> QED
  BY <1>2, <1>3, <1>4 DEF free, WithChannels

\* The cuts that apply to an entry.
CutsOf(e) == {e.cut} \cup {e.cuts[b] : b \in e.names}

\* ApplyCuts passes when all of them do, and otherwise has the outcome of one.
LEMMA ApplyCutsSound ==
  ASSUME NEW e, NEW at, e.names \subseteq Branches
  PROVE  /\ ApplyCuts(e, at) \in {"pass", "skip", "throw"}
         /\ ApplyCuts(e, at) = "pass" =>
              \A c \in CutsOf(e) : CutOutcome(c, at) = "pass"
         /\ ApplyCuts(e, at) # "pass" =>
              \E c \in CutsOf(e) : CutOutcome(c, at) = ApplyCuts(e, at)
<1> DEFINE Outs == {"pass", "skip", "throw"}
           own == Those(NameOrder, e.names)
           f == [n \in DOMAIN own |-> CutOutcome(e.cuts[own[n]], at)]
           last == CutOutcome(e.cut, at)
           outs == Append(f, last)
           bad == Those(outs, {"skip", "throw"})
<1>1. \A c : CutOutcome(c, at) \in Outs
  BY DEF CutOutcome
<1>2. ApplyCuts(e, at) = IF bad = <<>> THEN "pass" ELSE bad[1]
  BY DEF ApplyCuts
<1>3. own \in Seq(Branches) /\ ToSet(own) = e.names
  <2>1. NameOrder \in Seq(Branches) /\ ToSet(NameOrder) = Branches
    BY AnalysisTaskAssumption
  <2>2. own \in Seq(Branches) /\ ToSet(own) = ToSet(NameOrder) \cap e.names
    BY <2>1, ThoseSound
  <2> QED
    BY <2>1, <2>2
<1> HIDE DEF own, Outs
<1>4. f \in Seq(Outs) /\ DOMAIN f = DOMAIN own /\ Len(f) = Len(own) /\ Len(own) \in Nat
  BY <1>1, <1>3
<1>5. last \in Outs
  BY <1>1
<1>6. \A n \in DOMAIN own : f[n] = CutOutcome(e.cuts[own[n]], at)
  OBVIOUS
<1> HIDE DEF f, last
<1>7. /\ outs \in Seq(Outs) /\ Len(outs) = Len(own) + 1
      /\ \A n \in 1 .. Len(own) : outs[n] = f[n]
      /\ outs[Len(own) + 1] = last
  BY <1>4, <1>5
<1> HIDE DEF outs
<1>8. ToSet(outs) = {CutOutcome(c, at) : c \in CutsOf(e)}
  <2>1. DOMAIN own = 1 .. Len(own) /\ Len(own) \in Nat /\ DOMAIN outs = 1 .. Len(own) + 1
    BY <1>3, <1>7
  <2>2. ASSUME NEW x \in ToSet(outs)
        PROVE  \E c \in CutsOf(e) : x = CutOutcome(c, at)
    <3>1. PICK n \in DOMAIN outs : x = outs[n]
      BY <2>2 DEF ToSet
    <3>2. CASE n = Len(own) + 1
      BY <1>7, <3>1, <3>2 DEF CutsOf, last
    <3>3. CASE n # Len(own) + 1
      <4>1. n \in DOMAIN own
        BY <2>1, <3>1, <3>3
      <4>2. own[n] \in e.names
        BY <1>3, <4>1 DEF ToSet
      <4>3. x = CutOutcome(e.cuts[own[n]], at)
        BY <1>6, <1>7, <2>1, <3>1, <4>1
      <4> QED
        BY <4>2, <4>3 DEF CutsOf
    <3> QED
      BY <3>2, <3>3
  <2>3. ASSUME NEW c \in CutsOf(e)
        PROVE  CutOutcome(c, at) \in ToSet(outs)
    <3>1. CASE c = e.cut
      <4>1. Len(own) + 1 \in DOMAIN outs
        BY <2>1
      <4>2. outs[Len(own) + 1] = CutOutcome(c, at)
        BY <1>7, <3>1 DEF last
      <4> QED
        BY <4>1, <4>2 DEF ToSet
    <3>2. CASE \E b \in e.names : c = e.cuts[b]
      <4>1. PICK b \in e.names : c = e.cuts[b]
        BY <3>2
      <4>2. PICK n \in DOMAIN own : own[n] = b
        BY <1>3 DEF ToSet
      <4>3. n \in DOMAIN outs /\ outs[n] = CutOutcome(c, at)
        BY <1>6, <1>7, <2>1, <4>1, <4>2
      <4> QED
        BY <4>3 DEF ToSet
    <3> QED
      BY <3>1, <3>2 DEF CutsOf
  <2> QED
    BY <2>2, <2>3
<1>9. bad \in Seq(Outs) /\ ToSet(bad) = ToSet(outs) \cap {"skip", "throw"}
  BY <1>7, ThoseSound
<1> HIDE DEF bad
<1>10. CASE bad = <<>>
  <2>1. ToSet(bad) = {}
    BY <1>10 DEF ToSet
  <2>2. \A c \in CutsOf(e) : CutOutcome(c, at) = "pass"
    BY <1>1, <1>8, <1>9, <2>1 DEF Outs
  <2> QED
    BY <1>2, <1>10, <2>2
<1>11. CASE bad # <<>>
  <2>1. 1 \in DOMAIN bad
    BY <1>9, <1>11
  <2>2. bad[1] \in ToSet(bad)
    BY <2>1 DEF ToSet
  <2>3. /\ bad[1] \in {"skip", "throw"}
        /\ \E c \in CutsOf(e) : CutOutcome(c, at) = bad[1]
    BY <1>8, <1>9, <2>2
  <2> QED
    BY <1>2, <1>11, <2>3
<1> QED
  BY <1>10, <1>11

\* A candidate becomes a row only if every cut passes; if no cut throws and
\* all pass it does.
LEMMA RowOutcomeSound ==
  ASSUME NEW e, NEW at, e.names \subseteq Branches
  PROVE  /\ RowOutcome(e, at) \in {"pass", "skip", "throw"}
         /\ RowOutcome(e, at) = "pass" => Selected(e, at)
         /\ RowOutcome(e, at) # "throw" /\ Selected(e, at) =>
              RowOutcome(e, at) = "pass"
<1>1. /\ ApplyCuts(e, at) \in {"pass", "skip", "throw"}
      /\ ApplyCuts(e, at) = "pass" =>
           \A c \in CutsOf(e) : CutOutcome(c, at) = "pass"
      /\ ApplyCuts(e, at) # "pass" =>
           \E c \in CutsOf(e) : CutOutcome(c, at) = ApplyCuts(e, at)
  BY ApplyCutsSound
<1>2. \A c : CutOutcome(c, at) = "pass" => c = NoCut \/ Passes(c, at)
  BY DEF CutOutcome
<1>3. \A c : CutOutcome(c, at) = "skip" => c # NoCut /\ ~ Passes(c, at)
  BY DEF CutOutcome
<1>4. RowOutcome(e, at) = "throw" \/ RowOutcome(e, at) = ApplyCuts(e, at)
  BY DEF RowOutcome
<1>5. Selected(e, at) <=> \A c \in CutsOf(e) \ {NoCut} : Passes(c, at)
  BY DEF Selected, CutsOf
<1> QED
  BY <1>1, <1>2, <1>3, <1>4, <1>5

\* Channels and matchings of an event: the maps hold registered pairs, and a
\* partner of every channel that was registered with one.
MapsRegistered(m, pairs) ==
  /\ \A i \in DOMAIN m.direct : <<i, m.direct[i]>> \in pairs
  /\ \A j \in DOMAIN m.inverted : <<m.inverted[j], j>> \in pairs
  /\ \A ij \in pairs : ij[1] \in DOMAIN m.direct /\ ij[2] \in DOMAIN m.inverted

EventSound ==
  /\ index \in MatchIndexes
  /\ size \in [ChannelBranches -> Nat]
  /\ DOMAIN matching = index /\ DOMAIN registered = index
  /\ \A p \in index :
       /\ registered[p] \subseteq (0 .. size[p[1]] - 1) \X (0 .. size[p[2]] - 1)
       /\ MapsRegistered(matching[p], registered[p])

\* The map an entry over the branches b and c reads has matches of channels of
\* b with channels of c, and one for each channel of b that has any.
LEMMA GetMatchesSound ==
  ASSUME EventSound, NEW b \in ChannelBranches, NEW c \in ChannelBranches,
         HasMatchInfo(b, c),
         NEW m, m = GetMatches(matching[GetMatchInfo(b, c).pair],
                               GetMatchInfo(b, c).inverted)
  PROVE  /\ IsFiniteSet(DOMAIN m) /\ DOMAIN m \subseteq Nat
         /\ \A k \in DOMAIN m :
              /\ k \in 0 .. size[b] - 1 /\ m[k] \in 0 .. size[c] - 1
              /\ <<k, m[k]>> \in Matched(b, c) /\ <<m[k], k>> \in Matched(c, b)
         /\ \A x, y : <<x, y>> \in Matched(b, c) =>
              x \in DOMAIN m /\ (OneToOne => m[x] = y)
<1> DEFINE Right ==
             /\ \A k \in DOMAIN m :
                  /\ k \in 0 .. size[b] - 1 /\ m[k] \in 0 .. size[c] - 1
                  /\ <<k, m[k]>> \in Matched(b, c) /\ <<m[k], k>> \in Matched(c, b)
             /\ \A x, y : <<x, y>> \in Matched(b, c) =>
                  x \in DOMAIN m /\ (OneToOne => m[x] = y)
<1>1. /\ index \subseteq ChannelBranches \X ChannelBranches
      /\ \A p \in index : <<p[2], p[1]>> \notin index
  BY AnalysisTaskAssumption DEF EventSound
<1>2. size[b] \in Nat /\ size[c] \in Nat
  BY DEF EventSound
<1>3. ASSUME <<b, c>> \in index PROVE Right
  <2> DEFINE R == registered[<<b, c>>]
  <2>1. <<c, b>> \notin index
    BY <1>1, <1>3
  <2>2. m = matching[<<b, c>>].direct
    BY <1>3 DEF GetMatchInfo, GetMatches
  <2>3. /\ R \subseteq (0 .. size[b] - 1) \X (0 .. size[c] - 1)
        /\ \A i \in DOMAIN m : <<i, m[i]>> \in R
        /\ \A ij \in R : ij[1] \in DOMAIN m
    BY <1>3, <2>2 DEF EventSound, MapsRegistered
  <2>4. Matched(b, c) = R /\ Matched(c, b) = {<<ij[2], ij[1]>> : ij \in R}
    BY <1>3, <2>1 DEF Matched
  <2>5. OneToOne => \A x, y \in R : x[1] = y[1] => x[2] = y[2]
    BY <1>3 DEF OneToOne
  <2> HIDE DEF R
  <2>6. ASSUME NEW k \in DOMAIN m
        PROVE  /\ k \in 0 .. size[b] - 1 /\ m[k] \in 0 .. size[c] - 1
               /\ <<k, m[k]>> \in Matched(b, c) /\ <<m[k], k>> \in Matched(c, b)
    BY <2>3, <2>4
  <2>7. ASSUME NEW x, NEW y, <<x, y>> \in Matched(b, c)
        PROVE  x \in DOMAIN m /\ (OneToOne => m[x] = y)
    <3>1. <<x, y>> \in R /\ x \in DOMAIN m
      BY <2>3, <2>4, <2>7
    <3>2. <<x, m[x]>> \in R
      BY <2>3, <3>1
    <3> QED
      BY <2>5, <3>1, <3>2
  <2> QED
    BY <2>6, <2>7
<1>4. ASSUME <<b, c>> \notin index PROVE Right
  <2> DEFINE R == registered[<<c, b>>]
  <2>1. <<c, b>> \in index
    BY <1>4 DEF HasMatchInfo
  <2>2. m = matching[<<c, b>>].inverted
    BY <1>4 DEF GetMatchInfo, GetMatches
  <2>3. /\ R \subseteq (0 .. size[c] - 1) \X (0 .. size[b] - 1)
        /\ \A j \in DOMAIN m : <<m[j], j>> \in R
        /\ \A ij \in R : ij[2] \in DOMAIN m
    BY <2>1, <2>2 DEF EventSound, MapsRegistered
  <2>4. Matched(c, b) = R /\ Matched(b, c) = {<<ij[2], ij[1]>> : ij \in R}
    BY <1>4, <2>1 DEF Matched
  <2>5. OneToOne => \A x, y \in R : x[2] = y[2] => x[1] = y[1]
    BY <2>1 DEF OneToOne
  <2> HIDE DEF R
  <2>6. ASSUME NEW k \in DOMAIN m
        PROVE  /\ k \in 0 .. size[b] - 1 /\ m[k] \in 0 .. size[c] - 1
               /\ <<k, m[k]>> \in Matched(b, c) /\ <<m[k], k>> \in Matched(c, b)
    BY <2>3, <2>4
  <2>7. ASSUME NEW x, NEW y, <<x, y>> \in Matched(b, c)
        PROVE  x \in DOMAIN m /\ (OneToOne => m[x] = y)
    <3>1. <<y, x>> \in R
      BY <2>3, <2>4, <2>7
    <3>2. x \in DOMAIN m
      BY <2>3, <3>1
    <3>3. <<m[x], x>> \in R
      BY <2>3, <3>2
    <3> QED
      BY <2>5, <3>1, <3>2, <3>3
  <2> QED
    BY <2>6, <2>7
<1>5. Right
  BY <1>3, <1>4
<1>6. IsFiniteSet(DOMAIN m) /\ DOMAIN m \subseteq Nat
  <2>1. IsFiniteSet(0 .. size[b] - 1)
    BY <1>2, FS_Interval
  <2>2. DOMAIN m \subseteq 0 .. size[b] - 1
    BY <1>5
  <2>3. DOMAIN m \subseteq Nat
    BY <1>2, <2>2
  <2> QED
    BY <2>1, <2>2, <2>3, FS_Subset
<1> QED
  BY <1>5, <1>6

\* An entry over two branches with channels reads the map of the matching of
\* the two that has channels of the first as keys.
ReadsMatch(e, free) ==
  Len(free) = 2 => /\ e.match = GetMatchInfo(free[1], free[2]).pair
                   /\ e.inverted = GetMatchInfo(free[1], free[2]).inverted

\* An entry after Init.
BoundEntry(e) ==
  /\ e.cuts \in [e.names -> Cuts]
  /\ \A b \in e.names : e.cuts[b] \in CutObjects => CutBranches[e.cuts[b]] = {b}
  /\ e.cut \in ready \cup {NoCut}
  /\ Accepted(e)
  /\ ReadsMatch(e, WithChannels(e.names))

\* The combinations of channels a table is about, before the cuts.
Combinations(e) ==
  {at \in [e.names -> Nat] :
     /\ \A b \in e.names : at[b] < (IF b \in ChannelBranches THEN size[b] ELSE 1)
     /\ \A b, c \in e.names \cap ChannelBranches :
          b # c => <<at[b], at[c]>> \in Matched(b, c)}

\* A function on a finite set has finitely many values.
LEMMA ImageFinite ==
  ASSUME NEW D, NEW T, IsFiniteSet(D), NEW f \in [D -> T]
  PROVE  IsFiniteSet({f[x] : x \in D})
<1> DEFINE V == {f[x] : x \in D}
<1>1. f \in [D -> V] /\ \A v \in V : \E x \in D : f[x] = v
  OBVIOUS
<1> HIDE DEF V
<1>2. f \in Surjection(D, V)
  BY <1>1 DEF Surjection
<1>3. IsFiniteSet(V)
  BY <1>2, FS_Surjection
<1> QED
  BY <1>3 DEF V

\* No channel number is out of the bounds that Wanted enumerates.
LEMMA WantedSound ==
  ASSUME EventSound, NEW e, e.names \subseteq Branches
  PROVE  Wanted(e) = {at \in Combinations(e) : Selected(e, at)}
<1> DEFINE S == {0} \cup {size[b] : b \in ChannelBranches}
<1>1. IsFiniteSet(S)
  <2>1. IsFiniteSet(ChannelBranches)
    <3>1. DOMAIN NameOrder = 1 .. Len(NameOrder) /\ Len(NameOrder) \in Int
      BY AnalysisTaskAssumption
    <3>2. \A m \in Int : IsFiniteSet(1 .. m)
      BY FS_Interval
    <3>3. IsFiniteSet(DOMAIN NameOrder)
      BY <3>1, <3>2
    <3>4. IsFiniteSet({NameOrder[i] : i \in DOMAIN NameOrder})
      <4>1. NameOrder \in [1 .. Len(NameOrder) -> Branches]
        BY AnalysisTaskAssumption
      <4> QED
        BY <3>1, <3>3, <4>1, ImageFinite
    <3>5. ChannelBranches \subseteq {NameOrder[i] : i \in DOMAIN NameOrder}
      BY AnalysisTaskAssumption DEF ToSet, Branches
    <3> QED
      BY <3>4, <3>5, FS_Subset
  <2>2. IsFiniteSet({size[b] : b \in ChannelBranches})
    BY <2>1, ImageFinite DEF EventSound
  <2>3. IsFiniteSet({0})
    BY FS_Singleton
  <2> QED
    BY <2>2, <2>3, FS_Union
<1>2. S \subseteq Nat /\ S # {}
  BY DEF EventSound
<1>3. S \subseteq Int
  BY <1>2
<1>4. Max(S) \in S /\ \A n \in S : Max(S) >= n
  BY <1>1, <1>2, <1>3, MaxSound
<1>5. Max(S) \in Nat /\ 0 \in S /\ \A b \in ChannelBranches : size[b] \in S
  BY <1>2, <1>4
<1> DEFINE top == Max(S)
<1>6. top \in Nat /\ \A b \in ChannelBranches : size[b] \in Nat /\ size[b] <= top
  BY <1>4, <1>5 DEF EventSound
<1>7. Wanted(e) =
        {at \in [e.names -> 0 .. top] :
           /\ \A b \in e.names : at[b] < (IF b \in ChannelBranches THEN size[b] ELSE 1)
           /\ \A b, c \in e.names \cap ChannelBranches :
                b # c => <<at[b], at[c]>> \in Matched(b, c)
           /\ Selected(e, at)}
  BY DEF Wanted
<1> HIDE DEF top
<1>8. ASSUME NEW at \in [e.names -> Nat],
             \A b \in e.names : at[b] < (IF b \in ChannelBranches THEN size[b] ELSE 1)
      PROVE  at \in [e.names -> 0 .. top]
  <2> SUFFICES ASSUME NEW b \in e.names PROVE at[b] \in 0 .. top
    OBVIOUS
  <2>1. CASE b \in ChannelBranches
    BY <1>6, <1>8, <2>1
  <2>2. CASE b \notin ChannelBranches
    BY <1>6, <1>8, <2>2
  <2> QED
    BY <2>1, <2>2
<1>9. \A at \in [e.names -> 0 .. top] : at \in [e.names -> Nat]
  BY <1>6
<1>10. \A at : at \in Wanted(e) <=> at \in Combinations(e) /\ Selected(e, at)
  BY <1>7, <1>8, <1>9 DEF Combinations
<1> QED
  BY <1>10 DEF Wanted, Combinations

\* What the loop over all channels, or over the matches, of a table gives: the
\* combinations of channels, each once, as far as the maps have them.
CandidatesRight(e, all) ==
  /\ all \in Seq([e.names -> Nat])
  /\ IsInjective(all)
  /\ \A at \in ToSet(all) : at \in Combinations(e)
  /\ OneToOne => \A at \in Combinations(e) : at \in ToSet(all)

\* FillFromEveHeaders.
LEMMA HeadersSound ==
  ASSUME NEW e, e.names \cap ChannelBranches = {}
  PROVE  CandidatesRight(e, <<At(e, <<>>)>>)
<1> DEFINE a == At(e, <<>>)
<1>1. a = [b \in e.names |-> 0]
  <2>1. \A b : b \notin DOMAIN <<>>
    OBVIOUS
  <2> QED
    BY <2>1 DEF At
<1>2. a \in [e.names -> Nat] /\ a \in Combinations(e)
  BY <1>1 DEF Combinations
<1>3. ASSUME NEW at \in Combinations(e)
      PROVE  at = a
  <2>1. at \in [e.names -> Nat] /\ \A b \in e.names : at[b] < 1
    BY <1>3 DEF Combinations
  <2>2. \A b \in e.names : at[b] = 0
    BY <2>1
  <2> QED
    BY <1>1, <2>1, <2>2
<1> HIDE DEF a
<1>4. ToSet(<<a>>) = {a}
  BY DEF ToSet
<1>5. IsInjective(<<a>>)
  BY DEF IsInjective
<1>6. <<a>> \in Seq([e.names -> Nat])
  BY <1>2
<1> QED
  BY <1>2, <1>3, <1>4, <1>5, <1>6 DEF CandidatesRight, a

\* FillFromOneChannalizedBranch.
LEMMA ChannelsSound ==
  ASSUME EventSound, NEW e, NEW x, x \in ChannelBranches,
         e.names \cap ChannelBranches = {x}
  PROVE  CandidatesRight(e, [n \in 1 .. size[x] |-> At(e, [b \in {x} |-> n - 1])])
<1> DEFINE At1(n) == At(e, [b \in {x} |-> n - 1])
           all == [n \in 1 .. size[x] |-> At1(n)]
<1>1. size[x] \in Nat /\ x \in e.names
  BY DEF EventSound
<1>2. \A n : At1(n) = [b \in e.names |-> IF b = x THEN n - 1 ELSE 0]
  BY DEF At
<1>3. ASSUME NEW n \in 1 .. size[x]
      PROVE  At1(n) \in Combinations(e)
  <2> DEFINE at == [b \in e.names |-> IF b = x THEN n - 1 ELSE 0]
  <2>1. at \in [e.names -> Nat]
    BY <1>1
  <2>2. \A b \in e.names : at[b] < (IF b \in ChannelBranches THEN size[b] ELSE 1)
    <3> SUFFICES ASSUME NEW b \in e.names
                 PROVE  at[b] < (IF b \in ChannelBranches THEN size[b] ELSE 1)
      OBVIOUS
    <3>1. CASE b = x
      BY <1>1, <3>1
    <3>2. CASE b # x
      BY <3>2
    <3> QED
      BY <3>1, <3>2
  <2> HIDE DEF at
  <2>3. at \in Combinations(e)
    BY <2>1, <2>2 DEF Combinations
  <2> QED
    BY <1>2, <2>3 DEF at
<1>4. all \in Seq([e.names -> Nat]) /\ DOMAIN all = 1 .. size[x]
  <2>1. \A n \in 1 .. size[x] : At1(n) \in [e.names -> Nat]
    BY <1>3 DEF Combinations
  <2> HIDE DEF At1
  <2> QED
    BY <1>1, <2>1
<1>5. IsInjective(all)
  <2> SUFFICES ASSUME NEW i \in 1 .. size[x], NEW j \in 1 .. size[x], all[i] = all[j]
               PROVE  i = j
    BY DEF IsInjective
  <2>1. At1(i) = At1(j)
    OBVIOUS
  <2>2. At1(i)[x] = i - 1 /\ At1(j)[x] = j - 1
    BY <1>1, <1>2
  <2> QED
    BY <2>1, <2>2
<1>6. ASSUME NEW at \in Combinations(e)
      PROVE  at \in ToSet(all)
  <2>1. /\ at \in [e.names -> Nat]
        /\ \A b \in e.names : at[b] < (IF b \in ChannelBranches THEN size[b] ELSE 1)
    BY <1>6 DEF Combinations
  <2>2. at[x] \in Nat /\ at[x] < size[x]
    BY <1>1, <2>1
  <2>3. \A b \in e.names : b # x => at[b] = 0
    BY <2>1
  <2> DEFINE n == at[x] + 1
  <2>4. n \in 1 .. size[x] /\ n - 1 = at[x]
    BY <1>1, <2>2
  <2> HIDE DEF n
  <2>5. At1(n) = at
    BY <1>2, <2>1, <2>3, <2>4
  <2> QED
    BY <2>4, <2>5 DEF ToSet
<1>7. \A at \in ToSet(all) : at \in Combinations(e)
  BY <1>3 DEF ToSet
<1> HIDE DEF all
<1>8. CandidatesRight(e, all)
  BY <1>4, <1>5, <1>6, <1>7 DEF CandidatesRight
<1> QED
  BY <1>8 DEF all

\* FillFromTwoChannalizedBranches.
LEMMA MatchesSound ==
  ASSUME EventSound, NEW e, NEW x \in ChannelBranches, NEW y \in ChannelBranches,
         x # y, e.names \cap ChannelBranches = {x, y}, HasMatchInfo(x, y),
         NEW m, m = GetMatches(matching[GetMatchInfo(x, y).pair],
                               GetMatchInfo(x, y).inverted),
         NEW keys, keys = Ascending(DOMAIN m)
  PROVE  CandidatesRight(e, [n \in DOMAIN keys |->
                               At(e, [b \in {x, y} |->
                                        IF b = x THEN keys[n] ELSE m[keys[n]]])])
<1> DEFINE At2(k) == At(e, [b \in {x, y} |-> IF b = x THEN k ELSE m[k]])
           all == [n \in DOMAIN keys |-> At2(keys[n])]
<1>1. /\ IsFiniteSet(DOMAIN m) /\ DOMAIN m \subseteq Nat
      /\ \A k \in DOMAIN m :
           /\ k \in 0 .. size[x] - 1 /\ m[k] \in 0 .. size[y] - 1
           /\ <<k, m[k]>> \in Matched(x, y) /\ <<m[k], k>> \in Matched(y, x)
      /\ \A i, j : <<i, j>> \in Matched(x, y) =>
           i \in DOMAIN m /\ (OneToOne => m[i] = j)
  BY GetMatchesSound
<1>2. /\ DOMAIN keys = 1 .. Cardinality(DOMAIN m) /\ Cardinality(DOMAIN m) \in Nat
      /\ \A n \in DOMAIN keys : keys[n] \in DOMAIN m
      /\ \A k \in DOMAIN m : \E n \in DOMAIN keys : keys[n] = k
      /\ \A i, j \in DOMAIN keys : keys[i] = keys[j] => i = j
  <2>1. DOMAIN m \subseteq Int
    BY <1>1
  <2> QED
    BY <1>1, <2>1, AscendingSound DEF IsInjective
<1>3. size[x] \in Nat /\ size[y] \in Nat /\ x \in e.names /\ y \in e.names
  BY DEF EventSound
<1>4. \A k : At2(k) = [b \in e.names |->
                         IF b = x THEN k ELSE IF b = y THEN m[k] ELSE 0]
  BY DEF At
<1>5. ASSUME NEW k \in DOMAIN m
      PROVE  At2(k) \in Combinations(e)
  <2> DEFINE at == [b \in e.names |-> IF b = x THEN k ELSE IF b = y THEN m[k] ELSE 0]
  <2>1. /\ k \in Nat /\ m[k] \in Nat /\ k < size[x] /\ m[k] < size[y]
        /\ <<k, m[k]>> \in Matched(x, y) /\ <<m[k], k>> \in Matched(y, x)
    BY <1>1, <1>3
  <2>2. at \in [e.names -> Nat] /\ at[x] = k /\ at[y] = m[k]
    BY <1>3, <2>1
  <2>3. \A b \in e.names : at[b] < (IF b \in ChannelBranches THEN size[b] ELSE 1)
    <3> SUFFICES ASSUME NEW b \in e.names
                 PROVE  at[b] < (IF b \in ChannelBranches THEN size[b] ELSE 1)
      OBVIOUS
    <3>1. CASE b = x
      BY <2>1, <2>2, <3>1
    <3>2. CASE b = y
      BY <2>1, <2>2, <3>2
    <3>3. CASE b # x /\ b # y
      BY <3>3
    <3> QED
      BY <3>1, <3>2, <3>3
  <2> HIDE DEF at
  <2>4. \A b, c \in e.names \cap ChannelBranches :
          b # c => <<at[b], at[c]>> \in Matched(b, c)
    BY <2>1, <2>2
  <2>5. at \in Combinations(e)
    BY <2>2, <2>3, <2>4 DEF Combinations
  <2> QED
    BY <1>4, <2>5 DEF at
<1>6. \A k \in DOMAIN m : At2(k) \in [e.names -> Nat]
  BY <1>5 DEF Combinations
<1>7. \A k, l : At2(k) = At2(l) => k = l
  <2> SUFFICES ASSUME NEW k, NEW l, At2(k) = At2(l)
               PROVE  k = l
    OBVIOUS
  <2>1. At2(k)[x] = k /\ At2(l)[x] = l
    BY <1>3, <1>4
  <2> QED
    BY <2>1
<1>8. ASSUME NEW at \in Combinations(e), OneToOne
      PROVE  \E k \in DOMAIN m : at = At2(k)
  <2>1. /\ at \in [e.names -> Nat]
        /\ \A b \in e.names : at[b] < (IF b \in ChannelBranches THEN size[b] ELSE 1)
        /\ \A b, c \in e.names \cap ChannelBranches :
             b # c => <<at[b], at[c]>> \in Matched(b, c)
    BY <1>8 DEF Combinations
  <2>2. <<at[x], at[y]>> \in Matched(x, y)
    BY <1>3, <2>1
  <2>3. at[x] \in DOMAIN m /\ m[at[x]] = at[y]
    BY <1>1, <1>8, <2>2
  <2>4. \A b \in e.names : b # x /\ b # y => at[b] = 0
    BY <2>1
  <2> DEFINE k == at[x]
  <2>5. At2(k) = at
    BY <1>4, <2>1, <2>3, <2>4
  <2> QED
    BY <2>3, <2>5
<1> HIDE DEF At2
<1>9. all \in Seq([e.names -> Nat]) /\ DOMAIN all = DOMAIN keys
  BY <1>2, <1>6
<1>10. IsInjective(all)
  BY <1>2, <1>7 DEF IsInjective
<1>11. \A at \in ToSet(all) : at \in Combinations(e)
  BY <1>2, <1>5 DEF ToSet
<1>12. OneToOne => \A at \in Combinations(e) : at \in ToSet(all)
  BY <1>2, <1>8 DEF ToSet
<1> HIDE DEF all
<1>13. CandidatesRight(e, all)
  BY <1>9, <1>10, <1>11, <1>12 DEF CandidatesRight
<1> QED
  BY <1>13 DEF all, At2

\* Candidates chooses among the three by the branches of the entry.
LEMMA CandidatesSound ==
  ASSUME EventSound, NEW e, e.names \subseteq Branches, BoundEntry(e)
  PROVE  CandidatesRight(e, Candidates(e))
<1> DEFINE free == WithChannels(e.names)
<1>1. /\ free \in Seq(ChannelBranches) /\ ToSet(free) = e.names \cap ChannelBranches
      /\ \A i, j \in DOMAIN free : free[i] = free[j] => i = j
  BY WithChannelsSound DEF IsInjective
<1>2. Len(free) <= 2 /\ (Len(free) = 2 => HasMatchInfo(free[1], free[2]))
  BY DEF BoundEntry, Accepted
<1>3. Len(free) = 2 => /\ e.match = GetMatchInfo(free[1], free[2]).pair
                       /\ e.inverted = GetMatchInfo(free[1], free[2]).inverted
  BY DEF BoundEntry, ReadsMatch
<1> DEFINE m == GetMatches(matching[e.match], e.inverted)
           keys == Ascending(DOMAIN m)
<1>4. Candidates(e) =
        CASE Len(free) = 0 -> <<At(e, <<>>)>>
          [] Len(free) = 1 ->
               [n \in 1 .. size[free[1]] |-> At(e, [b \in {free[1]} |-> n - 1])]
          [] OTHER ->
               [n \in DOMAIN keys |->
                  At(e, [b \in ToSet(free) |->
                           IF b = free[1] THEN keys[n] ELSE m[keys[n]]])]
  BY DEF Candidates
<1> HIDE DEF free, m, keys
<1>5. Len(free) \in Nat /\ DOMAIN free = 1 .. Len(free)
  BY <1>1
<1>6. CASE Len(free) = 0
  <2>1. e.names \cap ChannelBranches = {}
    BY <1>1, <1>5, <1>6 DEF ToSet
  <2> QED
    BY <1>4, <1>6, <2>1, HeadersSound
<1>7. CASE Len(free) = 1
  <2> DEFINE x == free[1]
  <2>1. e.names \cap ChannelBranches = {x} /\ x \in ChannelBranches
    BY <1>1, <1>5, <1>7 DEF ToSet
  <2>2. Candidates(e) = [n \in 1 .. size[x] |-> At(e, [b \in {x} |-> n - 1])]
    BY <1>4, <1>7
  <2> HIDE DEF x
  <2>3. CandidatesRight(e, [n \in 1 .. size[x] |-> At(e, [b \in {x} |-> n - 1])])
    BY <2>1, ChannelsSound
  <2> QED
    BY <2>2, <2>3
<1>8. CASE Len(free) = 2
  <2> DEFINE x == free[1]
             y == free[2]
  <2>1. 1 \in DOMAIN free /\ 2 \in DOMAIN free
    BY <1>5, <1>8
  <2>2. /\ ToSet(free) = {x, y} /\ x \in ChannelBranches /\ y \in ChannelBranches
        /\ x # y
    <3>1. DOMAIN free = {1, 2}
      BY <1>5, <1>8
    <3>2. ToSet(free) = {x, y}
      BY <3>1 DEF ToSet
    <3> QED
      BY <1>1, <2>1, <3>2
  <2>3. HasMatchInfo(x, y)
    BY <1>2, <1>8
  <2>4. m = GetMatches(matching[GetMatchInfo(x, y).pair], GetMatchInfo(x, y).inverted)
    BY <1>3, <1>8 DEF m
  <2>5. Candidates(e) =
          [n \in DOMAIN keys |->
             At(e, [b \in {x, y} |-> IF b = x THEN keys[n] ELSE m[keys[n]]])]
    BY <1>4, <1>8, <2>2
  <2> HIDE DEF x, y
  <2>6. e.names \cap ChannelBranches = {x, y}
    BY <1>1, <2>2
  <2>7. keys = Ascending(DOMAIN m)
    BY DEF keys
  <2>8. CandidatesRight(e, [n \in DOMAIN keys |->
             At(e, [b \in {x, y} |-> IF b = x THEN keys[n] ELSE m[keys[n]]])])
    BY <2>2, <2>3, <2>4, <2>6, <2>7, MatchesSound
  <2> QED
    BY <2>5, <2>8
<1> QED
  BY <1>2, <1>5, <1>6, <1>7, <1>8

(***************************************************************************)
(* What Exec makes of a table                                              *)
(***************************************************************************)
\* Every row is what the entry's variables are in the channels of the row.
RowsEvaluated(e) == \A n \in DOMAIN e.rows : e.rows[n] = Row(e, e.rows[n].at)

\* The two halves of RowsAreSelected and RowsComplete, of one table.
OnlySelected(e) ==
  RowsOf(e) \subseteq Wanted(e) /\ Cardinality(RowsOf(e)) = Len(e.rows)

AllSelected(e) == OneToOne => Wanted(e) \subseteq RowsOf(e)

\* A row has the types of one.
LEMMA RowType ==
  ASSUME NEW e \in Entry, NEW at \in Ats
  PROVE  /\ Row(e, at) \in Rows
         /\ Row(e, at).at = at
         /\ Len(Row(e, at).values) = Len(e.vars)
<1> DEFINE vals == [i \in DOMAIN e.vars |-> Value(e.vars[i], at)]
<1>1. e.vars \in Seq(Variables) /\ e.weight \in Variables
  BY DEF Entry
<1>2. \A v \in Variables : Value(v, at) \in Terms
  BY DEF Terms
<1>3. \A i \in 1 .. Len(e.vars) : e.vars[i] \in Variables
  BY <1>1
<1>4. vals \in Seq(Terms) /\ Len(vals) = Len(e.vars)
  <2>1. DOMAIN e.vars = 1 .. Len(e.vars) /\ Len(e.vars) \in Nat
    BY <1>1
  <2>2. \A i \in 1 .. Len(e.vars) : Value(e.vars[i], at) \in Terms
    BY <1>2, <1>3
  <2> QED
    BY <2>1, <2>2
<1>5. Value(e.weight, at) \in Terms
  BY <1>1, <1>2
<1>6. Row(e, at) = [at |-> at, values |-> vals, weight |-> Value(e.weight, at)]
  BY DEF Row
<1> HIDE DEF vals
<1> QED
  BY <1>4, <1>5, <1>6 DEF Rows

\* FillValues, when nothing throws.
LEMMA FilledSound ==
  ASSUME EventSound, NEW e \in Entry, BoundEntry(e), ~ Throws(e)
  PROVE  /\ Filled(e) \in Entry
         /\ Filled(e) = [e EXCEPT !.rows = Filled(e).rows]
         /\ RowsEvaluated(Filled(e))
         /\ OnlySelected(Filled(e))
         /\ AllSelected(Filled(e))
<1> DEFINE all == Candidates(e)
           T == {at \in ToSet(all) : RowOutcome(e, at) = "pass"}
           passing == Those(all, T)
           rows == [n \in DOMAIN passing |-> Row(e, passing[n])]
           f == Filled(e)
<1>1. e.names \subseteq Branches
  BY DEF Entry
<1>2. /\ all \in Seq([e.names -> Nat])
      /\ IsInjective(all)
      /\ \A at \in ToSet(all) : at \in Combinations(e)
      /\ OneToOne => \A at \in Combinations(e) : at \in ToSet(all)
  BY <1>1, CandidatesSound DEF CandidatesRight
<1>3. \A at \in ToSet(all) : RowOutcome(e, at) # "throw"
  BY DEF Throws
<1>4. f = [e EXCEPT !.rows = rows]
  BY DEF Filled
<1> HIDE DEF all
<1>5. /\ passing \in Seq([e.names -> Nat]) /\ IsInjective(passing)
      /\ ToSet(passing) = ToSet(all) \cap T
  BY <1>2, ThoseSound
<1>6. ToSet(passing) = T
  BY <1>5
<1> HIDE DEF passing
<1>7. \A at \in [e.names -> Nat] : at \in Ats
  BY <1>1 DEF Ats
<1>8. /\ DOMAIN rows = 1 .. Len(passing) /\ Len(passing) \in Nat
      /\ DOMAIN passing = 1 .. Len(passing)
      /\ \A n \in DOMAIN rows : passing[n] \in [e.names -> Nat]
  BY <1>5
<1>9. \A n \in DOMAIN rows : /\ rows[n] = Row(e, passing[n]) /\ rows[n] \in Rows
                             /\ rows[n].at = passing[n]
  <2> SUFFICES ASSUME NEW n \in DOMAIN rows
               PROVE  rows[n] \in Rows /\ rows[n].at = passing[n]
    OBVIOUS
  <2>1. passing[n] \in Ats
    BY <1>7, <1>8
  <2> QED
    BY <2>1, RowType
<1> HIDE DEF rows, f
<1>10. rows \in Seq(Rows) /\ Len(rows) = Len(passing)
  <2>1. \A n \in 1 .. Len(passing) : rows[n] \in Rows
    BY <1>8, <1>9
  <2>2. rows = [n \in 1 .. Len(passing) |-> rows[n]]
    BY <1>8 DEF rows
  <2> QED
    BY <1>8, <2>1, <2>2
<1>11. /\ f \in Entry /\ f.rows = rows /\ f = [e EXCEPT !.rows = f.rows]
       /\ f.names = e.names /\ f.cut = e.cut /\ f.cuts = e.cuts
       /\ f.vars = e.vars /\ f.weight = e.weight
  BY <1>4, <1>10 DEF Entry
<1>12. RowsEvaluated(f)
  <2>1. \A at : Row(f, at) = Row(e, at)
    BY <1>11 DEF Row
  <2> QED
    BY <1>9, <1>11, <2>1 DEF RowsEvaluated
<1>13. RowsOf(f) = T
  <2>1. RowsOf(f) = {rows[n].at : n \in DOMAIN rows}
    BY <1>11 DEF RowsOf
  <2>2. {rows[n].at : n \in DOMAIN rows} = {passing[n] : n \in DOMAIN passing}
    BY <1>8, <1>9
  <2> QED
    BY <1>6, <2>1, <2>2 DEF ToSet
<1>14. Cardinality(RowsOf(f)) = Len(f.rows)
  <2> DEFINE n0 == Len(passing)
  <2>1. passing \in [1 .. n0 -> ToSet(passing)]
    BY <1>5, <1>8 DEF ToSet
  <2>2. \A t \in ToSet(passing) : \E n \in 1 .. n0 : passing[n] = t
    BY <1>8 DEF ToSet
  <2>3. passing \in Surjection(1 .. n0, ToSet(passing))
    BY <2>1, <2>2 DEF Surjection
  <2>4. passing \in Injection(1 .. n0, ToSet(passing))
    BY <1>5, <2>1 DEF Injection
  <2>5. n0 \in Nat
    BY <1>8
  <2> HIDE DEF n0
  <2>6. IsFiniteSet(1 .. n0) /\ Cardinality(1 .. n0) = n0
    BY <2>5, FS_Interval
  <2>7. Cardinality(ToSet(passing)) = Cardinality(1 .. n0)
    BY <2>3, <2>4, <2>6, FS_Surjection
  <2> QED
    BY <1>6, <1>10, <1>11, <1>13, <2>6, <2>7 DEF n0
<1>15. \A at : at \in Wanted(f) <=> at \in Combinations(e) /\ Selected(e, at)
  <2>1. f.names \subseteq Branches
    BY <1>1, <1>11
  <2>2. Wanted(f) = {at \in Combinations(f) : Selected(f, at)}
    BY <2>1, WantedSound
  <2>3. Combinations(f) = Combinations(e)
    BY <1>11 DEF Combinations
  <2>4. \A at : Selected(f, at) <=> Selected(e, at)
    BY <1>11 DEF Selected
  <2> QED
    BY <2>2, <2>3, <2>4
<1>16. \A at : /\ RowOutcome(e, at) = "pass" => Selected(e, at)
               /\ RowOutcome(e, at) # "throw" /\ Selected(e, at) =>
                    RowOutcome(e, at) = "pass"
  BY <1>1, RowOutcomeSound
<1>17. OnlySelected(f)
  BY <1>2, <1>13, <1>14, <1>15, <1>16 DEF OnlySelected
<1>18. AllSelected(f)
  BY <1>2, <1>3, <1>13, <1>15, <1>16 DEF AllSelected
<1> QED
  BY <1>11, <1>12, <1>17, <1>18 DEF f

\* The branches an entry reads are those of its names, with the exception of
\* its weight's.
ReadsNames(e) ==
  /\ \A i \in DOMAIN e.vars : e.vars[i].branches \subseteq e.names
  /\ BranchesOfCut(e.cut) \subseteq e.names

\* Why a candidate can throw.
Explained(e) ==
  \/ ~(e.weight.branches \subseteq e.names)
  \/ \E b \in e.names : e.cuts[b] \notin ready \cup {NoCut}

LEMMA ThrowsExplained ==
  ASSUME EventSound, NEW e \in Entry, BoundEntry(e), ReadsNames(e), Throws(e)
  PROVE  Explained(e)
<1>1. e.names \subseteq Branches
  BY DEF Entry
<1>2. PICK at \in ToSet(Candidates(e)) : RowOutcome(e, at) = "throw"
  BY DEF Throws
<1>3. DOMAIN at = e.names
  BY <1>1, <1>2, CandidatesSound DEF CandidatesRight, Combinations
<1> SUFFICES ASSUME ~ Explained(e) PROVE FALSE
  OBVIOUS
<1>4. /\ e.weight.branches \subseteq e.names
      /\ \A b \in e.names : e.cuts[b] \in ready \cup {NoCut}
  BY DEF Explained
<1>5. \A v \in ToSet(e.vars) \cup {e.weight} : Readable(v, at)
  BY <1>3, <1>4 DEF ReadsNames, Readable, ToSet
<1>6. ASSUME NEW c \in CutsOf(e)
      PROVE  CutOutcome(c, at) # "throw"
  <2>1. CASE c = e.cut
    <3>1. c \in ready \cup {NoCut}
      BY <2>1 DEF BoundEntry
    <3>2. c # NoCut => CutBranches[c] \subseteq DOMAIN at
      BY <1>3, <2>1 DEF ReadsNames, BranchesOfCut
    <3> QED
      BY <3>1, <3>2 DEF CutOutcome
  <2>2. CASE \E b \in e.names : c = e.cuts[b]
    <3>1. PICK b \in e.names : c = e.cuts[b]
      BY <2>2
    <3>2. c \in ready \cup {NoCut} /\ c \in Cuts
      BY <1>4, <3>1 DEF BoundEntry
    <3>3. c # NoCut => CutBranches[c] \subseteq DOMAIN at
      BY <1>3, <3>1, <3>2 DEF BoundEntry, Cuts
    <3> QED
      BY <3>2, <3>3 DEF CutOutcome
  <2> QED
    BY <2>1, <2>2 DEF CutsOf
<1>7. ApplyCuts(e, at) # "throw"
  BY <1>1, <1>6, ApplyCutsSound
<1> QED
  BY <1>2, <1>5, <1>7 DEF RowOutcome

(***************************************************************************)
(* What AddEntry does to the entries                                       *)
(***************************************************************************)
\* f is e with more variables.
Extends(f, e) ==
  /\ f = [e EXCEPT !.vars = f.vars]
  /\ Len(e.vars) <= Len(f.vars)
  /\ \A i \in 1 .. Len(e.vars) : f.vars[i] = e.vars[i]

\* The entry has, in the columns that were returned, what was asked for.
GrantKept(g, e) ==
  /\ Len(g.ids) = Len(g.request.vars)
  /\ \A i \in DOMAIN g.request.vars :
       /\ g.ids[i] \in 0 .. Len(e.vars) - 1
       /\ SameVariable(e.vars[g.ids[i] + 1], g.request.vars[i])
  /\ EqualCuts(e.cut, g.request.cut)
  /\ SameVariable(e.weight, WeightOf(g.request))

\* The result of AddEntry(r): old entries at most extended, new ones empty,
\* and the request granted.
AddSound(list, r, added) ==
  /\ added.entries \in Seq(Entry)
  /\ Len(list) <= Len(added.entries)
  /\ \A k \in 1 .. Len(list) : Extends(added.entries[k], list[k])
  /\ \A k \in DOMAIN added.entries :
       LET f == added.entries[k]
       IN /\ ReadsNames(f)
          /\ k > Len(list) => f.rows = <<>>
          /\ \A i \in DOMAIN f.vars :
               \/ f.vars[i] \in ToSet(r.vars)
               \/ k <= Len(list) /\ f.vars[i] \in ToSet(list[k].vars)
          /\ \/ f.weight = WeightOf(r)
             \/ k <= Len(list) /\ f.weight = list[k].weight
  /\ added.entry \in DOMAIN added.entries
  /\ added.ids \in Seq(Nat)
  /\ GrantKept([request |-> r, entry |-> added.entry, ids |-> added.ids],
               added.entries[added.entry])

\* Requests are of variables and cuts of the program.
LEMMA RequestType ==
  ASSUME NEW r \in Requests
  PROVE  /\ r.vars \in Seq(Variables) /\ r.cut \in Cuts
         /\ WeightOf(r) \in Variables
         /\ \A v \in ToSet(r.vars) : v \in Variables
         /\ BranchNames(r) \subseteq Branches
         /\ \A i \in DOMAIN r.vars : r.vars[i].branches \subseteq BranchNames(r)
         /\ BranchesOfCut(r.cut) \subseteq BranchNames(r)
<1>1. r.vars \in Seq(Variables) /\ r.cut \in Cuts
  BY RequestsAssumption DEF Cuts
<1>2. WeightOf(r) \in Variables
  BY DEF Variables
<1>3. \A v \in ToSet(r.vars) : v \in Variables
  BY <1>1 DEF ToSet
<1>4. \A i \in DOMAIN r.vars : r.vars[i].branches \subseteq Branches
  <2> SUFFICES ASSUME NEW i \in DOMAIN r.vars
               PROVE  r.vars[i].branches \subseteq Branches
    OBVIOUS
  <2>1. r.vars[i] \in Variables
    BY <1>1
  <2> QED
    BY <2>1, RequestsAssumption
<1>5. BranchesOfCut(r.cut) \subseteq Branches
  BY <1>1, AnalysisTaskAssumption DEF BranchesOfCut, Cuts
<1>6. BranchNames(r) \subseteq Branches
  BY <1>4, <1>5 DEF BranchNames
<1>7. /\ \A i \in DOMAIN r.vars : r.vars[i].branches \subseteq BranchNames(r)
      /\ BranchesOfCut(r.cut) \subseteq BranchNames(r)
  BY DEF BranchNames
<1> QED
  BY <1>1, <1>2, <1>3, <1>6, <1>7

LEMMA EqualCutsReflexive == \A c : EqualCuts(c, c)
BY DEF EqualCuts

LEMMA NewEntryType ==
  ASSUME NEW r \in Requests
  PROVE  NewEntry(r) \in Entry
<1>1. /\ BranchNames(r) \in SUBSET Branches /\ r.vars \in Seq(Variables)
      /\ WeightOf(r) \in Variables /\ r.cut \in Cuts
  BY RequestType
<1>2. <<>> \in CutTables /\ <<>> \in Pairs
  BY DEF CutTables, Pairs
<1>3. <<>> \in Seq(Rows)
  OBVIOUS
<1>4. FALSE \in BOOLEAN
  OBVIOUS
<1> QED
  BY <1>1, <1>2, <1>3, <1>4 DEF NewEntry, Entry

\* A table of its own.
LEMMA AddedNewSound ==
  ASSUME NEW list \in Seq(Entry), NEW r \in Requests,
         \A k \in DOMAIN list : ReadsNames(list[k])
  PROVE  AddSound(list, r, AddedNew(list, r))
<1> DEFINE e == NewEntry(r)
           new == Append(list, e)
           is == [i \in DOMAIN r.vars |-> i - 1]
           added == AddedNew(list, r)
           g == [request |-> r, entry |-> Len(list) + 1, ids |-> is]
<1>1. added.entries = new /\ added.entry = Len(list) + 1 /\ added.ids = is
  BY DEF AddedNew
<1>2. /\ e \in Entry /\ e.names = BranchNames(r) /\ e.vars = r.vars
      /\ e.weight = WeightOf(r) /\ e.cut = r.cut /\ e.rows = <<>>
  BY NewEntryType DEF NewEntry
<1>3. r.vars \in Seq(Variables)
  BY RequestType
<1>4. ReadsNames(e)
  BY <1>2, RequestType DEF ReadsNames
<1>5. /\ is \in Seq(Nat) /\ Len(is) = Len(r.vars)
      /\ \A i \in DOMAIN r.vars : is[i] = i - 1 /\ is[i] \in 0 .. Len(r.vars) - 1
                                  /\ is[i] + 1 = i
  <2>1. DOMAIN r.vars = 1 .. Len(r.vars) /\ Len(r.vars) \in Nat
    BY <1>3
  <2>2. \A i \in 1 .. Len(r.vars) : i - 1 \in Nat
    OBVIOUS
  <2> QED
    BY <2>1, <2>2
<1> HIDE DEF is, e
<1>6. /\ new \in Seq(Entry) /\ Len(new) = Len(list) + 1 /\ Len(list) \in Nat
      /\ \A k \in 1 .. Len(list) : new[k] = list[k]
      /\ new[Len(list) + 1] = e
  BY <1>2
<1> HIDE DEF new
<1>7. GrantKept(g, e)
  <2>1. g.ids = is /\ g.request = r
    OBVIOUS
  <2>2. \A v : SameVariable(v, v)
    BY DEF SameVariable
  <2> HIDE DEF g
  <2> QED
    BY <1>2, <1>5, <2>1, <2>2, EqualCutsReflexive DEF GrantKept
<1>8. \A k \in 1 .. Len(list) : Extends(new[k], list[k])
  <2> SUFFICES ASSUME NEW k \in 1 .. Len(list)
               PROVE  Extends(list[k], list[k])
    BY <1>6
  <2>1. list[k] \in Entry
    OBVIOUS
  <2>2. list[k] = [list[k] EXCEPT !.vars = list[k].vars]
    BY <2>1 DEF Entry
  <2>3. Len(list[k].vars) \in Nat
    BY <2>1 DEF Entry
  <2> QED
    BY <2>2, <2>3 DEF Extends
<1>9. ASSUME NEW k \in DOMAIN new
      PROVE  /\ ReadsNames(new[k])
             /\ k > Len(list) => new[k].rows = <<>>
             /\ \A i \in DOMAIN new[k].vars :
                  \/ new[k].vars[i] \in ToSet(r.vars)
                  \/ k <= Len(list) /\ new[k].vars[i] \in ToSet(list[k].vars)
             /\ \/ new[k].weight = WeightOf(r)
                \/ k <= Len(list) /\ new[k].weight = list[k].weight
  <2>1. k \in 1 .. Len(list) \/ k = Len(list) + 1
    BY <1>6
  <2>2. CASE k \in 1 .. Len(list)
    <3>1. new[k] = list[k] /\ k \in DOMAIN list /\ k <= Len(list) /\ ~(k > Len(list))
      BY <1>6, <2>2
    <3> QED
      BY <3>1 DEF ToSet
  <2>3. CASE k = Len(list) + 1
    BY <1>2, <1>4, <1>6, <2>3 DEF ToSet
  <2> QED
    BY <2>1, <2>2, <2>3
<1>10. Len(list) + 1 \in DOMAIN new
  BY <1>6
<1> HIDE DEF added
<1> QED
  BY <1>1, <1>5, <1>6, <1>7, <1>8, <1>9, <1>10 DEF AddSound, added

\* The table of another request.
LEMMA AddedToSound ==
  ASSUME NEW list \in Seq(Entry), NEW r \in Requests,
         \A k \in DOMAIN list : ReadsNames(list[k]),
         NEW n \in DOMAIN list, SharesTable(list[n], r)
  PROVE  AddSound(list, r, AddedTo(list, n, r))
<1> DEFINE e == list[n]
           res == AddVariables(e.vars, r.vars)
           f == [e EXCEPT !.vars = res.vars]
           new == [list EXCEPT ![n].vars = res.vars]
           added == AddedTo(list, n, r)
           g == [request |-> r, entry |-> n, ids |-> res.ids]
<1>1. added.entries = new /\ added.entry = n /\ added.ids = res.ids
  <2>1. added = [entries |-> new, entry |-> n, ids |-> res.ids]
    BY Zenon DEF AddedTo
  <2> HIDE DEF added, new, res
  <2> QED
    BY <2>1
<1>2. e \in Entry /\ e.vars \in Seq(Variables)
  <2>1. e \in Entry
    OBVIOUS
  <2> HIDE DEF e
  <2> QED
    BY <2>1 DEF Entry
<1>3. r.vars \in Seq(Variables)
  BY RequestType
<1>4. Placed(res, Variables, e.vars, r.vars, Len(r.vars))
  BY <1>2, <1>3, AddVariablesPlace
<1> HIDE DEF res
<1>5. /\ res.vars \in Seq(Variables) /\ res.ids \in Seq(Nat)
      /\ Len(res.ids) = Len(r.vars) /\ Len(e.vars) <= Len(res.vars)
      /\ \A k \in 1 .. Len(e.vars) : res.vars[k] = e.vars[k]
      /\ \A k \in DOMAIN res.vars : res.vars[k] \in ToSet(e.vars) \cup ToSet(r.vars)
      /\ \A j \in 1 .. Len(r.vars) :
           /\ res.ids[j] \in 0 .. Len(res.vars) - 1
           /\ SameVariable(res.vars[res.ids[j] + 1], r.vars[j])
  BY <1>4 DEF Placed
<1>6. /\ f \in Entry /\ f.vars = res.vars /\ f = [e EXCEPT !.vars = f.vars]
      /\ f.names = e.names /\ f.cut = e.cut /\ f.weight = e.weight /\ f.rows = e.rows
  BY <1>2, <1>5 DEF Entry
<1>7. /\ Len(list) \in Nat /\ DOMAIN list = 1 .. Len(list)
      /\ \A k \in DOMAIN list : list[k] \in Entry
  OBVIOUS
<1>8. /\ DOMAIN new = 1 .. Len(list) /\ new[n] = f
      /\ \A k \in DOMAIN list : k # n => new[k] = list[k]
  BY <1>7
<1> HIDE DEF f
<1>9. new \in Seq(Entry) /\ Len(new) = Len(list)
  <2>1. \A k \in 1 .. Len(list) : new[k] \in Entry
    BY <1>6, <1>7, <1>8
  <2>2. new = [k \in 1 .. Len(list) |-> new[k]]
    BY <1>7
  <2> HIDE DEF new
  <2> QED
    BY <1>7, <1>8, <2>1, <2>2
<1> HIDE DEF new
<1>10. /\ e.names = BranchNames(r) /\ EqualCuts(e.cut, r.cut)
       /\ SameVariable(e.weight, WeightOf(r))
  BY DEF SharesTable
<1>11. ReadsNames(e)
  OBVIOUS
<1>12. ReadsNames(f)
  <2>1. \A i \in DOMAIN r.vars : r.vars[i].branches \subseteq BranchNames(r)
    BY RequestType
  <2>2. ASSUME NEW i \in DOMAIN f.vars
        PROVE  f.vars[i].branches \subseteq f.names
    <3>1. f.vars[i] \in ToSet(e.vars) \cup ToSet(r.vars)
      BY <1>5, <1>6
    <3>2. CASE f.vars[i] \in ToSet(e.vars)
      BY <1>6, <1>11, <3>2 DEF ReadsNames, ToSet
    <3>3. CASE f.vars[i] \in ToSet(r.vars)
      BY <1>6, <1>10, <2>1, <3>3 DEF ToSet
    <3> QED
      BY <3>1, <3>2, <3>3
  <2>3. BranchesOfCut(f.cut) \subseteq f.names
    BY <1>6, <1>11 DEF ReadsNames
  <2> QED
    BY <2>2, <2>3 DEF ReadsNames
<1>13. Extends(f, e)
  BY <1>5, <1>6 DEF Extends
<1>14. \A k \in 1 .. Len(list) : Extends(new[k], list[k])
  <2> SUFFICES ASSUME NEW k \in 1 .. Len(list)
               PROVE  Extends(new[k], list[k])
    OBVIOUS
  <2>1. CASE k = n
    BY <1>8, <1>13, <2>1
  <2>2. CASE k # n
    <3>1. list[k] \in Entry /\ new[k] = list[k]
      BY <1>7, <1>8, <2>2
    <3>2. list[k] = [list[k] EXCEPT !.vars = list[k].vars]
      BY <3>1 DEF Entry
    <3>3. Len(list[k].vars) \in Nat
      BY <3>1 DEF Entry
    <3>4. Extends(list[k], list[k])
      BY <3>2, <3>3 DEF Extends
    <3> QED
      BY <3>1, <3>4
  <2> QED
    BY <2>1, <2>2
<1>15. ASSUME NEW k \in DOMAIN new
       PROVE  /\ ReadsNames(new[k])
              /\ k > Len(list) => new[k].rows = <<>>
              /\ \A i \in DOMAIN new[k].vars :
                   \/ new[k].vars[i] \in ToSet(r.vars)
                   \/ k <= Len(list) /\ new[k].vars[i] \in ToSet(list[k].vars)
              /\ \/ new[k].weight = WeightOf(r)
                 \/ k <= Len(list) /\ new[k].weight = list[k].weight
  <2>1. k \in DOMAIN list /\ k <= Len(list) /\ ~(k > Len(list))
    BY <1>7, <1>8
  <2>2. CASE k = n
    <3>1. new[k] = f /\ list[k] = e
      BY <1>8, <2>2
    <3>2. ReadsNames(new[k]) /\ new[k].weight = list[k].weight
      BY <1>6, <1>12, <3>1
    <3>3. \A i \in DOMAIN f.vars : f.vars[i] \in ToSet(r.vars) \cup ToSet(e.vars)
      BY <1>5, <1>6
    <3> HIDE DEF e
    <3> QED
      BY <2>1, <3>1, <3>2, <3>3
  <2>3. CASE k # n
    <3>1. new[k] = list[k]
      BY <1>8, <2>1, <2>3
    <3> QED
      BY <2>1, <3>1 DEF ToSet
  <2> QED
    BY <2>2, <2>3
<1>16. GrantKept(g, f)
  <2>1. g.ids = res.ids /\ g.request = r
    OBVIOUS
  <2>2. DOMAIN r.vars = 1 .. Len(r.vars)
    BY <1>3
  <2> HIDE DEF g
  <2> QED
    BY <1>5, <1>6, <1>10, <2>1, <2>2 DEF GrantKept
<1>17. n \in DOMAIN new /\ Len(list) <= Len(new)
  BY <1>7, <1>8, <1>9
<1> HIDE DEF added
<1> QED
  BY <1>1, <1>5, <1>8, <1>9, <1>14, <1>15, <1>16, <1>17 DEF AddSound, added

\* AddEntry chooses the first table that can be shared.
\* AddEntry either adds the request to an entry that shares its table or makes
\* it a new one.
LEMMA AddedForm ==
  ASSUME NEW list, Len(list) \in Nat, DOMAIN list = 1 .. Len(list), NEW r
  PROVE  \/ /\ Added(list, r) = AddedNew(list, r)
            /\ \A k \in DOMAIN list : ~ SharesTable(list[k], r)
         \/ \E n \in DOMAIN list : /\ Added(list, r) = AddedTo(list, n, r)
                                   /\ SharesTable(list[n], r)
<1> DEFINE sharing == {k \in DOMAIN list : SharesTable(list[k], r)}
<1>1. CASE sharing = {}
  BY <1>1 DEF Added
<1>2. CASE sharing # {}
  <2>1. DOMAIN list = 1 .. Len(list) /\ Len(list) \in Int
    OBVIOUS
  <2>2. \A m \in Int : IsFiniteSet(1 .. m)
    BY FS_Interval
  <2>3. sharing \subseteq DOMAIN list /\ DOMAIN list \subseteq Int
    OBVIOUS
  <2>4. IsFiniteSet(sharing) /\ sharing \subseteq Int
    BY <2>1, <2>2, <2>3, FS_Subset
  <2>5. Min(sharing) \in sharing
    BY <1>2, <2>4, MinSound
  <2> DEFINE n == Min(sharing)
  <2>6. Added(list, r) = AddedTo(list, n, r)
    BY <1>2 DEF Added
  <2>7. n \in DOMAIN list /\ SharesTable(list[n], r)
    BY <2>5
  <2> HIDE DEF n
  <2> QED
    BY <2>6, <2>7
<1> QED
  BY <1>1, <1>2

LEMMA AddedSound ==
  ASSUME NEW list \in Seq(Entry), NEW r \in Requests,
         \A k \in DOMAIN list : ReadsNames(list[k])
  PROVE  AddSound(list, r, Added(list, r))
<1>1. CASE Added(list, r) = AddedNew(list, r)
  BY <1>1, AddedNewSound
<1>2. ASSUME NEW n \in DOMAIN list, SharesTable(list[n], r),
             Added(list, r) = AddedTo(list, n, r)
      PROVE  AddSound(list, r, Added(list, r))
  BY <1>2, AddedToSound
<1>3. Len(list) \in Nat /\ DOMAIN list = 1 .. Len(list)
  OBVIOUS
<1> QED
  BY <1>1, <1>2, <1>3, AddedForm

(***************************************************************************)
(* The invariant                                                           *)
(***************************************************************************)
\* The types of the variables; a cut in cuts_map_ is one on its branch.
Shape ==
  /\ phase \in {"setup", "running", "rejected", "failed"}
  /\ entries \in Seq(Entry)
  /\ granted \in Seq(Grant)
  /\ ready \subseteq CutObjects
  /\ \A b \in DOMAIN cutsMap :
       cutsMap[b] \in CutObjects /\ CutBranches[cutsMap[b]] = {b}

\* Entries have only what was asked for, of the branches they read.
EntriesRequested ==
  \A k \in DOMAIN entries :
    /\ ReadsNames(entries[k])
    /\ \A i \in DOMAIN entries[k].vars : entries[k].vars[i] \in RequestedVariables
    /\ entries[k].weight \in RequestedVariables

\* Every request was granted and still is.
GrantsKept ==
  \A n \in DOMAIN granted :
    /\ granted[n].entry \in DOMAIN entries
    /\ GrantKept(granted[n], entries[granted[n].entry])

\* Before Init the tables are empty.
NothingExecuted ==
  phase = "setup" =>
    ~ executed /\ \A k \in DOMAIN entries : entries[k].rows = <<>>

\* After Init every entry is bound.
EntriesBound ==
  phase \in {"running", "failed"} =>
    \A k \in DOMAIN entries : BoundEntry(entries[k])

TablesEvaluated == \A k \in DOMAIN entries : RowsEvaluated(entries[k])

TablesRight ==
  executed => \A k \in DOMAIN entries :
                OnlySelected(entries[k]) /\ AllSelected(entries[k])

FailureExplained ==
  phase = "failed" => \E k \in DOMAIN entries : Explained(entries[k])

IInv ==
  /\ Shape
  /\ EventSound
  /\ EntriesRequested
  /\ GrantsKept
  /\ NothingExecuted
  /\ EntriesBound
  /\ TablesEvaluated
  /\ TablesRight
  /\ FailureExplained

\* What a step that leaves the operands of a part alone does to it.
LEMMA EventSoundFrame ==
  ASSUME EventSound, UNCHANGED <<index, size, matching, registered>>
  PROVE  EventSound'
BY DEF EventSound, MapsRegistered

LEMMA RequestedFrame ==
  ASSUME EntriesRequested, UNCHANGED <<entries, granted>>
  PROVE  EntriesRequested'
BY DEF EntriesRequested, RequestedVariables, ReadsNames

LEMMA GrantsFrame ==
  ASSUME GrantsKept, UNCHANGED <<entries, granted>>
  PROVE  GrantsKept'
BY DEF GrantsKept, GrantKept

LEMMA BoundFrame ==
  ASSUME EntriesBound, UNCHANGED <<phase, entries, index>>, ready \subseteq ready'
  PROVE  EntriesBound'
BY DEF EntriesBound, BoundEntry, ReadsMatch, Accepted, HasMatchInfo, GetMatchInfo

LEMMA EvaluatedFrame ==
  ASSUME TablesEvaluated, UNCHANGED entries
  PROVE  TablesEvaluated'
BY DEF TablesEvaluated, RowsEvaluated

LEMMA RightFrame ==
  ASSUME TablesRight, UNCHANGED <<executed, entries, index, size, registered>>
  PROVE  TablesRight'
<1>1. \A b, c : Matched(b, c)' = Matched(b, c)
  BY DEF Matched
<1>2. OneToOne' <=> OneToOne
  BY DEF OneToOne
<1>3. \A e : Wanted(e)' = Wanted(e)
  BY <1>1 DEF Wanted
<1> QED
  BY <1>2, <1>3 DEF TablesRight, OnlySelected, AllSelected

LEMMA InitInvariant == Init => IInv
<1> SUFFICES ASSUME Init PROVE IInv
  OBVIOUS
<1>1. /\ entries = <<>> /\ granted = <<>> /\ cutsMap = <<>>
      /\ DOMAIN entries = {} /\ DOMAIN granted = {} /\ DOMAIN cutsMap = {}
  BY DEF Init
<1>2. Shape
  <2>1. entries \in Seq(Entry)
    BY <1>1
  <2>2. granted \in Seq(Grant)
    BY <1>1
  <2> QED
    BY <1>1, <2>1, <2>2 DEF Init, Shape
<1>3. EventSound
  <2>1. MapsRegistered(NoMatches, {})
    <3>1. NoMatches.direct = <<>> /\ NoMatches.inverted = <<>> /\ DOMAIN <<>> = {}
      BY DEF NoMatches
    <3> QED
      BY <3>1 DEF MapsRegistered
  <2> QED
    BY <2>1 DEF Init, EventSound
<1> QED
  BY <1>1, <1>2, <1>3
  DEF Init, IInv, EntriesRequested, GrantsKept, NothingExecuted, EntriesBound,
      TablesEvaluated, TablesRight, FailureExplained

LEMMA AddEntryInvariant ==
  ASSUME IInv, NEW r \in Requests, AddEntry(r)
  PROVE  IInv'
<1> DEFINE added == Added(entries, r)
           g == [request |-> r, entry |-> added.entry, ids |-> added.ids]
<1>1. /\ Shape /\ EventSound /\ EntriesRequested /\ GrantsKept
      /\ NothingExecuted
  BY DEF IInv
<1>2. /\ phase = "setup" /\ entries' = added.entries /\ granted' = Append(granted, g)
      /\ UNCHANGED <<phase, index, cutsMap, ready, size, matching, registered, executed>>
  BY DEF AddEntry, event
<1>3. entries \in Seq(Entry) /\ granted \in Seq(Grant)
  BY <1>1 DEF Shape
<1>4. AddSound(entries, r, added)
  <2>1. \A k \in DOMAIN entries : ReadsNames(entries[k])
    BY <1>1 DEF EntriesRequested
  <2> QED
    BY <1>3, <2>1, AddedSound
<1> HIDE DEF added
<1>5. /\ entries' \in Seq(Entry) /\ Len(entries) <= Len(entries')
      /\ \A k \in 1 .. Len(entries) : Extends(entries'[k], entries[k])
      /\ \A k \in DOMAIN entries' :
           /\ ReadsNames(entries'[k])
           /\ k > Len(entries) => entries'[k].rows = <<>>
           /\ \A i \in DOMAIN entries'[k].vars :
                \/ entries'[k].vars[i] \in ToSet(r.vars)
                \/ /\ k <= Len(entries)
                   /\ entries'[k].vars[i] \in ToSet(entries[k].vars)
           /\ \/ entries'[k].weight = WeightOf(r)
              \/ k <= Len(entries) /\ entries'[k].weight = entries[k].weight
      /\ added.entry \in DOMAIN entries' /\ added.ids \in Seq(Nat)
      /\ GrantKept(g, entries'[added.entry])
  BY <1>2, <1>4 DEF AddSound
<1>6. g \in Grant /\ g.request = r /\ g.entry = added.entry /\ g.ids = added.ids
  <2>1. added.entry \in Nat
    BY <1>5
  <2> QED
    BY <1>5, <2>1 DEF Grant
<1> HIDE DEF g
<1>7. /\ granted' \in Seq(Grant) /\ Len(granted') = Len(granted) + 1
      /\ \A n \in 1 .. Len(granted) : granted'[n] = granted[n]
      /\ granted'[Len(granted) + 1] = g
      /\ Len(granted) \in Nat
  BY <1>2, <1>3, <1>6
<1>8. /\ DOMAIN entries = 1 .. Len(entries) /\ Len(entries) \in Nat
      /\ DOMAIN entries' = 1 .. Len(entries') /\ Len(entries') \in Nat
      /\ DOMAIN granted = 1 .. Len(granted)
      /\ DOMAIN granted' = 1 .. Len(granted) + 1
  BY <1>3, <1>5, <1>7
<1>9. Shape'
  BY <1>1, <1>2, <1>5, <1>7 DEF Shape
<1>10. EventSound'
  BY <1>1, <1>2, EventSoundFrame
<1>11. EntriesRequested'
  <2>1. RequestedVariables \subseteq RequestedVariables'
    <3> SUFFICES ASSUME NEW n \in DOMAIN granted
                 PROVE  n \in DOMAIN granted' /\ granted'[n] = granted[n]
      BY DEF RequestedVariables
    <3> QED
      BY <1>7, <1>8
  <2>2. ToSet(r.vars) \cup {WeightOf(r)} \subseteq RequestedVariables'
    <3>1. Len(granted) + 1 \in DOMAIN granted' /\ granted'[Len(granted) + 1].request = r
      BY <1>6, <1>7, <1>8
    <3> QED
      BY <3>1 DEF RequestedVariables
  <2>3. \A k \in DOMAIN entries :
          /\ \A v \in ToSet(entries[k].vars) : v \in RequestedVariables
          /\ entries[k].weight \in RequestedVariables
    BY <1>1 DEF EntriesRequested, ToSet
  <2>4. ASSUME NEW k \in DOMAIN entries'
        PROVE  /\ \A i \in DOMAIN entries'[k].vars :
                    entries'[k].vars[i] \in RequestedVariables'
               /\ entries'[k].weight \in RequestedVariables'
    <3>1. k <= Len(entries) => k \in DOMAIN entries
      BY <1>8
    <3> QED
      BY <1>5, <2>1, <2>2, <2>3, <3>1
  <2>5. \A k \in DOMAIN entries' : ReadsNames(entries[k])'
    BY <1>5 DEF ReadsNames
  <2> QED
    BY <2>4, <2>5 DEF EntriesRequested
<1>12. GrantsKept'
  <2> SUFFICES ASSUME NEW n \in DOMAIN granted'
               PROVE  /\ granted'[n].entry \in DOMAIN entries'
                      /\ GrantKept(granted'[n], entries'[granted'[n].entry])
    BY DEF GrantsKept, GrantKept
  <2>1. CASE n = Len(granted) + 1
    BY <1>5, <1>6, <1>7, <2>1
  <2>2. CASE n # Len(granted) + 1
    <3>1. n \in DOMAIN granted /\ granted'[n] = granted[n]
      BY <1>7, <1>8, <2>2
    <3> DEFINE h == granted[n]
               k == h.entry
               e == entries[k]
               f == entries'[k]
    <3>2. k \in DOMAIN entries /\ GrantKept(h, e)
      BY <1>1, <3>1 DEF GrantsKept
    <3>3. k \in 1 .. Len(entries) /\ k \in DOMAIN entries'
      BY <1>5, <1>8, <3>2
    <3>4. Extends(f, e) /\ e \in Entry /\ f \in Entry
      BY <1>3, <1>5, <1>8, <3>3
    <3>5. h \in Grant
      BY <1>3, <3>1
    <3> HIDE DEF e, f, k, h
    <3>6. /\ f.cut = e.cut /\ f.weight = e.weight
          /\ Len(e.vars) <= Len(f.vars)
          /\ \A i \in 1 .. Len(e.vars) : f.vars[i] = e.vars[i]
          /\ Len(e.vars) \in Nat /\ Len(f.vars) \in Nat
      BY <3>4 DEF Extends, Entry
    <3>7. ASSUME NEW i \in DOMAIN h.request.vars
          PROVE  /\ h.ids[i] \in 0 .. Len(f.vars) - 1
                 /\ SameVariable(f.vars[h.ids[i] + 1], h.request.vars[i])
      <4>1. /\ h.ids[i] \in 0 .. Len(e.vars) - 1
            /\ SameVariable(e.vars[h.ids[i] + 1], h.request.vars[i])
        BY <3>2 DEF GrantKept
      <4>2. h.ids[i] + 1 \in 1 .. Len(e.vars) /\ h.ids[i] \in 0 .. Len(f.vars) - 1
        BY <3>6, <4>1
      <4> QED
        BY <3>6, <4>1, <4>2
    <3>8. GrantKept(h, f)
      BY <3>2, <3>6, <3>7 DEF GrantKept
    <3> QED
      BY <3>1, <3>3, <3>8 DEF h, k, f
  <2> QED
    BY <2>1, <2>2
<1>13. \A k \in DOMAIN entries' : entries'[k].rows = <<>>
  <2> SUFFICES ASSUME NEW k \in DOMAIN entries'
               PROVE  entries'[k].rows = <<>>
    OBVIOUS
  <2>1. CASE k > Len(entries)
    BY <1>5, <2>1
  <2>2. CASE ~(k > Len(entries))
    <3>1. k \in 1 .. Len(entries) /\ k \in DOMAIN entries
      BY <1>8, <2>2
    <3>2. entries[k].rows = <<>>
      BY <1>1, <1>2, <3>1 DEF NothingExecuted
    <3>3. entries'[k] = [entries[k] EXCEPT !.vars = entries'[k].vars]
      BY <1>5, <3>1 DEF Extends
    <3>4. entries[k] \in Entry
      BY <1>3, <3>1
    <3> DEFINE e == entries[k]
               vs == entries'[k].vars
               f == entries'[k]
    <3>5. f = [e EXCEPT !.vars = vs] /\ e \in Entry /\ e.rows = <<>>
      BY <3>2, <3>3, <3>4
    <3> HIDE DEF e, f, vs
    <3>6. f.rows = <<>>
      BY <3>5 DEF Entry
    <3> QED
      BY <3>6 DEF f
  <2> QED
    BY <2>1, <2>2
<1>14. NothingExecuted'
  BY <1>1, <1>2, <1>13 DEF NothingExecuted
<1>15. TablesEvaluated'
  <2>1. DOMAIN <<>> = {}
    OBVIOUS
  <2> QED
    BY <1>13, <2>1 DEF TablesEvaluated, RowsEvaluated
<1>16. ~ executed' /\ phase' = "setup"
  BY <1>1, <1>2 DEF NothingExecuted
<1> QED
  BY <1>9, <1>10, <1>11, <1>12, <1>14, <1>15, <1>16
  DEF IInv, EntriesBound, TablesRight, FailureExplained

LEMMA AddBranchCutInvariant ==
  ASSUME IInv, NEW c \in CutObjects, AddBranchCut(c)
  PROVE  IInv'
<1>1. /\ Shape /\ EventSound /\ EntriesRequested /\ GrantsKept
      /\ NothingExecuted /\ EntriesBound /\ TablesEvaluated /\ TablesRight
      /\ FailureExplained
  BY DEF IInv
<1>2. UNCHANGED <<phase, index, entries, granted, ready, size, matching,
                  registered, executed>>
  BY DEF AddBranchCut, event
<1>3. PICK b \in Branches :
        /\ CutBranches[c] = {b}
        /\ cutsMap' = [x \in DOMAIN cutsMap \cup {b} |->
                         IF x = b THEN c ELSE cutsMap[x]]
  BY DEF AddBranchCut
<1>4. Shape'
  <2>1. \A x \in DOMAIN cutsMap' :
          cutsMap'[x] \in CutObjects /\ CutBranches[cutsMap'[x]] = {x}
    BY <1>1, <1>3 DEF Shape
  <2> QED
    BY <1>1, <1>2, <2>1 DEF Shape
<1>5. EventSound' /\ EntriesRequested' /\ GrantsKept' /\ TablesEvaluated' /\ TablesRight'
  BY <1>1, <1>2, EventSoundFrame, RequestedFrame, GrantsFrame, EvaluatedFrame, RightFrame
<1>6. EntriesBound'
  BY <1>1, <1>2, BoundFrame
<1>7. NothingExecuted' /\ FailureExplained'
  BY <1>1, <1>2 DEF NothingExecuted, FailureExplained, Explained
<1> QED
  BY <1>4, <1>5, <1>6, <1>7 DEF IInv

\* The entry's Init.
LEMMA BoundSound ==
  ASSUME Shape, EventSound, NEW e \in Entry, Accepted(e)
  PROVE  /\ Bound(e) \in Entry
         /\ \E m \in Pairs, i \in BOOLEAN :
              Bound(e) = [e EXCEPT !.cuts = Bound(e).cuts, !.match = m, !.inverted = i]
         /\ Bound(e).cuts \in [e.names -> Cuts]
         /\ \A b \in e.names :
              Bound(e).cuts[b] \in CutObjects => CutBranches[Bound(e).cuts[b]] = {b}
         /\ LET free == WithChannels(e.names)
            IN Len(free) = 2 =>
                 /\ Bound(e).match = GetMatchInfo(free[1], free[2]).pair
                 /\ Bound(e).inverted = GetMatchInfo(free[1], free[2]).inverted
<1> DEFINE free == WithChannels(e.names)
           cs == [b \in e.names |-> IF b \in DOMAIN cutsMap THEN cutsMap[b] ELSE NoCut]
           own == [e EXCEPT !.cuts = cs]
           info == GetMatchInfo(free[1], free[2])
           f == Bound(e)
<1>1. f = IF Len(free) # 2 THEN own
          ELSE [own EXCEPT !.match = info.pair, !.inverted = info.inverted]
  BY DEF Bound
<1>2. cs \in [e.names -> Cuts]
  BY DEF Shape, Cuts
<1>3. \A b \in e.names : cs[b] \in CutObjects => CutBranches[cs[b]] = {b}
  BY AnalysisTaskAssumption DEF Shape
<1>4. cs \in CutTables
  <2>1. e.names \in SUBSET Branches
    BY DEF Entry
  <2> HIDE DEF cs
  <2> QED
    BY <1>2, <2>1 DEF CutTables
<1>5. Len(free) = 2 => info.pair \in Pairs /\ info.inverted \in BOOLEAN
  <2> SUFFICES ASSUME Len(free) = 2
               PROVE  info.pair \in Pairs /\ info.inverted \in BOOLEAN
    OBVIOUS
  <2>1. free \in Seq(ChannelBranches)
    BY WithChannelsSound DEF Entry
  <2>2. free[1] \in ChannelBranches /\ free[2] \in ChannelBranches
    BY <2>1
  <2> HIDE DEF free
  <2>3. TRUE \in BOOLEAN /\ FALSE \in BOOLEAN
    OBVIOUS
  <2> QED
    BY <2>2, <2>3 DEF GetMatchInfo, Pairs
<1> HIDE DEF cs, info, free
<1>6. own \in Entry /\ own.cuts = cs
  BY <1>4 DEF Entry
<1>7. CASE Len(free) # 2
  <2>1. f = own
    BY <1>1, <1>7
  <2>2. own = [e EXCEPT !.cuts = cs, !.match = e.match, !.inverted = e.inverted]
    BY DEF Entry
  <2>3. e.match \in Pairs /\ e.inverted \in BOOLEAN
    BY DEF Entry
  <2> HIDE DEF own, f
  <2>4. f = [e EXCEPT !.cuts = f.cuts, !.match = e.match, !.inverted = e.inverted]
    BY <1>6, <2>1, <2>2
  <2>5. f \in Entry /\ f.cuts = cs
    BY <1>6, <2>1
  <2> QED
    BY <1>2, <1>3, <1>7, <2>3, <2>4, <2>5 DEF f, free
<1>8. CASE Len(free) = 2
  <2>1. f = [own EXCEPT !.match = info.pair, !.inverted = info.inverted]
    BY <1>1, <1>8
  <2>2. [own EXCEPT !.match = info.pair, !.inverted = info.inverted]
          = [e EXCEPT !.cuts = cs, !.match = info.pair, !.inverted = info.inverted]
    BY <1>6 DEF Entry
  <2>3. info.pair \in Pairs /\ info.inverted \in BOOLEAN
    BY <1>5, <1>8
  <2> HIDE DEF own, f
  <2>4. f \in Entry /\ f.cuts = cs /\ f.match = info.pair /\ f.inverted = info.inverted
    BY <1>6, <2>1, <2>3 DEF Entry
  <2>5. f = [e EXCEPT !.cuts = f.cuts, !.match = info.pair, !.inverted = info.inverted]
    BY <2>1, <2>2, <2>4
  <2> QED
    BY <1>2, <1>3, <2>3, <2>4, <2>5 DEF f, free, info
<1> QED
  BY <1>7, <1>8

LEMMA InitTaskInvariant ==
  ASSUME IInv, InitTask
  PROVE  IInv'
<1>1. /\ Shape /\ EventSound /\ EntriesRequested /\ GrantsKept
      /\ NothingExecuted /\ TablesEvaluated
  BY DEF IInv
<1>2. /\ phase = "setup"
      /\ UNCHANGED <<index, granted, cutsMap, size, matching, registered, executed>>
  BY DEF InitTask, event
<1>3. ~ executed /\ ~ executed' /\ \A k \in DOMAIN entries : entries[k].rows = <<>>
  BY <1>1, <1>2 DEF NothingExecuted
<1>4. EventSound'
  BY <1>1, <1>2, EventSoundFrame
<1>5. CASE \A k \in DOMAIN entries : Accepted(entries[k])
  <2>1. /\ phase' = "running"
        /\ entries' = [k \in DOMAIN entries |-> Bound(entries[k])]
        /\ ready' = ready \cup CutsOfEntries(entries)
    BY <1>5 DEF InitTask
  <2>2. /\ entries \in Seq(Entry) /\ DOMAIN entries' = DOMAIN entries
        /\ DOMAIN entries = 1 .. Len(entries) /\ Len(entries) \in Nat
        /\ \A k \in DOMAIN entries : entries[k] \in Entry /\ entries'[k] = Bound(entries[k])
    BY <1>1, <2>1 DEF Shape
  <2>3. ASSUME NEW k \in DOMAIN entries
        PROVE  LET e == entries[k]
                   f == entries'[k]
                   free == WithChannels(e.names)
               IN /\ f \in Entry
                  /\ f.names = e.names /\ f.vars = e.vars /\ f.weight = e.weight
                  /\ f.cut = e.cut /\ f.rows = e.rows
                  /\ f.cuts \in [e.names -> Cuts]
                  /\ \A b \in e.names :
                       f.cuts[b] \in CutObjects => CutBranches[f.cuts[b]] = {b}
                  /\ Len(free) = 2 =>
                       /\ f.match = GetMatchInfo(free[1], free[2]).pair
                       /\ f.inverted = GetMatchInfo(free[1], free[2]).inverted
    <3> DEFINE e == entries[k]
               f == entries'[k]
               free == WithChannels(e.names)
    <3>1. e \in Entry /\ Accepted(e) /\ f = Bound(e)
      BY <1>5, <2>2
    <3> HIDE DEF e
    <3>2. /\ Bound(e) \in Entry
          /\ Bound(e).cuts \in [e.names -> Cuts]
          /\ \A b \in e.names :
               Bound(e).cuts[b] \in CutObjects => CutBranches[Bound(e).cuts[b]] = {b}
          /\ Len(free) = 2 =>
               /\ Bound(e).match = GetMatchInfo(free[1], free[2]).pair
               /\ Bound(e).inverted = GetMatchInfo(free[1], free[2]).inverted
      BY <1>1, <3>1, BoundSound
    <3>3. PICK m \in Pairs, i \in BOOLEAN :
            Bound(e) = [e EXCEPT !.cuts = Bound(e).cuts, !.match = m, !.inverted = i]
      BY <1>1, <3>1, BoundSound
    <3> DEFINE h == Bound(e)
               cs == h.cuts
    <3>4. h = [e EXCEPT !.cuts = cs, !.match = m, !.inverted = i]
      BY <3>3
    <3> HIDE DEF h, cs
    <3>5. /\ h.names = e.names /\ h.vars = e.vars /\ h.weight = e.weight
          /\ h.cut = e.cut /\ h.rows = e.rows
      BY <3>1, <3>4 DEF Entry
    <3> HIDE DEF f
    <3>6. h = f
      BY <3>1 DEF h
    <3> QED
      BY <3>2, <3>5, <3>6 DEF e, f, h
  <2>4. Shape'
    <3>1. entries' \in Seq(Entry)
      <4>1. \A k \in 1 .. Len(entries) : entries'[k] \in Entry
        BY <2>2, <2>3
      <4>2. entries' = [k \in 1 .. Len(entries) |-> entries'[k]]
        BY <2>1, <2>2
      <4> QED
        BY <2>2, <4>1, <4>2
    <3>2. CutsOfEntries(entries) \subseteq CutObjects
      <4>1. \A k \in DOMAIN entries : entries[k].cut \in Cuts
        BY <2>2 DEF Entry
      <4> QED
        BY <4>1 DEF CutsOfEntries, Cuts, ToSet
    <3> QED
      BY <1>1, <1>2, <2>1, <3>1, <3>2 DEF Shape
  <2>5. EntriesRequested'
    BY <1>1, <1>2, <2>2, <2>3 DEF EntriesRequested, RequestedVariables, ReadsNames
  <2>6. GrantsKept'
    BY <1>1, <1>2, <2>2, <2>3 DEF GrantsKept, GrantKept
  <2>7. EntriesBound'
    <3> SUFFICES ASSUME NEW k \in DOMAIN entries
                 PROVE  BoundEntry(entries[k])'
      BY <2>2 DEF EntriesBound
    <3>1. entries[k].cut \in ready' \cup {NoCut}
      BY <2>1 DEF CutsOfEntries, ToSet
    <3>2. Accepted(entries[k])
      BY <1>5
    <3>3. Accepted(entries[k])'
      BY <1>2, <2>3, <3>2 DEF Accepted, HasMatchInfo
    <3>4. /\ entries'[k].cuts \in [entries'[k].names -> Cuts]
          /\ \A b \in entries'[k].names :
               entries'[k].cuts[b] \in CutObjects => CutBranches[entries'[k].cuts[b]] = {b}
          /\ entries'[k].cut \in ready' \cup {NoCut}
      BY <2>3, <3>1
    <3> DEFINE free == WithChannels(entries[k].names)
    <3>5. /\ entries'[k].names = entries[k].names
          /\ Len(free) = 2 =>
               /\ entries'[k].match = GetMatchInfo(free[1], free[2]).pair
               /\ entries'[k].inverted = GetMatchInfo(free[1], free[2]).inverted
      BY <2>3
    <3>6. WithChannels(entries'[k].names) = free
      BY <3>5
    <3> HIDE DEF free
    <3>7. ReadsMatch(entries[k], WithChannels(entries[k].names))'
      BY <1>2, <3>5, <3>6 DEF ReadsMatch, GetMatchInfo
    <3> QED
      BY <3>3, <3>4, <3>7 DEF BoundEntry
  <2>8. TablesEvaluated'
    <3>1. DOMAIN <<>> = {} /\ \A k \in DOMAIN entries : entries'[k].rows = <<>>
      BY <1>3, <2>3
    <3> QED
      BY <2>2, <3>1 DEF TablesEvaluated, RowsEvaluated
  <2> QED
    BY <1>3, <1>4, <2>1, <2>4, <2>5, <2>6, <2>7, <2>8
    DEF IInv, NothingExecuted, TablesRight, FailureExplained
<1>6. CASE ~ \A k \in DOMAIN entries : Accepted(entries[k])
  <2>1. phase' = "rejected" /\ UNCHANGED <<entries, ready>>
    BY <1>6 DEF InitTask
  <2>2. Shape'
    BY <1>1, <1>2, <2>1 DEF Shape
  <2>3. EntriesRequested' /\ GrantsKept' /\ TablesEvaluated'
    BY <1>1, <1>2, <2>1, RequestedFrame, GrantsFrame, EvaluatedFrame
  <2> QED
    BY <1>3, <1>4, <2>1, <2>2, <2>3
    DEF IInv, NothingExecuted, EntriesBound, TablesRight, FailureExplained
<1> QED
  BY <1>5, <1>6

LEMMA InitBranchCutsInvariant ==
  ASSUME IInv, InitBranchCuts
  PROVE  IInv'
<1>1. /\ Shape /\ EventSound /\ EntriesRequested /\ GrantsKept
      /\ EntriesBound /\ TablesEvaluated /\ TablesRight
  BY DEF IInv
<1>2. /\ phase = "running" /\ phase' = "running" /\ ready' = ready \cup BranchCuts
      /\ UNCHANGED <<phase, index, entries, granted, cutsMap, size, matching,
                     registered, executed>>
  BY DEF InitBranchCuts, event
<1>3. Shape'
  <2>1. BranchCuts \subseteq CutObjects
    BY <1>1 DEF BranchCuts, Shape
  <2> QED
    BY <1>1, <1>2, <2>1 DEF Shape
<1>4. EventSound' /\ EntriesRequested' /\ GrantsKept' /\ TablesEvaluated' /\ TablesRight'
  BY <1>1, <1>2, EventSoundFrame, RequestedFrame, GrantsFrame, EvaluatedFrame, RightFrame
<1>5. EntriesBound'
  BY <1>1, <1>2, BoundFrame
<1> QED
  BY <1>2, <1>3, <1>4, <1>5 DEF IInv, NothingExecuted, FailureExplained

\* An event that was just read has no matches.
LEMMA NextEventSound ==
  ASSUME EventSound, NEW sizes \in EventSizes, NextEvent(sizes)
  PROVE  EventSound'
<1>1. /\ size' = sizes /\ UNCHANGED index
      /\ matching' = [p \in index |-> NoMatches]
      /\ registered' = [p \in index |-> {}]
  BY DEF NextEvent
<1>2. sizes \in [ChannelBranches -> Nat]
  BY AnalysisTaskAssumption
<1>3. MapsRegistered(NoMatches, {})
  <2>1. NoMatches.direct = <<>> /\ NoMatches.inverted = <<>> /\ DOMAIN <<>> = {}
    BY DEF NoMatches
  <2> QED
    BY <2>1 DEF MapsRegistered
<1>4. \A p \in index : matching'[p] = NoMatches /\ registered'[p] = {}
  BY <1>1
<1> QED
  BY <1>1, <1>2, <1>3, <1>4 DEF EventSound, MapsRegistered

LEMMA NextEventInvariant ==
  ASSUME IInv, NEW sizes \in EventSizes, NextEvent(sizes)
  PROVE  IInv'
<1>1. /\ Shape /\ EventSound /\ EntriesRequested /\ GrantsKept
      /\ EntriesBound /\ TablesEvaluated
  BY DEF IInv
<1>2. /\ phase = "running" /\ executed' = FALSE
      /\ UNCHANGED <<phase, index, entries, granted, cutsMap, ready>>
  BY DEF NextEvent
<1>3. EventSound'
  BY <1>1, NextEventSound
<1>4. Shape'
  BY <1>1, <1>2 DEF Shape
<1>5. EntriesRequested' /\ GrantsKept' /\ TablesEvaluated'
  BY <1>1, <1>2, RequestedFrame, GrantsFrame, EvaluatedFrame
<1>6. EntriesBound'
  BY <1>1, <1>2, BoundFrame
<1> QED
  BY <1>2, <1>3, <1>4, <1>5, <1>6
  DEF IInv, NothingExecuted, TablesRight, FailureExplained

\* AddMatch keeps the first partner of a channel in each map.
LEMMA AddMatchSound ==
  ASSUME NEW m, NEW pairs, MapsRegistered(m, pairs), NEW i, NEW j
  PROVE  MapsRegistered(AddMatch(m, i, j), pairs \cup {<<i, j>>})
<1> DEFINE n == AddMatch(m, i, j)
           D == Insert(m.direct, i, j)
           V == Insert(m.inverted, j, i)
<1>1. n.direct = D /\ n.inverted = V
  BY DEF AddMatch
<1>2. /\ DOMAIN D = DOMAIN m.direct \cup {i}
      /\ \A k \in DOMAIN D : D[k] = IF k \in DOMAIN m.direct THEN m.direct[k] ELSE j
  BY DEF Insert
<1>3. /\ DOMAIN V = DOMAIN m.inverted \cup {j}
      /\ \A k \in DOMAIN V : V[k] = IF k \in DOMAIN m.inverted THEN m.inverted[k] ELSE i
  BY DEF Insert
<1> HIDE DEF n, D, V
<1>4. \A k \in DOMAIN n.direct : <<k, n.direct[k]>> \in pairs \cup {<<i, j>>}
  BY <1>1, <1>2 DEF MapsRegistered
<1>5. \A k \in DOMAIN n.inverted : <<n.inverted[k], k>> \in pairs \cup {<<i, j>>}
  BY <1>1, <1>3 DEF MapsRegistered
<1>6. ASSUME NEW ij \in pairs \cup {<<i, j>>}
      PROVE  ij[1] \in DOMAIN n.direct /\ ij[2] \in DOMAIN n.inverted
  BY <1>1, <1>2, <1>3 DEF MapsRegistered
<1>7. MapsRegistered(n, pairs \cup {<<i, j>>})
  BY <1>4, <1>5, <1>6 DEF MapsRegistered
<1> QED
  BY <1>7 DEF n

LEMMA RegisterMatchInvariant ==
  ASSUME IInv, NEW p \in index,
         NEW i \in UNION {0 .. size[b] - 1 : b \in ChannelBranches},
         NEW j \in UNION {0 .. size[b] - 1 : b \in ChannelBranches},
         RegisterMatch(p, i, j)
  PROVE  IInv'
<1>1. /\ Shape /\ EventSound /\ EntriesRequested /\ GrantsKept
      /\ NothingExecuted /\ EntriesBound /\ TablesEvaluated
  BY DEF IInv
<1>2. /\ phase = "running" /\ ~ executed
      /\ i < size[p[1]] /\ j < size[p[2]]
      /\ matching' = [matching EXCEPT ![p] = AddMatch(matching[p], i, j)]
      /\ registered' = [registered EXCEPT ![p] = registered[p] \cup {<<i, j>>}]
      /\ UNCHANGED <<phase, index, entries, granted, cutsMap, ready, size, executed>>
  BY DEF RegisterMatch
<1>3. i \in Nat /\ j \in Nat
  BY <1>1 DEF EventSound
<1>4. EventSound'
  <2> DEFINE Pair(q) ==
        /\ registered'[q] \subseteq (0 .. size[q[1]] - 1) \X (0 .. size[q[2]] - 1)
        /\ MapsRegistered(matching'[q], registered'[q])
  <2>1. DOMAIN matching = index /\ DOMAIN registered = index
    BY <1>1 DEF EventSound
  <2>2. DOMAIN matching' = index /\ DOMAIN registered' = index
    BY <1>2, <2>1
  <2>3. /\ registered[p] \subseteq (0 .. size[p[1]] - 1) \X (0 .. size[p[2]] - 1)
        /\ MapsRegistered(matching[p], registered[p])
    BY <1>1 DEF EventSound
  <2>4. /\ matching'[p] = AddMatch(matching[p], i, j)
        /\ registered'[p] = registered[p] \cup {<<i, j>>}
    BY <1>2, <2>1
  <2>5. Pair(p)
    <3>1. p[1] \in ChannelBranches /\ p[2] \in ChannelBranches
      BY <1>1, AnalysisTaskAssumption DEF EventSound
    <3>2. size[p[1]] \in Nat /\ size[p[2]] \in Nat
      BY <1>1, <3>1 DEF EventSound
    <3>3. i \in 0 .. size[p[1]] - 1 /\ j \in 0 .. size[p[2]] - 1
      BY <1>2, <1>3, <3>2
    <3>4. MapsRegistered(AddMatch(matching[p], i, j), registered[p] \cup {<<i, j>>})
      BY <2>3, AddMatchSound
    <3> QED
      BY <2>3, <2>4, <3>3, <3>4
  <2>6. ASSUME NEW q \in index, q # p
        PROVE  Pair(q)
    <3>1. matching'[q] = matching[q] /\ registered'[q] = registered[q]
      BY <1>2, <2>1, <2>6
    <3> QED
      BY <1>1, <2>6, <3>1 DEF EventSound
  <2>7. \A q \in index : Pair(q)
    BY <2>5, <2>6
  <2> QED
    BY <1>1, <1>2, <2>2, <2>7 DEF EventSound, MapsRegistered
<1>5. Shape'
  BY <1>1, <1>2 DEF Shape
<1>6. EntriesRequested' /\ GrantsKept' /\ TablesEvaluated'
  BY <1>1, <1>2, RequestedFrame, GrantsFrame, EvaluatedFrame
<1>7. EntriesBound'
  BY <1>1, <1>2, BoundFrame
<1> QED
  BY <1>1, <1>2, <1>4, <1>5, <1>6, <1>7
  DEF IInv, NothingExecuted, TablesRight, FailureExplained

LEMMA ExecInvariant ==
  ASSUME IInv, Exec
  PROVE  IInv'
<1>1. /\ Shape /\ EventSound /\ EntriesRequested /\ GrantsKept
      /\ EntriesBound /\ TablesEvaluated
  BY DEF IInv
<1>2. /\ phase = "running" /\ ~ executed
      /\ UNCHANGED <<index, granted, cutsMap, ready, size, matching, registered>>
  BY DEF Exec, event
<1>3. EventSound'
  BY <1>1, <1>2, EventSoundFrame
<1>4. /\ entries \in Seq(Entry) /\ DOMAIN entries = 1 .. Len(entries)
      /\ Len(entries) \in Nat /\ \A k \in DOMAIN entries : entries[k] \in Entry
  BY <1>1 DEF Shape
<1>5. \A k \in DOMAIN entries : BoundEntry(entries[k]) /\ ReadsNames(entries[k])
  BY <1>1, <1>2 DEF EntriesBound, EntriesRequested
<1>6. CASE \E k \in DOMAIN entries : Throws(entries[k])
  <2>1. phase' = "failed" /\ UNCHANGED <<entries, executed>>
    BY <1>6 DEF Exec
  <2>2. PICK k \in DOMAIN entries : Throws(entries[k])
    BY <1>6
  <2>3. Explained(entries[k])
    BY <1>1, <1>4, <1>5, <2>2, ThrowsExplained
  <2>4. FailureExplained'
    BY <1>2, <2>1, <2>3 DEF FailureExplained, Explained
  <2>5. Shape'
    BY <1>1, <1>2, <2>1 DEF Shape
  <2>6. EntriesRequested' /\ GrantsKept' /\ TablesEvaluated'
    BY <1>1, <1>2, <2>1, RequestedFrame, GrantsFrame, EvaluatedFrame
  <2>7. EntriesBound'
    <3>1. \A l \in DOMAIN entries : BoundEntry(entries[l])'
      BY <1>2, <1>5, <2>1
      DEF BoundEntry, ReadsMatch, Accepted, HasMatchInfo, GetMatchInfo
    <3> QED
      BY <2>1, <3>1 DEF EntriesBound
  <2> QED
    BY <1>2, <1>3, <2>1, <2>4, <2>5, <2>6, <2>7 DEF IInv, NothingExecuted, TablesRight
<1>7. CASE \A k \in DOMAIN entries : ~ Throws(entries[k])
  <2>1. /\ entries' = [k \in DOMAIN entries |-> Filled(entries[k])]
        /\ executed' = TRUE /\ phase' = phase
    BY <1>7 DEF Exec
  <2>2. /\ DOMAIN entries' = DOMAIN entries
        /\ \A k \in DOMAIN entries : entries'[k] = Filled(entries[k])
    BY <2>1
  <2>3. ASSUME NEW k \in DOMAIN entries
        PROVE  /\ entries'[k] \in Entry
               /\ entries'[k] = [entries[k] EXCEPT !.rows = entries'[k].rows]
               /\ RowsEvaluated(entries'[k])
               /\ OnlySelected(entries'[k])
               /\ AllSelected(entries'[k])
    <3>1. entries[k] \in Entry /\ BoundEntry(entries[k]) /\ ~ Throws(entries[k])
      BY <1>4, <1>5, <1>7
    <3> DEFINE e == entries[k]
               f == entries'[k]
    <3>2. f = Filled(e) /\ e \in Entry /\ BoundEntry(e) /\ ~ Throws(e)
      BY <2>2, <3>1
    <3> HIDE DEF e, f
    <3>3. /\ Filled(e) \in Entry
          /\ Filled(e) = [e EXCEPT !.rows = Filled(e).rows]
          /\ RowsEvaluated(Filled(e))
          /\ OnlySelected(Filled(e))
          /\ AllSelected(Filled(e))
      BY <1>1, <3>2, FilledSound
    <3>4. /\ f \in Entry /\ f = [e EXCEPT !.rows = f.rows]
          /\ RowsEvaluated(f) /\ OnlySelected(f) /\ AllSelected(f)
      BY <3>2, <3>3
    <3> QED
      BY <3>4 DEF e, f
  <2>4. ASSUME NEW k \in DOMAIN entries
        PROVE  /\ entries'[k].names = entries[k].names
               /\ entries'[k].vars = entries[k].vars
               /\ entries'[k].weight = entries[k].weight
               /\ entries'[k].cut = entries[k].cut
               /\ entries'[k].cuts = entries[k].cuts
               /\ entries'[k].match = entries[k].match
               /\ entries'[k].inverted = entries[k].inverted
    <3> DEFINE e == entries[k]
               f == entries'[k]
               rs == f.rows
    <3>1. e \in Entry /\ f = [e EXCEPT !.rows = rs]
      BY <1>4, <2>3
    <3> HIDE DEF e, f, rs
    <3>2. /\ f.names = e.names /\ f.vars = e.vars /\ f.weight = e.weight
          /\ f.cut = e.cut /\ f.cuts = e.cuts /\ f.match = e.match
          /\ f.inverted = e.inverted
      BY <3>1 DEF Entry
    <3> QED
      BY <3>2 DEF e, f
  <2>5. Shape'
    <3>1. entries' \in Seq(Entry)
      <4>1. \A k \in 1 .. Len(entries) : entries'[k] \in Entry
        BY <1>4, <2>3
      <4>2. entries' = [k \in 1 .. Len(entries) |-> entries'[k]]
        BY <1>4, <2>1
      <4> QED
        BY <1>4, <4>1, <4>2
    <3> QED
      BY <1>1, <1>2, <2>1, <3>1 DEF Shape
  <2>6. EntriesRequested'
    BY <1>1, <1>2, <2>2, <2>4 DEF EntriesRequested, RequestedVariables, ReadsNames
  <2>7. GrantsKept'
    BY <1>1, <1>2, <2>2, <2>4 DEF GrantsKept, GrantKept
  <2>8. EntriesBound'
    <3> SUFFICES ASSUME NEW k \in DOMAIN entries
                 PROVE  BoundEntry(entries[k])'
      BY <2>2 DEF EntriesBound
    <3>1. BoundEntry(entries[k])
      BY <1>5
    <3>2. Accepted(entries[k])'
      BY <1>2, <2>4, <3>1 DEF BoundEntry, Accepted, HasMatchInfo
    <3>3. ReadsMatch(entries[k], WithChannels(entries[k].names))'
      BY <1>2, <2>4, <3>1 DEF BoundEntry, ReadsMatch, GetMatchInfo
    <3> QED
      BY <1>2, <2>4, <3>1, <3>2, <3>3 DEF BoundEntry
  <2>9. TablesEvaluated'
    BY <2>2, <2>3 DEF TablesEvaluated, RowsEvaluated
  <2>10. TablesRight'
    <3>1. \A b, c : Matched(b, c)' = Matched(b, c)
      BY <1>2 DEF Matched
    <3>2. OneToOne' <=> OneToOne
      BY <1>2 DEF OneToOne
    <3>3. \A e : Wanted(e)' = Wanted(e)
      BY <1>2, <3>1 DEF Wanted
    <3> QED
      BY <2>2, <2>3, <3>2, <3>3 DEF TablesRight, OnlySelected, AllSelected
  <2> QED
    BY <1>2, <1>3, <2>1, <2>5, <2>6, <2>7, <2>8, <2>9, <2>10
    DEF IInv, NothingExecuted, FailureExplained
<1> QED
  BY <1>6, <1>7

LEMMA NextInvariant == IInv /\ [Next]_vars => IInv'
<1> SUFFICES ASSUME IInv, [Next]_vars PROVE IInv'
  OBVIOUS
<1>1. ASSUME NEW r \in Requests, AddEntry(r) PROVE IInv'
  BY <1>1, AddEntryInvariant
<1>2. ASSUME NEW c \in CutObjects, AddBranchCut(c) PROVE IInv'
  BY <1>2, AddBranchCutInvariant
<1>3. CASE InitTask
  BY <1>3, InitTaskInvariant
<1>4. CASE InitBranchCuts
  BY <1>4, InitBranchCutsInvariant
<1>5. ASSUME NEW sizes \in EventSizes, NextEvent(sizes) PROVE IInv'
  BY <1>5, NextEventInvariant
<1>6. ASSUME NEW p \in index,
             NEW i \in UNION {0 .. size[b] - 1 : b \in ChannelBranches},
             NEW j \in UNION {0 .. size[b] - 1 : b \in ChannelBranches},
             RegisterMatch(p, i, j)
      PROVE  IInv'
  BY <1>6, RegisterMatchInvariant
<1>7. CASE Exec
  BY <1>7, ExecInvariant
<1>8. CASE UNCHANGED vars
  <2>1. /\ Shape /\ EventSound /\ EntriesRequested /\ GrantsKept
        /\ NothingExecuted /\ EntriesBound /\ TablesEvaluated /\ TablesRight
        /\ FailureExplained
    BY DEF IInv
  <2>2. UNCHANGED <<phase, index, entries, granted, cutsMap, ready, size, matching,
                    registered, executed>>
    BY <1>8 DEF vars, event
  <2>3. EventSound' /\ EntriesRequested' /\ GrantsKept' /\ TablesEvaluated' /\ TablesRight'
    BY <2>1, <2>2, EventSoundFrame, RequestedFrame, GrantsFrame, EvaluatedFrame, RightFrame
  <2>4. EntriesBound'
    BY <2>1, <2>2, BoundFrame
  <2>5. Shape' /\ NothingExecuted' /\ FailureExplained'
    BY <2>1, <2>2 DEF Shape, NothingExecuted, FailureExplained, Explained
  <2> QED
    BY <2>3, <2>4, <2>5 DEF IInv
<1> QED
  BY <1>1, <1>2, <1>3, <1>4, <1>5, <1>6, <1>7, <1>8 DEF Next

\* The conjuncts of IInv, which none of the actions breaks, hold always.
THEOREM Invariance == Spec => []IInv
BY InitInvariant, NextInvariant, PTL DEF Spec

LEMMA TypeFromInvariant == IInv => TypeOK
<1> SUFFICES ASSUME IInv PROVE TypeOK
  OBVIOUS
<1>1. Shape /\ EventSound /\ GrantsKept /\ EntriesBound /\ TablesEvaluated
  BY DEF IInv
<1>2. \A k \in DOMAIN entries : entries[k] \in Entry
  BY <1>1 DEF Shape
<1>3. ASSUME NEW k \in DOMAIN entries
      PROVE  /\ entries[k].names \subseteq Branches
             /\ phase = "running" => DOMAIN entries[k].cuts = entries[k].names
             /\ \A n \in DOMAIN entries[k].rows :
                  Len(entries[k].rows[n].values) = Len(entries[k].vars)
  <2> DEFINE e == entries[k]
  <2>1. e \in Entry /\ RowsEvaluated(e)
    BY <1>1, <1>2 DEF TablesEvaluated
  <2>2. phase = "running" => BoundEntry(e)
    BY <1>1 DEF EntriesBound
  <2> HIDE DEF e
  <2>3. e.names \subseteq Branches /\ e.rows \in Seq(Rows)
    BY <2>1 DEF Entry
  <2>4. phase = "running" => DOMAIN e.cuts = e.names
    BY <2>2 DEF BoundEntry
  <2>5. ASSUME NEW n \in DOMAIN e.rows
        PROVE  Len(e.rows[n].values) = Len(e.vars)
    <3>1. e.rows[n] \in Rows
      BY <2>3
    <3>2. e.rows[n].at \in Ats
      BY <3>1 DEF Rows
    <3>3. e.rows[n] = Row(e, e.rows[n].at)
      BY <2>1 DEF RowsEvaluated
    <3> DEFINE at == e.rows[n].at
    <3> HIDE DEF at
    <3>4. Len(Row(e, at).values) = Len(e.vars)
      BY <2>1, <3>2, RowType DEF at
    <3> QED
      BY <3>3, <3>4 DEF at
  <2> QED
    BY <2>3, <2>4, <2>5 DEF e
<1>4. ASSUME NEW g \in DOMAIN granted
      PROVE  /\ granted[g].entry \in DOMAIN entries
             /\ \A i \in DOMAIN granted[g].ids :
                  granted[g].ids[i] \in 0 .. Len(entries[granted[g].entry].vars) - 1
  <2> DEFINE h == granted[g]
  <2>1. h \in Grant /\ h.entry \in DOMAIN entries /\ GrantKept(h, entries[h.entry])
    BY <1>1 DEF Shape, GrantsKept
  <2> HIDE DEF h
  <2>2. h.ids \in Seq(Nat) /\ h.request \in Requests
    BY <2>1 DEF Grant
  <2>3. h.request.vars \in Seq(Variables)
    BY <2>2, RequestType
  <2>4. DOMAIN h.ids = DOMAIN h.request.vars
    BY <2>1, <2>2, <2>3 DEF GrantKept
  <2> QED
    BY <2>1, <2>4 DEF GrantKept, h
<1>5. \A p \in index : \A i \in DOMAIN matching[p].direct :
        i < size[p[1]] /\ matching[p].direct[i] < size[p[2]]
  <2> SUFFICES ASSUME NEW p \in index, NEW i \in DOMAIN matching[p].direct
               PROVE  i < size[p[1]] /\ matching[p].direct[i] < size[p[2]]
    OBVIOUS
  <2>1. p[1] \in ChannelBranches /\ p[2] \in ChannelBranches
    BY <1>1, AnalysisTaskAssumption DEF EventSound
  <2>2. size[p[1]] \in Nat /\ size[p[2]] \in Nat
    BY <1>1, <2>1 DEF EventSound
  <2>3. <<i, matching[p].direct[i]>> \in registered[p]
    BY <1>1 DEF EventSound, MapsRegistered
  <2>4. registered[p] \subseteq (0 .. size[p[1]] - 1) \X (0 .. size[p[2]] - 1)
    BY <1>1 DEF EventSound
  <2>5. i \in 0 .. size[p[1]] - 1 /\ matching[p].direct[i] \in 0 .. size[p[2]] - 1
    BY <2>3, <2>4
  <2> QED
    BY <2>2, <2>5
<1> QED
  BY <1>1, <1>3, <1>4, <1>5 DEF TypeOK, Shape, EventSound

\* Tables are over the branches their names say, ids within the tables, and
\* matchings between channels that the event has.
THEOREM TypeCorrect == Spec => []TypeOK
BY Invariance, TypeFromInvariant, PTL

LEMMA ColumnsFromInvariant == IInv => ColumnsDenoteRequests
<1> SUFFICES ASSUME IInv,
                    \A v, w \in RequestedVariables : SameVariable(v, w) => v.fn = w.fn,
                    NEW n \in DOMAIN granted
             PROVE  LET r == granted[n].request
                        e == entries[granted[n].entry]
                    IN /\ EqualCuts(e.cut, r.cut)
                       /\ \A m \in DOMAIN e.rows :
                            /\ e.rows[m].weight = Value(WeightOf(r), e.rows[m].at)
                            /\ \A i \in DOMAIN r.vars :
                                 e.rows[m].values[granted[n].ids[i] + 1] =
                                   Value(r.vars[i], e.rows[m].at)
  BY DEF ColumnsDenoteRequests
<1>1. Shape /\ EntriesRequested /\ GrantsKept /\ TablesEvaluated
  BY DEF IInv
<1> DEFINE g == granted[n]
           r == g.request
           e == entries[g.entry]
<1>2. g \in Grant /\ g.entry \in DOMAIN entries /\ GrantKept(g, e)
  BY <1>1 DEF Shape, GrantsKept
<1>3. r \in Requests
  BY <1>2 DEF Grant
<1>4. e \in Entry /\ RowsEvaluated(e)
  BY <1>1, <1>2 DEF Shape, TablesEvaluated
<1>5. \A v \in ToSet(r.vars) \cup {WeightOf(r)} : v \in RequestedVariables
  BY DEF RequestedVariables
<1>6. /\ \A i \in DOMAIN e.vars : e.vars[i] \in RequestedVariables
      /\ e.weight \in RequestedVariables
  BY <1>1, <1>2 DEF EntriesRequested
<1>7. \A v \in RequestedVariables : v \in Variables
  <2> SUFFICES ASSUME NEW v \in RequestedVariables PROVE v \in Variables
    OBVIOUS
  <2>1. PICK m \in DOMAIN granted :
          v \in ToSet(granted[m].request.vars) \cup {WeightOf(granted[m].request)}
    BY DEF RequestedVariables
  <2>2. granted[m] \in Grant
    BY <1>1 DEF Shape
  <2>3. granted[m].request \in Requests
    BY <2>2 DEF Grant
  <2> QED
    BY <2>1, <2>3 DEF Variables
<1>8. ASSUME NEW v \in RequestedVariables, NEW w \in RequestedVariables,
             SameVariable(v, w), NEW at
      PROVE  Value(v, at) = Value(w, at)
  <2>1. v.fn = w.fn /\ v.key = w.key
    BY <1>8 DEF SameVariable
  <2>2. v.branches = w.branches
    BY <1>7, <1>8, RequestsAssumption
  <2> QED
    BY <2>1, <2>2 DEF Value
<1> HIDE DEF e, g, r
<1>9. EqualCuts(e.cut, r.cut)
  BY <1>2 DEF GrantKept, r
<1>10. ASSUME NEW m \in DOMAIN e.rows
       PROVE  /\ e.rows[m].weight = Value(WeightOf(r), e.rows[m].at)
              /\ \A i \in DOMAIN r.vars :
                   e.rows[m].values[g.ids[i] + 1] = Value(r.vars[i], e.rows[m].at)
  <2> DEFINE row == e.rows[m]
             at == row.at
  <2>1. row = Row(e, at)
    BY <1>4 DEF RowsEvaluated
  <2> HIDE DEF row, at
  <2>2. /\ row.weight = Value(e.weight, at)
        /\ \A i \in DOMAIN e.vars : row.values[i] = Value(e.vars[i], at)
    BY <2>1 DEF Row
  <2>3. SameVariable(e.weight, WeightOf(r))
    BY <1>2 DEF GrantKept, r
  <2>4. WeightOf(r) \in RequestedVariables
    BY <1>5
  <2>5. row.weight = Value(WeightOf(r), at)
    BY <1>6, <1>8, <2>2, <2>3, <2>4
  <2>6. ASSUME NEW i \in DOMAIN r.vars
        PROVE  row.values[g.ids[i] + 1] = Value(r.vars[i], at)
    <3>1. /\ g.ids[i] \in 0 .. Len(e.vars) - 1
          /\ SameVariable(e.vars[g.ids[i] + 1], r.vars[i])
      BY <1>2 DEF GrantKept, r
    <3>2. e.vars \in Seq(Variables)
      BY <1>4 DEF Entry
    <3>3. g.ids[i] + 1 \in DOMAIN e.vars
      BY <3>1, <3>2
    <3>4. e.vars[g.ids[i] + 1] \in RequestedVariables /\ r.vars[i] \in RequestedVariables
      BY <1>5, <1>6, <3>3 DEF ToSet
    <3>5. row.values[g.ids[i] + 1] = Value(e.vars[g.ids[i] + 1], at)
      BY <2>2, <3>3
    <3> QED
      BY <1>8, <3>1, <3>4, <3>5
  <2> QED
    BY <2>5, <2>6 DEF at, row
<1> QED
  BY <1>9, <1>10 DEF e, r, g

\* Every column, cut and weight stays what AddEntry was asked for, in every row
\* of every event, however many requests share the table, as long as variables
\* that compare equal have one function.
THEOREM ColumnsStayDenoted == Spec => []ColumnsDenoteRequests
BY Invariance, ColumnsFromInvariant, PTL

LEMMA RowsFromInvariant == IInv => RowsAreSelected /\ RowsComplete
BY DEF IInv, TablesRight, OnlySelected, AllSelected, RowsAreSelected, RowsComplete

\* A table has no row but of existing channels, registered matches the right
\* way round, that pass every cut, and none twice.
THEOREM RowsStaySelected == Spec => []RowsAreSelected
BY Invariance, RowsFromInvariant, PTL

\* It has all of them in every event in which no channel was matched twice.
THEOREM RowsStayComplete == Spec => []RowsComplete
BY Invariance, RowsFromInvariant, PTL

LEMMA ReadyFromInvariant == IInv => ReadyTaskRuns
BY DEF IInv, FailureExplained, Explained, ReadyTaskRuns

\* An event fails only through a branch cut that nobody initialised or a weight
\* of a branch that its entry does not read.
THEOREM ReadyTasksStayRunning == Spec => []ReadyTaskRuns
BY Invariance, ReadyFromInvariant, PTL

(***************************************************************************)
(* PlainTreeFiller, for every set of branches, fields, cuts,               *)
(* requests and events: a task that came through Init never throws in an   *)
(* event, the plain tree is what the fields have in the channels that pass *)
(* the branch cut (PlainTreeHolds), and its leaves are the chosen fields,  *)
(* each once (LeavesChosen).                                               *)
(*                                                                         *)
(* The invariant FillerInv says where the fields are: users may have added *)
(* entries before, so Init only knows that there is one entry of as many   *)
(* columns as fields.  Every field found or got a column of its own there, *)
(* hence (pigeonhole, FieldColumns) every column is of one field.          *)
(***************************************************************************)

(***************************************************************************)
(* PlainTreeFiller: its entries for fields                                 *)
(***************************************************************************)
\* The default weight is of the first of the branches.
LEMMA OnesOfBranch ==
  ASSUME NEW v, NEW b \in Branches, v.branches = {b}
  PROVE  OnesOf(v).branches = {b} /\ OnesOf(v).key = <<b, "ones">>
<1> DEFINE own == Those(NameOrder, {b})
<1>1. NameOrder \in Seq(Branches) /\ ToSet(NameOrder) = Branches
  BY AnalysisTaskAssumption
<1>2. own \in Seq(Branches) /\ ToSet(own) = ToSet(NameOrder) \cap {b}
  BY <1>1, ThoseSound
<1> HIDE DEF own
<1>3. own[1] = b
  <2>1. b \in ToSet(own)
    BY <1>1, <1>2
  <2>2. PICK i \in DOMAIN own : own[i] = b
    BY <2>1 DEF ToSet
  <2>3. 1 \in DOMAIN own
    BY <1>2, <2>2
  <2>4. own[1] \in {b}
    BY <1>2, <2>3 DEF ToSet
  <2> QED
    BY <2>4
<1>4. OnesOf(v) = [key |-> <<own[1], "ones">>, branches |-> {own[1]}, fn |-> "first"]
  BY DEF OnesOf, own
<1> QED
  BY <1>3, <1>4

\* The request Init makes for a field.
LEMMA FieldRequestSound ==
  ASSUME NEW b \in Branches, NEW f \in ToSet(Fields(b))
  PROVE  LET r == FieldRequest(b, f)
             v == FieldVariable(b, f)
         IN /\ r \in Requests /\ r.vars = <<v>> /\ r.cut = NoCut
            /\ v.branches = {b} /\ v \in Variables
            /\ WeightOf(r).key = <<b, "ones">> /\ WeightOf(r).branches = {b}
            /\ WeightOf(r) \in Variables
            /\ BranchNames(r) = {b}
<1> DEFINE r == FieldRequest(b, f)
           v == FieldVariable(b, f)
<1>1. r \in Requests
  BY FieldsAssumption
<1>2. /\ r.vars = <<v>> /\ r.cut = NoCut /\ r.weight = NoWeight
      /\ v.branches = {b}
  BY DEF FieldRequest, FieldVariable
<1> HIDE DEF r, v
<1>3. WeightOf(r) = OnesOf(v)
  BY <1>2 DEF WeightOf
<1>4. WeightOf(r).branches = {b} /\ WeightOf(r).key = <<b, "ones">>
  BY <1>2, <1>3, OnesOfBranch
<1>5. BranchNames(r) = {b}
  <2>1. DOMAIN r.vars = {1} /\ r.vars[1].branches = {b}
    BY <1>2
  <2> QED
    BY <1>2, <2>1 DEF BranchNames, BranchesOfCut
<1>6. v \in Variables /\ WeightOf(r) \in Variables
  <2>1. r.vars \in Seq(Variables) /\ WeightOf(r) \in Variables
    BY <1>1, RequestType
  <2> QED
    BY <1>2, <2>1
<1> QED
  BY <1>1, <1>2, <1>3, <1>4, <1>5, <1>6 DEF r, v

\* The variables of two fields are told apart.
LEMMA FieldsDiffer ==
  ASSUME NEW b \in Branches, NEW i \in DOMAIN Fields(b), NEW j \in DOMAIN Fields(b),
         SameVariable(FieldVariable(b, Fields(b)[i]), FieldVariable(b, Fields(b)[j]))
  PROVE  i = j
<1>1. Fields(b)[i].name = Fields(b)[j].name
  BY DEF SameVariable, FieldVariable
<1> QED
  BY <1>1, FieldsAssumption

\* A single variable is found or appended.
LEMMA AddVariablesOfOne ==
  ASSUME NEW old, NEW v
  PROVE  AddVariables(old, <<v>>) = AddVariable([vars |-> old, ids |-> <<>>], v)
<1>1. Len(<<v>>) = 1 /\ <<v>>[1] = v
  OBVIOUS
<1>2. PICK acc : /\ AddVariables(old, <<v>>) = acc[Len(<<v>>)]
                 /\ AddsUpTo(acc, old, <<v>>, Len(<<v>>))
  BY <1>1, AddVariablesLoop
<1>3. \A i \in 0 .. 1 :
        acc[i] = IF i = 0 THEN [vars |-> old, ids |-> <<>>]
                 ELSE AddVariable(acc[i - 1], <<v>>[i])
  BY <1>1, <1>2 DEF AddsUpTo
<1>4. acc[0] = [vars |-> old, ids |-> <<>>]
  BY <1>3
<1>5. acc[1] = AddVariable(acc[0], v)
  <2>1. 1 - 1 = 0 /\ 1 \in 0 .. 1 /\ 1 # 0
    OBVIOUS
  <2> QED
    BY <1>1, <1>3, <2>1
<1> QED
  BY <1>1, <1>2, <1>4, <1>5

(***************************************************************************)
(* The entries after Init has added the fields                             *)
(***************************************************************************)
\* Entry e is over the branch b without a cut.
OverBranch(e, b) ==
  /\ e.names = {b} /\ e.cut = NoCut /\ e.weight.branches = {b}

\* One of the entries of list has a column for the field f.
HasField(list, b, f) ==
  \E k \in DOMAIN list :
    /\ OverBranch(list[k], b)
    /\ \E i \in DOMAIN list[k].vars : SameVariable(list[k].vars[i], FieldVariable(b, f))

\* What holds of entries before Init.
AsRequested(list) ==
  /\ list \in Seq(Entry)
  /\ \A k \in DOMAIN list : ReadsNames(list[k]) /\ list[k].vars # <<>>

\* The list of entries after the first n fields of b were added to old.
FieldsAdded(list, old, b, n) ==
  /\ AsRequested(list)
  /\ \A i \in 1 .. n : HasField(list, b, Fields(b)[i])
  /\ \A k \in DOMAIN list : \A i \in DOMAIN list[k].vars :
       \/ \E l \in DOMAIN old : list[k].vars[i] \in ToSet(old[l].vars)
       \/ \E f \in ToSet(Fields(b)) : list[k].vars[i] = FieldVariable(b, f)
  /\ old = <<>> =>
       IF n = 0 THEN list = <<>>
       ELSE /\ Len(list) = 1 /\ OverBranch(list[1], b)
            /\ list[1].weight.key = <<b, "ones">>
            /\ list[1].vars = [i \in 1 .. n |-> FieldVariable(b, Fields(b)[i])]

\* An extended entry still has what it had.
LEMMA HasFieldKept ==
  ASSUME NEW list, NEW new, NEW b, NEW f, HasField(list, b, f),
         list \in Seq(Entry), new \in Seq(Entry), Len(list) <= Len(new),
         \A k \in 1 .. Len(list) : Extends(new[k], list[k])
  PROVE  HasField(new, b, f)
<1>1. PICK k \in DOMAIN list :
        /\ OverBranch(list[k], b)
        /\ \E i \in DOMAIN list[k].vars : SameVariable(list[k].vars[i], FieldVariable(b, f))
  BY DEF HasField
<1>2. PICK i \in DOMAIN list[k].vars : SameVariable(list[k].vars[i], FieldVariable(b, f))
  BY <1>1
<1>3. k \in DOMAIN new /\ Extends(new[k], list[k]) /\ new[k] \in Entry /\ list[k] \in Entry
  OBVIOUS
<1> DEFINE e == list[k]
           g == new[k]
           vs == g.vars
<1>4. g = [e EXCEPT !.vars = vs] /\ e \in Entry /\ g \in Entry
      /\ Len(e.vars) <= Len(vs) /\ \A j \in 1 .. Len(e.vars) : vs[j] = e.vars[j]
  BY <1>3 DEF Extends
<1>5. OverBranch(e, b) /\ i \in DOMAIN e.vars
      /\ SameVariable(e.vars[i], FieldVariable(b, f))
  BY <1>1, <1>2
<1> HIDE DEF e, vs
<1>6. g.names = e.names /\ g.cut = e.cut /\ g.weight = e.weight
  BY <1>4 DEF Entry
<1>7. i \in DOMAIN vs /\ vs[i] = e.vars[i]
  <2>1. e.vars \in Seq(Variables) /\ g.vars \in Seq(Variables)
    BY <1>4 DEF Entry
  <2>2. vs \in Seq(Variables)
    BY <2>1 DEF vs
  <2>3. i \in 1 .. Len(e.vars) /\ Len(e.vars) \in Nat /\ Len(vs) \in Nat
        /\ DOMAIN vs = 1 .. Len(vs)
    BY <1>5, <2>1, <2>2
  <2> QED
    BY <1>4, <2>3
<1>8. OverBranch(g, b)
  BY <1>5, <1>6 DEF OverBranch
<1>9. SameVariable(vs[i], FieldVariable(b, f))
  BY <1>5, <1>7
<1> QED
  BY <1>3, <1>7, <1>8, <1>9 DEF HasField, vs

\* The entry AddEntry returns is over the branch of the field and has it.
LEMMA AddedHasField ==
  ASSUME NEW list, AsRequested(list), NEW b \in Branches, NEW f \in ToSet(Fields(b))
  PROVE  HasField(Added(list, FieldRequest(b, f)).entries, b, f)
<1> DEFINE r == FieldRequest(b, f)
           v == FieldVariable(b, f)
           added == Added(list, r)
<1>1. /\ r \in Requests /\ r.vars = <<v>> /\ r.cut = NoCut /\ WeightOf(r).branches = {b}
      /\ WeightOf(r) \in Variables /\ BranchNames(r) = {b}
  BY FieldRequestSound
<1>2. list \in Seq(Entry) /\ \A k \in DOMAIN list : ReadsNames(list[k])
  BY DEF AsRequested
<1> HIDE DEF r, v
<1>3. AddSound(list, r, added)
  BY <1>1, <1>2, AddedSound
<1>4. ASSUME added = AddedNew(list, r)
      PROVE  HasField(added.entries, b, f)
  <2> DEFINE e == NewEntry(r)
  <2>1. added.entries = Append(list, e)
    BY <1>4 DEF AddedNew
  <2>2. Len(list) + 1 \in DOMAIN added.entries /\ added.entries[Len(list) + 1] = e
    <3>1. e \in Entry
      BY <1>1, NewEntryType
    <3> HIDE DEF e, added
    <3> QED
      BY <1>2, <2>1, <3>1
  <2>3. OverBranch(e, b) /\ e.vars = <<v>>
    BY <1>1 DEF OverBranch, NewEntry
  <2>4. 1 \in DOMAIN e.vars /\ SameVariable(e.vars[1], v)
    BY <2>3 DEF SameVariable
  <2> HIDE DEF e, added
  <2> QED
    BY <2>2, <2>3, <2>4 DEF HasField, added, r, v
<1>5. ASSUME NEW n \in DOMAIN list, added = AddedTo(list, n, r), SharesTable(list[n], r)
      PROVE  HasField(added.entries, b, f)
  <2>1. added.entry = n
    BY <1>5 DEF AddedTo
  <2> DEFINE new == added.entries
             e == list[n]
             g == new[n]
             vs == g.vars
  <2>2. /\ n \in 1 .. Len(list) /\ new \in Seq(Entry) /\ Len(list) <= Len(new)
        /\ Extends(new[n], list[n]) /\ e \in Entry
    BY <1>2, <1>3 DEF AddSound
  <2>3. n \in DOMAIN new /\ g \in Entry
    BY <2>2, <1>2
  <2>4. g = [e EXCEPT !.vars = vs]
    BY <2>2 DEF Extends
  <2>5. GrantKept([request |-> r, entry |-> n, ids |-> added.ids], g)
    BY <1>3, <2>1 DEF AddSound
  <2>6. SharesTable(e, r)
    BY <1>5
  <2> HIDE DEF e, vs
  <2>7. g.names = e.names /\ g.cut = e.cut /\ g.weight = e.weight
    BY <2>2, <2>4 DEF Entry
  <2> HIDE DEF g
  <2>8. OverBranch(g, b)
    <3>1. e.names = {b} /\ EqualCuts(e.cut, NoCut) /\ SameVariable(e.weight, WeightOf(r))
      BY <1>1, <2>6 DEF SharesTable
    <3>2. e.cut = NoCut
      BY <3>1 DEF EqualCuts
    <3>3. e.weight \in Variables
      BY <2>2 DEF Entry
    <3>4. e.weight.branches = {b}
      BY <1>1, <3>1, <3>3, RequestsAssumption
    <3> QED
      BY <2>7, <3>1, <3>2, <3>4 DEF OverBranch
  <2>9. \E i \in DOMAIN g.vars : SameVariable(g.vars[i], v)
    <3>1. 1 \in DOMAIN r.vars /\ r.vars[1] = v
      BY <1>1
    <3>2. added.ids[1] \in 0 .. Len(g.vars) - 1 /\ SameVariable(g.vars[added.ids[1] + 1], v)
      BY <2>5, <3>1 DEF GrantKept
    <3>3. g.vars \in Seq(Variables)
      BY <2>3 DEF Entry
    <3>4. added.ids[1] + 1 \in DOMAIN g.vars
      BY <3>2, <3>3
    <3> QED
      BY <3>2, <3>4
  <2> HIDE DEF new
  <2>10. HasField(new, b, f)
    BY <2>3, <2>8, <2>9 DEF HasField, g, v
  <2> QED
    BY <2>10 DEF new
<1>6. Len(list) \in Nat /\ DOMAIN list = 1 .. Len(list)
  BY <1>2
<1>7. \/ added = AddedNew(list, r)
      \/ \E n \in DOMAIN list : added = AddedTo(list, n, r) /\ SharesTable(list[n], r)
  BY <1>6, AddedForm
<1> HIDE DEF added
<1>8. HasField(added.entries, b, f)
  BY <1>4, <1>5, <1>7
<1> QED
  BY <1>8 DEF added, r

\* The fields of a branch are columns in their order if nobody added an entry.
LEMMA FieldAppended ==
  ASSUME NEW list, AsRequested(list), NEW b \in Branches, NEW n \in Nat,
         n + 1 \in DOMAIN Fields(b), n # 0,
         Len(list) = 1, OverBranch(list[1], b), list[1].weight.key = <<b, "ones">>,
         list[1].vars = [i \in 1 .. n |-> FieldVariable(b, Fields(b)[i])]
  PROVE  LET new == Added(list, FieldRequest(b, Fields(b)[n + 1])).entries
         IN /\ Len(new) = 1 /\ OverBranch(new[1], b) /\ new[1].weight.key = <<b, "ones">>
            /\ new[1].vars = [i \in 1 .. n + 1 |-> FieldVariable(b, Fields(b)[i])]
<1> DEFINE f == Fields(b)[n + 1]
           r == FieldRequest(b, f)
           v == FieldVariable(b, f)
           e == list[1]
           old == e.vars
           res == AddVariables(old, r.vars)
           g == [e EXCEPT !.vars = res.vars]
           new == Added(list, r).entries
<1>1. f \in ToSet(Fields(b))
  BY DEF ToSet
<1>2. /\ r \in Requests /\ r.vars = <<v>> /\ r.cut = NoCut
      /\ WeightOf(r).key = <<b, "ones">> /\ BranchNames(r) = {b}
  BY <1>1, FieldRequestSound
<1>3. /\ list \in Seq(Entry) /\ e \in Entry /\ DOMAIN list = {1}
      /\ Len(list) \in Nat /\ DOMAIN list = 1 .. Len(list)
  <2>1. list \in Seq(Entry)
    BY DEF AsRequested
  <2>2. DOMAIN list = 1 .. Len(list) /\ 1 .. Len(list) = {1}
    BY <2>1
  <2>3. list[1] \in Entry
    BY <2>1, <2>2
  <2> QED
    BY <2>1, <2>2, <2>3
<1>4. SharesTable(list[1], r)
  BY <1>2 DEF SharesTable, OverBranch, EqualCuts, SameVariable
<1>5. Added(list, r) = AddedTo(list, 1, r)
  <2>1. \/ /\ Added(list, r) = AddedNew(list, r)
           /\ \A k \in DOMAIN list : ~ SharesTable(list[k], r)
        \/ \E k \in DOMAIN list : /\ Added(list, r) = AddedTo(list, k, r)
                                  /\ SharesTable(list[k], r)
    BY <1>3, AddedForm
  <2> QED
    BY <1>3, <1>4, <2>1
<1>6. new = [list EXCEPT ![1].vars = res.vars]
  <2> DEFINE ex == [list EXCEPT ![1].vars = res.vars]
  <2>1. AddedTo(list, 1, r) = [entries |-> ex, entry |-> 1, ids |-> res.ids]
    BY Zenon DEF AddedTo
  <2> HIDE DEF ex, res
  <2>2. new = ex
    BY <1>5, <2>1
  <2> QED
    BY <2>2 DEF ex
<1>7. Len(new) = 1 /\ new[1] = g
  BY <1>3, <1>6
<1>8. res.vars = Append(old, v)
  <2> DEFINE same == {i \in DOMAIN old : SameVariable(old[i], v)}
             acc == [vars |-> old, ids |-> <<>>]
  <2>1. res = AddVariable(acc, v)
    BY <1>2, AddVariablesOfOne
  <2>2. same = {}
    <3> SUFFICES ASSUME NEW i \in DOMAIN old, SameVariable(old[i], v)
                 PROVE  FALSE
      OBVIOUS
    <3>1. i \in 1 .. n /\ old[i] = FieldVariable(b, Fields(b)[i])
      OBVIOUS
    <3>2. Fields(b) \in Seq(ToSet(Fields(b)))
      BY FieldsAssumption
    <3>3. i \in DOMAIN Fields(b) /\ i # n + 1
      BY <3>1, <3>2
    <3> QED
      BY <3>1, <3>3, FieldsDiffer
  <2>3. AddVariable(acc, v).vars
          = IF same = {} THEN Append(old, v) ELSE acc.vars
    BY DEF AddVariable
  <2> HIDE DEF same, acc, old, res
  <2> QED
    BY <2>1, <2>2, <2>3
<1>9. Append(old, v) = [i \in 1 .. n + 1 |-> FieldVariable(b, Fields(b)[i])]
  <2>1. Len(old) = n
    OBVIOUS
  <2> DEFINE fields == [i \in 1 .. n |-> FieldVariable(b, Fields(b)[i])]
             more == [i \in 1 .. n + 1 |-> FieldVariable(b, Fields(b)[i])]
  <2>2. old = fields
    OBVIOUS
  <2>3. fields \in Seq({FieldVariable(b, Fields(b)[i]) : i \in 1 .. n + 1})
    OBVIOUS
  <2>4. \A i \in 1 .. n : fields[i] = FieldVariable(b, Fields(b)[i])
    OBVIOUS
  <2> HIDE DEF old, fields, v
  <2>5. /\ DOMAIN Append(fields, v) = 1 .. n + 1
        /\ \A i \in 1 .. n + 1 :
             Append(fields, v)[i] = IF i = n + 1 THEN v ELSE fields[i]
    BY <2>1, <2>2, <2>3
  <2>6. Append(fields, v) \in Seq({FieldVariable(b, Fields(b)[i]) : i \in 1 .. n + 1})
    BY <2>3 DEF v
  <2>7. \A i \in 1 .. n + 1 : Append(fields, v)[i] = FieldVariable(b, Fields(b)[i])
    BY <2>4, <2>5 DEF v
  <2> DEFINE all == Append(fields, v)
             T == {FieldVariable(b, Fields(b)[i]) : i \in 1 .. n + 1}
  <2>8. all \in Seq(T) /\ DOMAIN all = 1 .. n + 1
        /\ \A i \in 1 .. n + 1 : all[i] = FieldVariable(b, Fields(b)[i])
    BY <2>5, <2>6, <2>7
  <2> HIDE DEF all, T
  <2>9. all = [i \in 1 .. n + 1 |-> all[i]]
    BY <2>8
  <2>10. all = more
    BY <2>8, <2>9
  <2> QED
    BY <2>2, <2>10 DEF all
<1>10. g.vars = res.vars /\ g.names = e.names /\ g.cut = e.cut /\ g.weight = e.weight
  BY <1>3 DEF Entry
<1> HIDE DEF g, res, new, old, r
<1>11. OverBranch(new[1], b) /\ new[1].weight.key = <<b, "ones">>
  BY <1>7, <1>10 DEF OverBranch
<1> QED
  BY <1>7, <1>8, <1>9, <1>10, <1>11 DEF new, r

\* The first field makes the only entry.
LEMMA FirstFieldAdded ==
  ASSUME NEW b \in Branches, 1 \in DOMAIN Fields(b)
  PROVE  LET new == Added(<<>>, FieldRequest(b, Fields(b)[1])).entries
         IN /\ Len(new) = 1 /\ OverBranch(new[1], b) /\ new[1].weight.key = <<b, "ones">>
            /\ new[1].vars = [i \in 1 .. 1 |-> FieldVariable(b, Fields(b)[i])]
<1> DEFINE f == Fields(b)[1]
           r == FieldRequest(b, f)
           v == FieldVariable(b, f)
           e == NewEntry(r)
           new == Added(<<>>, r).entries
<1>1. f \in ToSet(Fields(b))
  BY DEF ToSet
<1>2. /\ r \in Requests /\ r.vars = <<v>> /\ r.cut = NoCut /\ WeightOf(r).branches = {b}
      /\ WeightOf(r).key = <<b, "ones">> /\ BranchNames(r) = {b}
  BY <1>1, FieldRequestSound
<1>3. Added(<<>>, r) = AddedNew(<<>>, r)
  <2> DEFINE none == <<>>
  <2>1. Len(none) \in Nat /\ DOMAIN none = 1 .. Len(none) /\ DOMAIN none = {}
    OBVIOUS
  <2> HIDE DEF none, r
  <2>2. Added(none, r) = AddedNew(none, r)
    BY <2>1, AddedForm
  <2> QED
    BY <2>2 DEF none
<1>4. new = Append(<<>>, e)
  <2> HIDE DEF r
  <2> QED
    BY <1>3 DEF AddedNew
<1>5. OverBranch(e, b) /\ e.weight.key = <<b, "ones">> /\ e.vars = <<v>>
  <2> HIDE DEF r, v
  <2> QED
    BY <1>2 DEF OverBranch, NewEntry
<1> HIDE DEF e
<1>6. Len(new) = 1 /\ new[1] = e
  <2> HIDE DEF new
  <2> QED
    BY <1>4
<1>7. <<v>> = [i \in 1 .. 1 |-> FieldVariable(b, Fields(b)[i])]
  <2> DEFINE g == [i \in 1 .. 1 |-> FieldVariable(b, Fields(b)[i])]
             X == {FieldVariable(b, Fields(b)[1])}
  <2>1. DOMAIN g = 1 .. 1 /\ g[1] = v /\ g \in [1 .. 1 -> {v}]
    OBVIOUS
  <2> HIDE DEF g, v
  <2>2. <<v>> = g
    <3>1. <<v>> \in [1 .. 1 -> {v}]
      OBVIOUS
    <3>2. \A i \in 1 .. 1 : <<v>>[i] = g[i]
      BY <2>1
    <3> QED
      BY <2>1, <3>1, <3>2
  <2> QED
    BY <2>2 DEF g
<1> HIDE DEF new, v
<1>8. new[1].vars = <<v>>
  BY <1>5, <1>6
<1> QED
  BY <1>5, <1>6, <1>7, <1>8 DEF new, v

\* An entry has variables, as every request has.
LEMMA AddedNotEmpty ==
  ASSUME NEW list, AsRequested(list), NEW r \in Requests
  PROVE  \A k \in DOMAIN Added(list, r).entries : Added(list, r).entries[k].vars # <<>>
<1> DEFINE added == Added(list, r)
           new == added.entries
<1>1. list \in Seq(Entry) /\ \A k \in DOMAIN list : ReadsNames(list[k]) /\ list[k].vars # <<>>
  BY DEF AsRequested
<1>2. AddSound(list, r, added)
  BY <1>1, AddedSound
<1>3. /\ new \in Seq(Entry) /\ Len(list) <= Len(new)
      /\ \A k \in 1 .. Len(list) : Extends(new[k], list[k])
  BY <1>2 DEF AddSound
<1> HIDE DEF new, added
<1> SUFFICES ASSUME NEW k \in DOMAIN new PROVE new[k].vars # <<>>
  BY DEF new, added
<1>4. CASE k <= Len(list)
  <2>1. k \in 1 .. Len(list) /\ k \in DOMAIN list
    BY <1>1, <1>3, <1>4
  <2>2. list[k].vars # <<>> /\ Len(list[k].vars) <= Len(new[k].vars)
    BY <1>1, <1>3, <2>1 DEF Extends
  <2>3. list[k] \in Entry
    BY <1>1, <2>1
  <2>4. list[k].vars \in Seq(Variables)
    BY <2>3 DEF Entry
  <2>5. Len(list[k].vars) \in Nat /\ Len(list[k].vars) # 0
    BY <2>2, <2>4
  <2>6. Len(<<>>) = 0
    OBVIOUS
  <2> QED
    BY <2>2, <2>5, <2>6
<1>5. CASE ~ (k <= Len(list))
  <2>1. Len(list) \in Nat /\ DOMAIN list = 1 .. Len(list) /\ k \in 1 .. Len(new)
        /\ Len(new) \in Nat
    BY <1>1, <1>3
  <2>2. added = AddedNew(list, r)
    <3>1. \/ added = AddedNew(list, r)
          \/ \E l \in DOMAIN list : added = AddedTo(list, l, r)
      BY <2>1, AddedForm DEF added
    <3>2. ASSUME NEW l \in DOMAIN list, added = AddedTo(list, l, r)
          PROVE  Len(new) = Len(list)
      <4> DEFINE vs == AddVariables(list[l].vars, r.vars)
                 ex == [list EXCEPT ![l].vars = vs.vars]
      <4>1. AddedTo(list, l, r) = [entries |-> ex, entry |-> l, ids |-> vs.ids]
        BY Zenon DEF AddedTo
      <4>2. DOMAIN ex = 1 .. Len(list)
        BY <2>1
      <4> HIDE DEF ex, vs
      <4>3. new = ex
        BY <3>2, <4>1 DEF new
      <4> QED
        BY <1>3, <2>1, <4>2, <4>3
    <3> QED
      BY <1>5, <2>1, <3>1, <3>2
  <2>3. new = Append(list, NewEntry(r))
    BY <2>2 DEF AddedNew, new
  <2>4. new[k] = NewEntry(r)
    <3> DEFINE e == NewEntry(r)
    <3>1. e \in Entry
      BY NewEntryType
    <3> HIDE DEF e
    <3>2. Len(new) = Len(list) + 1 /\ new[Len(list) + 1] = e
      BY <1>1, <2>3, <3>1 DEF e
    <3>3. k = Len(list) + 1
      BY <1>5, <2>1, <3>2
    <3> QED
      BY <3>2, <3>3 DEF e
  <2>5. NewEntry(r).vars # <<>>
    BY RequestsAssumption DEF NewEntry
  <2> QED
    BY <2>4, <2>5
<1> QED
  BY <1>4, <1>5

\* One more field.
LEMMA FieldStep ==
  ASSUME NEW list, NEW old, NEW b \in Branches, NEW n \in Nat,
         n + 1 \in DOMAIN Fields(b), FieldsAdded(list, old, b, n)
  PROVE  FieldsAdded(Added(list, FieldRequest(b, Fields(b)[n + 1])).entries, old, b, n + 1)
<1> DEFINE f == Fields(b)[n + 1]
           r == FieldRequest(b, f)
           v == FieldVariable(b, f)
           added == Added(list, r)
           new == added.entries
<1>1. f \in ToSet(Fields(b))
  BY DEF ToSet
<1>2. r \in Requests /\ r.vars = <<v>>
  BY <1>1, FieldRequestSound
<1>3. AsRequested(list) /\ list \in Seq(Entry) /\ \A k \in DOMAIN list : ReadsNames(list[k])
  BY DEF FieldsAdded, AsRequested
<1>4. HasField(new, b, f)
  BY <1>1, <1>3, AddedHasField
<1>5. AddSound(list, r, added)
  BY <1>2, <1>3, AddedSound
<1> HIDE DEF r
<1>6. /\ new \in Seq(Entry) /\ Len(list) <= Len(new)
      /\ \A k \in 1 .. Len(list) : Extends(new[k], list[k])
      /\ \A k \in DOMAIN new : ReadsNames(new[k])
  BY <1>5 DEF AddSound
<1>7. \A k \in DOMAIN new : \A i \in DOMAIN new[k].vars :
        \/ new[k].vars[i] = v
        \/ k \in DOMAIN list /\ new[k].vars[i] \in ToSet(list[k].vars)
  <2> SUFFICES ASSUME NEW k \in DOMAIN new, NEW i \in DOMAIN new[k].vars
               PROVE  \/ new[k].vars[i] = v
                      \/ k \in DOMAIN list /\ new[k].vars[i] \in ToSet(list[k].vars)
    OBVIOUS
  <2>1. \/ new[k].vars[i] \in ToSet(r.vars)
        \/ k <= Len(list) /\ new[k].vars[i] \in ToSet(list[k].vars)
    BY <1>5 DEF AddSound
  <2>2. k \in 1 .. Len(new) /\ DOMAIN list = 1 .. Len(list) /\ Len(list) \in Nat
    BY <1>3, <1>6
  <2>3. ToSet(r.vars) = {v}
    <3> HIDE DEF v
    <3> QED
      BY <1>2 DEF ToSet
  <2> QED
    BY <2>1, <2>2, <2>3
<1> HIDE DEF new, added, v
<1>8. \A k \in DOMAIN new : new[k].vars # <<>>
  BY <1>2, <1>3, AddedNotEmpty DEF new, added
<1>9. AsRequested(new)
  BY <1>6, <1>8 DEF AsRequested
<1>10. \A i \in 1 .. n + 1 : HasField(new, b, Fields(b)[i])
  <2> SUFFICES ASSUME NEW i \in 1 .. n + 1 PROVE HasField(new, b, Fields(b)[i])
    OBVIOUS
  <2>1. CASE i = n + 1
    BY <1>4, <2>1 DEF new, added, r
  <2>2. CASE i # n + 1
    <3>1. i \in 1 .. n
      BY <2>2
    <3>2. HasField(list, b, Fields(b)[i])
      BY <3>1 DEF FieldsAdded
    <3> QED
      BY <1>3, <1>6, <3>2, HasFieldKept
  <2> QED
    BY <2>1, <2>2
<1>11. \A k \in DOMAIN new : \A i \in DOMAIN new[k].vars :
         \/ \E l \in DOMAIN old : new[k].vars[i] \in ToSet(old[l].vars)
         \/ \E g \in ToSet(Fields(b)) : new[k].vars[i] = FieldVariable(b, g)
  <2> SUFFICES ASSUME NEW k \in DOMAIN new, NEW i \in DOMAIN new[k].vars
               PROVE  \/ \E l \in DOMAIN old : new[k].vars[i] \in ToSet(old[l].vars)
                      \/ \E g \in ToSet(Fields(b)) : new[k].vars[i] = FieldVariable(b, g)
    OBVIOUS
  <2>1. CASE new[k].vars[i] = v
    BY <1>1, <2>1 DEF v
  <2>2. CASE k \in DOMAIN list /\ new[k].vars[i] \in ToSet(list[k].vars)
    <3>1. PICK j \in DOMAIN list[k].vars : new[k].vars[i] = list[k].vars[j]
      BY <2>2 DEF ToSet
    <3> QED
      BY <2>2, <3>1 DEF FieldsAdded
  <2> QED
    BY <1>7, <2>1, <2>2
<1>12. ASSUME old = <<>>
       PROVE  /\ Len(new) = 1 /\ OverBranch(new[1], b) /\ new[1].weight.key = <<b, "ones">>
              /\ new[1].vars = [i \in 1 .. n + 1 |-> FieldVariable(b, Fields(b)[i])]
  <2>1. CASE n = 0
    <3>1. list = <<>> /\ n + 1 = 1
      BY <1>12, <2>1 DEF FieldsAdded
    <3>2. new = Added(<<>>, FieldRequest(b, Fields(b)[1])).entries
      BY <3>1 DEF new, added, r
    <3>3. 1 \in DOMAIN Fields(b)
      BY <3>1
    <3> QED
      BY <3>1, <3>2, <3>3, FirstFieldAdded
  <2>2. CASE n # 0
    <3>1. /\ Len(list) = 1 /\ OverBranch(list[1], b) /\ list[1].weight.key = <<b, "ones">>
          /\ list[1].vars = [i \in 1 .. n |-> FieldVariable(b, Fields(b)[i])]
      BY <1>12, <2>2 DEF FieldsAdded
    <3> QED
      BY <1>3, <2>2, <3>1, FieldAppended DEF new, added, r
  <2> QED
    BY <2>1, <2>2
<1>13. FieldsAdded(new, old, b, n + 1)
  BY <1>9, <1>10, <1>11, <1>12 DEF FieldsAdded
<1> QED
  BY <1>13 DEF new, added, r

\* The loop of Init over the fields has a result.
LEMMA WithFieldsLoop ==
  ASSUME branch \in Branches, AsRequested(entries)
  PROVE  \E list : /\ WithFields = list[Len(Fields(branch))]
                   /\ list[0] = entries
                   /\ \A n \in 1 .. Len(Fields(branch)) :
                        list[n] = Added(list[n - 1], FieldRequest(branch, Fields(branch)[n])).entries
<1> DEFINE N == Len(Fields(branch))
           X == {l \in Seq(Entry) : \A k \in DOMAIN l : ReadsNames(l[k])}
           Grown(l, n) == Added(l, FieldRequest(branch, Fields(branch)[n])).entries
           step == [n \in 1 .. N |-> [l \in X |-> Grown(l, n)]]
           Is(list) == list = [n \in 0 .. N |-> IF n = 0 THEN entries ELSE Grown(list[n - 1], n)]
           list == CHOOSE l : Is(l)
<1>1. Columns = Fields(branch)
  BY FieldsAssumption DEF Columns
<1>2. N \in Nat /\ DOMAIN Fields(branch) = 1 .. N
  BY FieldsAssumption
<1>3. ASSUME NEW n \in 1 .. N, NEW l \in X
      PROVE  Grown(l, n) \in X
  <2> DEFINE r == FieldRequest(branch, Fields(branch)[n])
  <2>1. Fields(branch)[n] \in ToSet(Fields(branch))
    BY <1>2 DEF ToSet
  <2>2. r \in Requests
    BY <2>1, FieldRequestSound
  <2> HIDE DEF r
  <2>3. AddSound(l, r, Added(l, r))
    BY <2>2, AddedSound
  <2>4. Added(l, r).entries \in X
    BY <2>3 DEF AddSound
  <2> QED
    BY <2>4 DEF r
<1>4. step \in [1 .. N -> [X -> X]]
  <2> HIDE DEF X, Grown, N
  <2> QED
    BY <1>3
<1>5. entries \in X
  BY DEF AsRequested
<1>6. \A n \in 1 .. N : \A l \in X : step[n][l] = Grown(l, n)
  <2> HIDE DEF X, Grown, N
  <2> QED
    OBVIOUS
<1> HIDE DEF step
<1>7. \E f : Results(f, N, X, entries, step)
  <2> HIDE DEF X, N
  <2> QED
    BY <1>2, <1>4, <1>5, LoopExists
<1>8. PICK f : Results(f, N, X, entries, step)
  BY <1>7
<1> HIDE DEF X, Grown, N
<1>9. /\ f \in [0 .. N -> X] /\ f[0] = entries
      /\ \A n \in 1 .. N : f[n] = Grown(f[n - 1], n)
  <2>1. \A n \in 1 .. N : n - 1 \in 0 .. N
    BY <1>2
  <2> QED
    BY <1>6, <1>8, <2>1 DEF Results
<1>10. Is(f)
  <2>1. \A n \in 0 .. N : f[n] = IF n = 0 THEN entries ELSE Grown(f[n - 1], n)
    BY <1>2, <1>9
  <2> QED
    BY <1>9, <2>1
<1>11. Is(list)
  <2> HIDE DEF Is
  <2> QED
    BY <1>10
<1>12. WithFields = list[N]
  <2>1. WithFields
          = (LET l[n \in 0 .. Len(Columns)] ==
                   IF n = 0 THEN entries
                   ELSE Added(l[n - 1], FieldRequest(branch, Columns[n])).entries
             IN l[Len(Columns)])
    BY DEF WithFields
  <2> QED
    BY <1>1, <2>1 DEF N, Grown
<1> HIDE DEF list
<1>13. list[0] = entries
  BY <1>2, <1>11
<1>14. \A n \in 1 .. N : list[n] = Grown(list[n - 1], n)
  BY <1>2, <1>11
<1> QED
  BY <1>12, <1>13, <1>14 DEF N, Grown

\* All fields of the branch are there.
LEMMA WithFieldsSound ==
  ASSUME branch \in Branches, AsRequested(entries)
  PROVE  FieldsAdded(WithFields, entries, branch, Len(Fields(branch)))
<1> DEFINE N == Len(Fields(branch))
<1>1. N \in Nat /\ DOMAIN Fields(branch) = 1 .. N
  BY FieldsAssumption
<1>2. PICK list : /\ WithFields = list[N]
                  /\ list[0] = entries
                  /\ \A n \in 1 .. N :
                       list[n] = Added(list[n - 1], FieldRequest(branch, Fields(branch)[n])).entries
  BY WithFieldsLoop
<1> DEFINE B == {n \in 0 .. N : ~ FieldsAdded(list[n], entries, branch, n)}
<1> HIDE DEF N
<1> SUFFICES ASSUME B # {} PROVE FALSE
  <2>1. N \in 0 .. N
    BY <1>1
  <2> QED
    BY <1>2, <2>1 DEF N
<1>3. PICK n \in B : \A m \in B : n <= m
  <2>1. B \subseteq Nat /\ B # {}
    BY <1>1
  <2> HIDE DEF B
  <2> QED
    BY <2>1, LeastNatural
<1>4. n # 0
  <2>1. FieldsAdded(entries, entries, branch, 0)
    <3>1. \A k \in DOMAIN entries : \A i \in DOMAIN entries[k].vars :
            entries[k].vars[i] \in ToSet(entries[k].vars)
      BY DEF ToSet
    <3>2. 1 .. 0 = {}
      OBVIOUS
    <3> QED
      BY <3>1, <3>2 DEF FieldsAdded
  <2>2. ~ FieldsAdded(list[n], entries, branch, n)
    OBVIOUS
  <2> QED
    BY <1>2, <2>1, <2>2
<1>5. n - 1 \in Nat /\ n \in 1 .. N /\ (n - 1) + 1 = n /\ n - 1 \in 0 .. N /\ ~ (n <= n - 1)
  BY <1>1, <1>4
<1>6. FieldsAdded(list[n - 1], entries, branch, n - 1)
  <2>1. n - 1 \notin B
    <3> HIDE DEF B
    <3> QED
      BY <1>3, <1>5
  <2> QED
    BY <1>5, <2>1
<1>7. FieldsAdded(list[n], entries, branch, n)
  <2> DEFINE m == n - 1
  <2>1. /\ m \in Nat /\ m + 1 = n /\ m + 1 \in DOMAIN Fields(branch)
        /\ FieldsAdded(list[m], entries, branch, m)
    BY <1>1, <1>5, <1>6
  <2>2. list[n] = Added(list[m], FieldRequest(branch, Fields(branch)[n])).entries
    BY <1>2, <1>5
  <2> HIDE DEF m
  <2>3. FieldsAdded(Added(list[m], FieldRequest(branch, Fields(branch)[m + 1])).entries,
                    entries, branch, m + 1)
    BY <2>1, FieldStep
  <2> QED
    BY <2>1, <2>2, <2>3
<1> QED
  BY <1>7

\* The entry of a task that came through Init: as many columns as fields, one
\* of them for each, and none but these and what users asked for.
OneTable(e) ==
  /\ branch \in Branches /\ OverBranch(e, branch)
  /\ Len(e.vars) = Len(Fields(branch))
  /\ \A i \in DOMAIN e.vars :
       \/ e.vars[i] \in RequestedVariables
       \/ \E f \in ToSet(Fields(branch)) : e.vars[i] = FieldVariable(branch, f)
  /\ \A n \in DOMAIN Fields(branch) :
       \E i \in DOMAIN e.vars : SameVariable(e.vars[i], FieldVariable(branch, Fields(branch)[n]))
  /\ granted = <<>> =>
       \A i \in DOMAIN e.vars : e.vars[i] = FieldVariable(branch, Fields(branch)[i])

\* Without a branch nothing is added.
LEMMA NoFields ==
  ASSUME branch = NoBranch
  PROVE  Columns = <<>> /\ WithFields = entries
<1>1. Columns = <<>> /\ Len(Columns) = 0
  BY DEF Columns
<1> DEFINE Is(list) == list = [n \in 0 .. 0 |-> IF n = 0 THEN entries
                                 ELSE Added(list[n - 1], FieldRequest(branch, Columns[n])).entries]
           list == CHOOSE l : Is(l)
           f == [n \in 0 .. 0 |-> entries]
<1>2. Is(f)
  OBVIOUS
<1>3. Is(list)
  <2> HIDE DEF Is, f
  <2> QED
    BY <1>2
<1>4. WithFields = list[0]
  <2>1. WithFields
          = (LET l[n \in 0 .. Len(Columns)] ==
                   IF n = 0 THEN entries
                   ELSE Added(l[n - 1], FieldRequest(branch, Columns[n])).entries
             IN l[Len(Columns)])
    BY DEF WithFields
  <2> QED
    BY <1>1, <2>1
<1> HIDE DEF list
<1>5. list[0] = entries
  BY <1>3
<1> QED
  BY <1>1, <1>4, <1>5

LEMMA InitOkSound ==
  ASSUME branch \in Branches \cup {NoBranch}, AsRequested(entries),
         \A k \in DOMAIN entries : \A i \in DOMAIN entries[k].vars :
           entries[k].vars[i] \in RequestedVariables,
         granted = <<>> => entries = <<>>, InitOk
  PROVE  /\ WithFields \in Seq(Entry) /\ Len(WithFields) = 1
         /\ WithFields[1] \in Entry /\ ReadsNames(WithFields[1])
         /\ Accepted(WithFields[1]) /\ OneTable(WithFields[1])
<1>1. /\ \A e \in ToSet(WithFields) : Accepted(e)
      /\ Len(WithFields) = 1 /\ Len(WithFields[1].vars) = Len(Columns)
  BY DEF InitOk
<1>2. branch \in Branches
  <2> SUFFICES ASSUME branch = NoBranch PROVE FALSE
    OBVIOUS
  <2>1. Len(entries) = 1 /\ Len(entries[1].vars) = 0
    BY <1>1, NoFields
  <2>2. entries[1] \in Entry /\ entries[1].vars # <<>>
    <3>1. 1 \in DOMAIN entries
      BY <2>1 DEF AsRequested
    <3> QED
      BY <3>1 DEF AsRequested
  <2>3. entries[1].vars \in Seq(Variables)
    BY <2>2 DEF Entry
  <2> QED
    BY <2>1, <2>2, <2>3
<1> DEFINE all == WithFields
           e == all[1]
           N == Len(Fields(branch))
<1>3. N \in Nat /\ DOMAIN Fields(branch) = 1 .. N /\ Columns = Fields(branch)
  BY <1>2, FieldsAssumption DEF Columns
<1>4. FieldsAdded(all, entries, branch, N)
  BY <1>2, WithFieldsSound
<1> HIDE DEF all, N
<1>5. all \in Seq(Entry) /\ Len(all) = 1 /\ DOMAIN all = {1}
      /\ \A k \in DOMAIN all : ReadsNames(all[k]) /\ all[k].vars # <<>>
  <2>1. all \in Seq(Entry) /\ \A k \in DOMAIN all : ReadsNames(all[k]) /\ all[k].vars # <<>>
    BY <1>4 DEF FieldsAdded, AsRequested
  <2>2. Len(all) = 1
    BY <1>1 DEF all
  <2>3. DOMAIN all = 1 .. 1
    BY <2>1, <2>2
  <2> QED
    BY <2>1, <2>2, <2>3
<1>6. e \in Entry /\ ReadsNames(e) /\ Accepted(e) /\ Len(e.vars) = N /\ e.vars # <<>>
  <2>1. e \in Entry /\ ReadsNames(e) /\ e.vars # <<>> /\ e \in ToSet(all)
    BY <1>5 DEF ToSet
  <2> QED
    BY <1>1, <1>3, <2>1 DEF all, N
<1>7. e.vars \in Seq(Variables)
  <2> HIDE DEF e
  <2> QED
    BY <1>6 DEF Entry
<1>8. \A n \in 1 .. N :
        /\ OverBranch(e, branch)
        /\ \E i \in DOMAIN e.vars : SameVariable(e.vars[i], FieldVariable(branch, Fields(branch)[n]))
  <2> SUFFICES ASSUME NEW n \in 1 .. N
               PROVE  /\ OverBranch(e, branch)
                      /\ \E i \in DOMAIN e.vars :
                           SameVariable(e.vars[i], FieldVariable(branch, Fields(branch)[n]))
    OBVIOUS
  <2>1. HasField(all, branch, Fields(branch)[n])
    BY <1>4 DEF FieldsAdded
  <2> QED
    BY <1>5, <2>1 DEF HasField
<1>9. OverBranch(e, branch)
  <2>1. N # 0
    <3> HIDE DEF e
    <3> QED
      BY <1>6, <1>7
  <2>2. 1 \in 1 .. N
    BY <1>3, <2>1
  <2> QED
    BY <1>8, <2>2
<1>10. \A i \in DOMAIN e.vars :
         \/ e.vars[i] \in RequestedVariables
         \/ \E f \in ToSet(Fields(branch)) : e.vars[i] = FieldVariable(branch, f)
  <2> SUFFICES ASSUME NEW i \in DOMAIN e.vars
               PROVE  \/ e.vars[i] \in RequestedVariables
                      \/ \E f \in ToSet(Fields(branch)) : e.vars[i] = FieldVariable(branch, f)
    OBVIOUS
  <2>1. \/ \E l \in DOMAIN entries : e.vars[i] \in ToSet(entries[l].vars)
        \/ \E f \in ToSet(Fields(branch)) : e.vars[i] = FieldVariable(branch, f)
    BY <1>4, <1>5 DEF FieldsAdded
  <2>2. ASSUME NEW l \in DOMAIN entries, e.vars[i] \in ToSet(entries[l].vars)
        PROVE  e.vars[i] \in RequestedVariables
    <3>1. PICK j \in DOMAIN entries[l].vars : e.vars[i] = entries[l].vars[j]
      BY <2>2 DEF ToSet
    <3> QED
      BY <3>1
  <2> QED
    BY <2>1, <2>2
<1>11. granted = <<>> =>
         \A i \in DOMAIN e.vars : e.vars[i] = FieldVariable(branch, Fields(branch)[i])
  <2> SUFFICES ASSUME granted = <<>>
               PROVE  \A i \in DOMAIN e.vars : e.vars[i] = FieldVariable(branch, Fields(branch)[i])
    OBVIOUS
  <2>1. N # 0
    <3> HIDE DEF e
    <3> QED
      BY <1>6, <1>7
  <2>2. e.vars = [i \in 1 .. N |-> FieldVariable(branch, Fields(branch)[i])]
    BY <1>4, <2>1 DEF FieldsAdded
  <2> DEFINE vs == e.vars
  <2>3. DOMAIN vs = 1 .. N
    BY <2>2
  <2> QED
    BY <2>2, <2>3
<1> HIDE DEF e
<1>12. OneTable(e)
  BY <1>2, <1>3, <1>6, <1>8, <1>9, <1>10, <1>11 DEF OneTable, N
<1> QED
  BY <1>5, <1>6, <1>12 DEF all, e

(***************************************************************************)
(* The rows of an event                                                    *)
(***************************************************************************)
LEMMA ChannelsOfType ==
  ASSUME branch \in Branches, NEW sizes \in [ChannelBranches -> Nat]
  PROVE  ChannelsOf(sizes) \in Seq(Int)
<1> DEFINE n == IF branch \in HeaderBranches THEN 1 ELSE sizes[branch]
           s == [i \in 1 .. n |-> i - 1]
           S == {i \in 0 .. n - 1 : Selected(entries[1], [b \in {branch} |-> i])}
<1>1. n \in Nat
  BY DEF Branches
<1>2. s \in Seq(Int)
  <2> HIDE DEF n
  <2> QED
    BY <1>1
<1> HIDE DEF n, s, S
<1>3. Those(s, S) \in Seq(Int)
  BY <1>2, ThoseSound
<1> QED
  BY <1>3 DEF ChannelsOf, n, s, S

\* The candidates of an entry over one branch.
LEMMA CandidatesOfBranch ==
  ASSUME branch \in Branches, size \in [ChannelBranches -> Nat],
         NEW e \in Entry, e.names = {branch}
  PROVE  Candidates(e) = [n \in 1 .. (IF branch \in HeaderBranches THEN 1 ELSE size[branch])
                            |-> [b \in {branch} |-> n - 1]]
<1> DEFINE free == WithChannels(e.names)
<1>1. /\ free \in Seq(ChannelBranches) /\ ToSet(free) = {branch} \cap ChannelBranches
      /\ \A i, j \in DOMAIN free : free[i] = free[j] => i = j
  BY WithChannelsSound DEF IsInjective
<1> HIDE DEF free
<1>2. CASE branch \in HeaderBranches
  <2>1. ToSet(free) = {}
    BY <1>1, <1>2, AnalysisTaskAssumption
  <2>2. Len(free) = 0
    BY <1>1, <2>1 DEF ToSet
  <2>3. Candidates(e) = <<At(e, <<>>)>>
    BY <2>2 DEF Candidates, free
  <2>4. At(e, <<>>) = [b \in {branch} |-> 0]
    <3>1. DOMAIN <<>> = {}
      OBVIOUS
    <3> QED
      BY <3>1 DEF At
  <2> DEFINE f(n) == [b \in {branch} |-> n - 1]
  <2>5. f(1) = [b \in {branch} |-> 0]
    OBVIOUS
  <2> HIDE DEF f
  <2>6. <<f(1)>> = [n \in 1 .. 1 |-> f(n)]
    <3>1. <<f(1)>> \in [1 .. 1 -> {f(1)}] /\ [n \in 1 .. 1 |-> f(n)] \in [1 .. 1 -> {f(1)}]
      OBVIOUS
    <3>2. \A n \in 1 .. 1 : <<f(1)>>[n] = [k \in 1 .. 1 |-> f(k)][n]
      OBVIOUS
    <3> QED
      BY <3>1, <3>2
  <2> QED
    BY <1>2, <2>3, <2>4, <2>5, <2>6 DEF f
<1>3. CASE branch \notin HeaderBranches
  <2>1. branch \in ChannelBranches
    BY <1>3 DEF Branches
  <2>2. ToSet(free) = {branch}
    BY <1>1, <2>1
  <2>3. Len(free) = 1 /\ free[1] = branch
    <3>1. \A i \in DOMAIN free : free[i] = branch
      BY <2>2 DEF ToSet
    <3>2. \E i \in DOMAIN free : free[i] = branch
      BY <2>2 DEF ToSet
    <3>3. \A i, j \in DOMAIN free : i = j
      BY <1>1, <3>1
    <3>4. DOMAIN free = 1 .. Len(free) /\ Len(free) \in Nat
      BY <1>1
    <3>5. Len(free) # 0
      BY <3>2, <3>4
    <3>6. ~ (Len(free) > 1)
      <4> SUFFICES ASSUME Len(free) > 1 PROVE FALSE
        OBVIOUS
      <4>1. 1 \in DOMAIN free /\ 2 \in DOMAIN free
        BY <3>4
      <4> QED
        BY <3>3, <4>1
    <3>7. Len(free) = 1
      BY <3>4, <3>5, <3>6
    <3> QED
      BY <3>1, <3>4, <3>7
  <2> DEFINE g(n) == At(e, [b \in {free[1]} |-> n - 1])
  <2>4. Candidates(e) = [n \in 1 .. size[free[1]] |-> g(n)]
    BY <2>3 DEF Candidates, free
  <2>5. \A n : g(n) = [b \in {branch} |-> n - 1]
    BY <2>3 DEF At
  <2> HIDE DEF g
  <2> QED
    BY <1>3, <2>3, <2>4, <2>5
<1> QED
  BY <1>2, <1>3

\* FillValues takes the channels that pass the cut on the branch, in order.
LEMMA RowsOfChannels ==
  ASSUME EventSound, branch \in Branches,
         NEW e \in Entry, e = entries[1], e.names = {branch}, ~ Throws(e)
  PROVE  LET own == ChannelsOf(size)
         IN /\ Filled(e).rows \in Seq({Row(e, at) : at \in ToSet(Candidates(e))})
            /\ DOMAIN Filled(e).rows = DOMAIN own
            /\ \A m \in DOMAIN own : Filled(e).rows[m] = Row(e, [b \in {branch} |-> own[m]])
<1> DEFINE N == IF branch \in HeaderBranches THEN 1 ELSE size[branch]
           one(i) == [b \in {branch} |-> i]
           all == [n \in 1 .. N |-> one(n - 1)]
           T == {at \in ToSet(all) : RowOutcome(e, at) = "pass"}
           s == [i \in 1 .. N |-> i - 1]
           S == {i \in 0 .. N - 1 : Selected(e, one(i))}
           own == ChannelsOf(size)
           passing == Those(all, T)
<1>1. size \in [ChannelBranches -> Nat]
  BY DEF EventSound
<1>2. N \in Nat
  BY <1>1 DEF Branches
<1>3. Candidates(e) = all
  BY <1>1, CandidatesOfBranch
<1>4. own = Those(s, S)
  BY DEF ChannelsOf
<1>5. Filled(e) = [e EXCEPT !.rows = [n \in DOMAIN passing |-> Row(e, passing[n])]]
  BY <1>3 DEF Filled
<1> HIDE DEF N, one
<1>6. /\ s \in Seq(Int) /\ DOMAIN s = 1 .. N /\ DOMAIN all = 1 .. N
      /\ all \in Seq(ToSet(all))
      /\ \A n \in 1 .. N : /\ s[n] = n - 1 /\ all[n] = one(s[n]) /\ s[n] \in 0 .. N - 1
                            /\ all[n] \in ToSet(all)
  BY <1>2 DEF ToSet
<1>7. \A n \in DOMAIN s : s[n] \in S <=> all[n] \in T
  <2> SUFFICES ASSUME NEW n \in 1 .. N
               PROVE  Selected(e, all[n]) <=> RowOutcome(e, all[n]) = "pass"
    BY <1>6
  <2>1. RowOutcome(e, all[n]) # "throw"
    BY <1>3, <1>6 DEF Throws
  <2>2. e.names \subseteq Branches
    OBVIOUS
  <2> HIDE DEF all
  <2> QED
    BY <2>1, <2>2, RowOutcomeSound
<1> HIDE DEF s, all, S, T
<1>8. /\ DOMAIN passing = DOMAIN own
      /\ \A i \in DOMAIN own : \E n \in DOMAIN s : own[i] = s[n] /\ passing[i] = all[n]
  <2>1. s \in Seq(Int) /\ DOMAIN all = DOMAIN s
    BY <1>6
  <2>2. /\ DOMAIN Those(all, T) = DOMAIN Those(s, S)
        /\ \A i \in DOMAIN Those(s, S) :
             \E n \in DOMAIN s : Those(s, S)[i] = s[n] /\ Those(all, T)[i] = all[n]
    BY <1>7, <2>1, ThoseAlike
  <2> QED
    BY <1>4, <2>2
<1>9. \A i \in DOMAIN own : passing[i] = one(own[i])
  BY <1>6, <1>8
<1>10. passing \in Seq(ToSet(all))
  BY <1>6, ThoseSound
<1> HIDE DEF passing, own
<1>11. Filled(e).rows = [n \in DOMAIN passing |-> Row(e, passing[n])]
  BY <1>5 DEF Entry
<1>12. Filled(e).rows \in Seq({Row(e, at) : at \in ToSet(all)})
  <2>1. DOMAIN passing = 1 .. Len(passing) /\ Len(passing) \in Nat
        /\ \A n \in DOMAIN passing : passing[n] \in ToSet(all)
    BY <1>10
  <2> DEFINE X == {Row(e, at) : at \in ToSet(all)}
             rows == [n \in 1 .. Len(passing) |-> Row(e, passing[n])]
  <2>2. rows \in [1 .. Len(passing) -> X]
    BY <2>1
  <2> HIDE DEF X
  <2>3. rows \in Seq(X)
    BY <2>1, <2>2
  <2> QED
    BY <1>11, <2>1, <2>3 DEF X
<1> QED
  BY <1>3, <1>8, <1>9, <1>11, <1>12 DEF own, one

(***************************************************************************)
(* The invariant                                                           *)
(***************************************************************************)
\* Before Init the entries are what users asked for, and the tree is empty.
SetUp ==
  phase = "setup" =>
    /\ AsRequested(entries)
    /\ \A k \in DOMAIN entries : \A i \in DOMAIN entries[k].vars :
         entries[k].vars[i] \in RequestedVariables
    /\ granted = <<>> => entries = <<>>
    /\ plain = <<>> /\ filled = <<>>

\* After Init there is one entry of known columns, its cuts are initialised,
\* and the leaves are those of the columns.
RunningTask ==
  phase = "running" =>
    /\ Len(entries) = 1
    /\ OneTable(entries[1]) /\ ReadsNames(entries[1]) /\ BoundEntry(entries[1])
    /\ \A b \in entries[1].names : entries[1].cuts[b] \in ready \cup {NoCut}
    /\ leaves = Leaves([i \in DOMAIN Columns |-> entries[1].vars[i].key])

\* The entries of the tree for the rows of e at the channels chans.
PlainOf(e, chans) ==
  [m \in DOMAIN chans |-> PlainRow(Row(e, [b \in {branch} |-> chans[m]]))]

\* The rows of e at the channels chans.
AreRows(rows, e, chans) ==
  /\ DOMAIN rows = DOMAIN chans
  /\ \A m \in DOMAIN chans : rows[m] = Row(e, [b \in {branch} |-> chans[m]])

\* The plain tree has the rows of the channels of all events so far.
TreeFilled ==
  phase = "running" =>
    /\ filled \in Seq([ChannelBranches -> Nat])
    /\ plain = PlainOf(entries[1], Channels)

FillerInv ==
  /\ Shape /\ EventSound
  /\ phase # "failed"
  /\ branch \in Branches \cup {NoBranch}
  /\ SetUp
  /\ RunningTask
  /\ TreeFilled

LEMMA SetUpFrame ==
  ASSUME SetUp, UNCHANGED <<phase, entries, granted, plain, filled>>
  PROVE  SetUp'
BY DEF SetUp, AsRequested, ReadsNames, RequestedVariables

LEMMA RunningFrame ==
  ASSUME RunningTask, UNCHANGED <<phase, index, entries, granted, ready, lists, leaves>>
  PROVE  RunningTask'
<1> SUFFICES ASSUME phase = "running" PROVE RunningTask'
  BY DEF RunningTask
<1>1. /\ Len(entries) = 1
      /\ OneTable(entries[1]) /\ ReadsNames(entries[1]) /\ BoundEntry(entries[1])
      /\ \A b \in entries[1].names : entries[1].cuts[b] \in ready \cup {NoCut}
      /\ leaves = Leaves([i \in DOMAIN Columns |-> entries[1].vars[i].key])
  BY DEF RunningTask
<1>2. OneTable(entries[1])'
  BY <1>1 DEF OneTable, OverBranch, RequestedVariables, lists
<1>3. ReadsNames(entries[1])'
  BY <1>1 DEF ReadsNames
<1>4. BoundEntry(entries[1])'
  BY <1>1 DEF BoundEntry, ReadsMatch, Accepted, HasMatchInfo, GetMatchInfo
<1>5. Columns' = Columns
  BY DEF Columns, lists
<1>6. \A names : Leaves(names)' = Leaves(names)
  <2>1. Ignored' = Ignored
    BY DEF Ignored, DefaultFields, InBranch, lists
  <2> QED
    BY <1>5, <2>1 DEF Leaves, Chosen, LeafName, lists
<1> QED
  BY <1>1, <1>2, <1>3, <1>4, <1>5, <1>6 DEF RunningTask

LEMMA TreeFrame ==
  ASSUME TreeFilled, UNCHANGED <<phase, entries, branch, leaves, plain, filled>>
  PROVE  TreeFilled'
<1>1. \A sizes : ChannelsOf(sizes)' = ChannelsOf(sizes)
  BY DEF ChannelsOf
<1>2. Channels' = Channels
  BY <1>1 DEF Channels
<1> QED
  BY <1>2 DEF TreeFilled, PlainOf, PlainRow

LEMMA FillerInitInvariant == FillerInit => FillerInv
<1> SUFFICES ASSUME FillerInit PROVE FillerInv
  OBVIOUS
<1>1. /\ Init /\ branch = NoBranch /\ plain = <<>> /\ filled = <<>>
  BY DEF FillerInit
<1>2. Shape /\ EventSound
  BY <1>1, InitInvariant DEF IInv
<1>3. phase = "setup" /\ entries = <<>>
  BY <1>1 DEF Init
<1>4. SetUp
  <2>1. AsRequested(entries)
    <3>1. <<>> \in Seq(Entry) /\ DOMAIN <<>> = {}
      OBVIOUS
    <3> QED
      BY <1>3, <3>1 DEF AsRequested
  <2>2. DOMAIN entries = {}
    BY <1>3
  <2> QED
    BY <1>1, <1>3, <2>1, <2>2 DEF SetUp
<1> QED
  BY <1>1, <1>2, <1>3, <1>4 DEF FillerInv, RunningTask, TreeFilled

LEMMA FillerAddEntryInvariant ==
  ASSUME FillerInv, NEW r \in Requests, AddEntry(r), UNCHANGED <<lists, tree>>
  PROVE  FillerInv'
<1> DEFINE added == Added(entries, r)
           new == added.entries
           g == [request |-> r, entry |-> added.entry, ids |-> added.ids]
<1>1. Shape /\ EventSound /\ branch \in Branches \cup {NoBranch} /\ SetUp
  BY DEF FillerInv
<1>2. /\ phase = "setup" /\ entries' = new /\ granted' = Append(granted, g)
      /\ UNCHANGED <<phase, index, cutsMap, ready, size, matching, registered, executed>>
  BY DEF AddEntry, event
<1>3. /\ AsRequested(entries) /\ plain = <<>> /\ filled = <<>>
      /\ \A k \in DOMAIN entries : \A i \in DOMAIN entries[k].vars :
           entries[k].vars[i] \in RequestedVariables
  BY <1>1, <1>2 DEF SetUp
<1>4. entries \in Seq(Entry) /\ \A k \in DOMAIN entries : ReadsNames(entries[k])
  BY <1>3 DEF AsRequested
<1>5. AddSound(entries, r, added)
  BY <1>4, AddedSound
<1>6. granted \in Seq(Grant) /\ g \in Grant
  <2>1. added.entry \in DOMAIN added.entries /\ added.ids \in Seq(Nat)
        /\ added.entries \in Seq(Entry)
    BY <1>5 DEF AddSound
  <2>2. added.entry \in Nat
    BY <2>1
  <2> HIDE DEF added
  <2> QED
    BY <1>1, <2>1, <2>2 DEF Shape, Grant
<1> HIDE DEF added, g
<1>7. /\ granted' \in Seq(Grant) /\ Len(granted') = Len(granted) + 1 /\ Len(granted) \in Nat
      /\ granted'[Len(granted) + 1] = g
      /\ \A n \in DOMAIN granted : n \in DOMAIN granted' /\ granted'[n] = granted[n]
      /\ Len(granted) + 1 \in DOMAIN granted'
  BY <1>2, <1>6
<1>8. new \in Seq(Entry)
  BY <1>5 DEF AddSound
<1>9. Shape'
  BY <1>1, <1>2, <1>7, <1>8 DEF Shape
<1>10. RequestedVariables \subseteq RequestedVariables' /\ ToSet(r.vars) \subseteq RequestedVariables'
  <2>1. g.request = r
    BY DEF g
  <2>2. ToSet(r.vars) \subseteq RequestedVariables'
    BY <1>7, <2>1 DEF RequestedVariables
  <2>3. RequestedVariables \subseteq RequestedVariables'
    BY <1>7 DEF RequestedVariables
  <2> QED
    BY <2>2, <2>3
<1>11. ASSUME NEW k \in DOMAIN new
       PROVE  /\ ReadsNames(new[k]) /\ new[k].vars # <<>>
              /\ \A i \in DOMAIN new[k].vars : new[k].vars[i] \in RequestedVariables'
  <2>1. ReadsNames(new[k])
    BY <1>5 DEF AddSound
  <2>2. \A i \in DOMAIN new[k].vars : new[k].vars[i] \in RequestedVariables'
    <3> SUFFICES ASSUME NEW i \in DOMAIN new[k].vars
                 PROVE  new[k].vars[i] \in RequestedVariables'
      OBVIOUS
    <3>1. \/ new[k].vars[i] \in ToSet(r.vars)
          \/ k <= Len(entries) /\ new[k].vars[i] \in ToSet(entries[k].vars)
      BY <1>5 DEF AddSound
    <3>2. CASE k <= Len(entries) /\ new[k].vars[i] \in ToSet(entries[k].vars)
      <4>1. k \in DOMAIN entries
        BY <1>4, <1>8, <3>2
      <4>2. PICK j \in DOMAIN entries[k].vars : new[k].vars[i] = entries[k].vars[j]
        BY <3>2 DEF ToSet
      <4> QED
        BY <1>3, <1>10, <4>1, <4>2
    <3> QED
      BY <1>10, <3>1, <3>2
  <2> QED
    BY <2>1, <2>2, <1>3, AddedNotEmpty DEF added
<1>12. AsRequested(entries')
  BY <1>2, <1>8, <1>11 DEF AsRequested
<1>13. granted' # <<>>
  <2>1. Len(granted') # 0
    BY <1>7
  <2> QED
    BY <2>1
<1>14. SetUp'
  BY <1>2, <1>3, <1>11, <1>12, <1>13 DEF SetUp, tree, AsRequested
<1>15. EventSound'
  BY <1>1, <1>2, EventSoundFrame
<1> QED
  BY <1>1, <1>2, <1>9, <1>14, <1>15 DEF FillerInv, RunningTask, TreeFilled, lists

LEMMA FillerAddBranchCutInvariant ==
  ASSUME FillerInv, NEW c \in CutObjects, AddBranchCut(c), UNCHANGED <<lists, tree>>
  PROVE  FillerInv'
<1>1. /\ Shape /\ EventSound /\ phase # "failed" /\ branch \in Branches \cup {NoBranch}
      /\ SetUp /\ RunningTask /\ TreeFilled
  BY DEF FillerInv
<1>2. UNCHANGED <<phase, index, entries, granted, ready, size, matching, registered,
                  branch, leaves, plain, filled>>
  BY DEF AddBranchCut, event, lists, tree
<1>3. PICK b \in Branches :
        /\ CutBranches[c] = {b}
        /\ cutsMap' = [x \in DOMAIN cutsMap \cup {b} |->
                         IF x = b THEN c ELSE cutsMap[x]]
  BY DEF AddBranchCut
<1>4. Shape'
  <2>1. \A x \in DOMAIN cutsMap' :
          cutsMap'[x] \in CutObjects /\ CutBranches[cutsMap'[x]] = {x}
    BY <1>1, <1>3 DEF Shape
  <2> QED
    BY <1>1, <1>2, <2>1 DEF Shape
<1> QED
  BY <1>1, <1>2, <1>4, EventSoundFrame, SetUpFrame, RunningFrame, TreeFrame DEF FillerInv

\* The setters only change what Init will read.
LEMMA SetterInvariant ==
  ASSUME FillerInv, phase = "setup", UNCHANGED <<vars, tree>>,
         branch' \in Branches \cup {NoBranch}
  PROVE  FillerInv'
<1>1. UNCHANGED <<phase, index, entries, granted, cutsMap, ready, size, matching, registered,
                  plain, filled>>
  BY DEF vars, event, tree
<1>2. Shape'
  BY <1>1 DEF FillerInv, Shape
<1> QED
  BY <1>1, <1>2, EventSoundFrame, SetUpFrame DEF FillerInv, RunningTask, TreeFilled

\* The branch cuts there are, which the entry keeps.
LEMMA BoundCuts ==
  ASSUME NEW e \in Entry
  PROVE  Bound(e).cuts = [b \in e.names |->
                            IF b \in DOMAIN cutsMap THEN cutsMap[b] ELSE NoCut]
<1> DEFINE cs == [b \in e.names |-> IF b \in DOMAIN cutsMap THEN cutsMap[b] ELSE NoCut]
           own == [e EXCEPT !.cuts = cs]
           free == WithChannels(e.names)
           info == GetMatchInfo(free[1], free[2])
<1>1. Bound(e) = IF Len(free) # 2 THEN own
                 ELSE [own EXCEPT !.match = info.pair, !.inverted = info.inverted]
  BY DEF Bound
<1> HIDE DEF cs, free, info
<1>2. own.cuts = cs /\ [own EXCEPT !.match = info.pair, !.inverted = info.inverted].cuts = cs
  BY DEF Entry
<1>3. Bound(e).cuts = cs
  <2> HIDE DEF own
  <2> QED
    BY <1>1, <1>2
<1> QED
  BY <1>3 DEF cs

LEMMA InitFillerInvariant ==
  ASSUME FillerInv, InitFiller
  PROVE  FillerInv'
<1>1. /\ Shape /\ EventSound /\ branch \in Branches \cup {NoBranch} /\ SetUp
  BY DEF FillerInv
<1>2. /\ phase = "setup"
      /\ UNCHANGED <<index, granted, cutsMap, size, matching, registered, executed,
                     lists, plain, filled>>
  BY DEF InitFiller, event
<1>3. EventSound'
  BY <1>1, <1>2, EventSoundFrame
<1>4. /\ AsRequested(entries) /\ plain = <<>> /\ filled = <<>>
      /\ \A k \in DOMAIN entries : \A i \in DOMAIN entries[k].vars :
           entries[k].vars[i] \in RequestedVariables
      /\ granted = <<>> => entries = <<>>
  BY <1>1, <1>2 DEF SetUp
<1>5. CASE ~ InitOk
  <2>1. phase' = "rejected" /\ UNCHANGED <<entries, ready>>
    BY <1>5 DEF InitFiller
  <2>2. Shape'
    BY <1>1, <1>2, <2>1 DEF Shape
  <2> QED
    BY <1>1, <1>2, <1>3, <2>1, <2>2 DEF FillerInv, SetUp, RunningTask, TreeFilled, lists
<1>6. CASE InitOk
  <2> DEFINE all == WithFields
             e == all[1]
             f == Bound(e)
  <2>1. /\ phase' = "running"
        /\ entries' = [k \in DOMAIN all |-> Bound(all[k])]
        /\ leaves' = Leaves([i \in DOMAIN Columns |-> e.vars[i].key])
        /\ ready' = ready \cup (CutsOfEntries(all) \cup BranchCuts)
    BY <1>6 DEF InitFiller, InitialisedHere
  <2>2. /\ all \in Seq(Entry) /\ Len(all) = 1 /\ e \in Entry /\ ReadsNames(e)
        /\ Accepted(e) /\ OneTable(e)
    BY <1>1, <1>4, <1>6, InitOkSound
  <2> HIDE DEF all, e
  <2>3. /\ f \in Entry /\ f.cuts \in [e.names -> Cuts]
        /\ \A b \in e.names : f.cuts[b] \in CutObjects => CutBranches[f.cuts[b]] = {b}
        /\ LET free == WithChannels(e.names)
           IN Len(free) = 2 => /\ f.match = GetMatchInfo(free[1], free[2]).pair
                               /\ f.inverted = GetMatchInfo(free[1], free[2]).inverted
    BY <1>1, <2>2, BoundSound
  <2>4. /\ f.names = e.names /\ f.vars = e.vars /\ f.weight = e.weight /\ f.cut = e.cut
    <3>1. PICK m \in Pairs, i \in BOOLEAN :
            Bound(e) = [e EXCEPT !.cuts = Bound(e).cuts, !.match = m, !.inverted = i]
      BY <1>1, <2>2, BoundSound
    <3> DEFINE cs == f.cuts
    <3>2. f = [e EXCEPT !.cuts = cs, !.match = m, !.inverted = i]
      BY <3>1
    <3> HIDE DEF f, cs
    <3> QED
      BY <2>2, <3>2 DEF Entry
  <2>5. f.cuts = [b \in e.names |-> IF b \in DOMAIN cutsMap THEN cutsMap[b] ELSE NoCut]
    BY <2>2, BoundCuts
  <2> HIDE DEF f
  <2>6. DOMAIN all = {1} /\ e = all[1]
    BY <2>2 DEF e
  <2>7. DOMAIN entries' = {1} /\ entries'[1] = f
    BY <2>1, <2>6 DEF f
  <2>8. entries' \in Seq(Entry) /\ Len(entries') = 1
    <3> DEFINE n == Len(all)
    <3>1. n \in Nat /\ DOMAIN all = 1 .. n /\ 1 .. n = {1}
      BY <2>2
    <3> HIDE DEF n
    <3>2. \A k \in 1 .. n : entries'[k] \in Entry
      BY <2>3, <2>7, <3>1
    <3>3. entries' = [k \in 1 .. n |-> entries'[k]]
      BY <2>1, <3>1
    <3>4. entries' \in Seq(Entry)
      BY <3>1, <3>2, <3>3
    <3> QED
      BY <2>7, <3>4
  <2>9. BranchCuts \subseteq CutObjects /\ BranchCuts \subseteq ready'
    BY <1>1, <2>1 DEF BranchCuts, Shape
  <2>10. CutsOfEntries(all) \subseteq CutObjects /\ e.cut \in ready' \cup {NoCut}
    <3>1. \A k \in DOMAIN all : all[k].cut \in Cuts
      BY <2>2, <2>6 DEF Entry
    <3> QED
      BY <2>1, <2>6, <3>1 DEF CutsOfEntries, Cuts, ToSet
  <2>11. Shape'
    BY <1>1, <1>2, <2>1, <2>8, <2>9, <2>10 DEF Shape
  <2>12. OneTable(entries[1])'
    <3>1. RequestedVariables' = RequestedVariables
      BY <1>2 DEF RequestedVariables
    <3> QED
      BY <1>2, <2>2, <2>4, <2>7, <3>1 DEF OneTable, OverBranch, lists
  <2>13. ReadsNames(f)
    BY <2>2, <2>4 DEF ReadsNames
  <2>14. BoundEntry(entries[1])'
    <3>1. Accepted(entries[1])'
      BY <1>2, <2>2, <2>4, <2>7 DEF Accepted, HasMatchInfo
    <3>2. ReadsMatch(entries[1], WithChannels(entries[1].names))'
      BY <1>2, <2>3, <2>4, <2>7 DEF ReadsMatch, GetMatchInfo
    <3> QED
      BY <2>3, <2>4, <2>7, <2>10, <3>1, <3>2 DEF BoundEntry
  <2>15. \A b \in f.names : f.cuts[b] \in ready' \cup {NoCut}
    <3> SUFFICES ASSUME NEW b \in e.names PROVE f.cuts[b] \in ready' \cup {NoCut}
      BY <2>4
    <3>1. b \in DOMAIN cutsMap => cutsMap[b] \in BranchCuts
      BY DEF BranchCuts
    <3> QED
      BY <2>5, <2>9, <3>1
  <2>16. leaves' = Leaves([i \in DOMAIN Columns |-> entries[1].vars[i].key])'
    <3>1. Columns' = Columns /\ Ignored' = Ignored
      BY <1>2 DEF Columns, Ignored, DefaultFields, InBranch, lists
    <3>2. \A names : Leaves(names)' = Leaves(names)
      BY <1>2, <3>1 DEF Leaves, Chosen, LeafName, lists
    <3> QED
      BY <2>1, <2>4, <2>7, <3>1, <3>2
  <2>17. RunningTask'
    <3>1. ReadsNames(entries[1])'
      BY <2>7, <2>13 DEF ReadsNames
    <3> QED
      BY <2>1, <2>7, <2>8, <3>1, <2>12, <2>14, <2>15, <2>16
      DEF RunningTask
  <2>18. TreeFilled'
    <3>1. filled' = <<>> /\ plain' = <<>>
      BY <1>2, <1>4
    <3>2. Channels' = <<>>
      <4>1. ([k \in DOMAIN filled |-> ChannelsOf(filled[k])])' = <<>>
        BY <3>1
      <4>2. Len(<<>>) = 0 /\ FlattenSeq(<<>>) = <<>>
        BY DEF FlattenSeq
      <4> QED
        BY <4>1, <4>2 DEF Channels
    <3>3. PlainOf(entries[1], Channels)' = <<>>
      <4>1. DOMAIN <<>> = {}
        OBVIOUS
      <4> QED
        BY <3>2, <4>1 DEF PlainOf
    <3> QED
      BY <3>1, <3>3 DEF TreeFilled
  <2> QED
    BY <1>1, <1>2, <1>3, <2>1, <2>11, <2>17, <2>18 DEF FillerInv, SetUp, lists
<1> QED
  BY <1>5, <1>6

LEMMA ReadEventInvariant ==
  ASSUME FillerInv, NEW sizes \in EventSizes, ReadEvent(sizes)
  PROVE  FillerInv'
<1>1. /\ Shape /\ EventSound /\ phase # "failed" /\ branch \in Branches \cup {NoBranch}
      /\ SetUp /\ RunningTask /\ TreeFilled
  BY DEF FillerInv
<1>2. NextEvent(sizes) /\ UNCHANGED <<lists, tree>>
  BY DEF ReadEvent
<1>3. UNCHANGED <<phase, index, entries, granted, cutsMap, ready, branch, leaves, plain, filled>>
  BY <1>2 DEF NextEvent, lists, tree
<1>4. EventSound'
  BY <1>1, <1>2, NextEventSound
<1>5. Shape'
  BY <1>1, <1>3 DEF Shape
<1> QED
  BY <1>1, <1>2, <1>3, <1>4, <1>5, SetUpFrame, RunningFrame, TreeFrame DEF FillerInv

\* The rows of an event come behind those of the events before.
LEMMA PlainRowsAppended ==
  ASSUME NEW chans \in Seq(Int), NEW own \in Seq(Int), NEW rows, NEW e,
         AreRows(rows, e, own)
  PROVE  PlainOf(e, chans) \o PlainRows(rows) = PlainOf(e, chans \o own)
<1> DEFINE put(c) == PlainRow(Row(e, [b \in {branch} |-> c]))
           s == [m \in DOMAIN chans |-> put(chans[m])]
           t == [m \in DOMAIN own |-> put(own[m])]
           st == s \o t
           both == chans \o own
           X == {put(c) : c \in Int}
<1>1. PlainRows(rows) = t
  <2>1. PlainRows(rows) = [m \in DOMAIN own |-> PlainRow(rows[m])]
    BY DEF PlainRows, AreRows
  <2> QED
    BY <2>1 DEF AreRows
<1> HIDE DEF put
<1> DEFINE M == Len(chans)
           N == Len(own)
<1>2. /\ DOMAIN chans = 1 .. M /\ M \in Nat /\ DOMAIN own = 1 .. N /\ N \in Nat
      /\ \A m \in DOMAIN chans : chans[m] \in Int
      /\ \A m \in DOMAIN own : own[m] \in Int
  OBVIOUS
<1>3. s \in Seq(X) /\ Len(s) = M /\ t \in Seq(X) /\ Len(t) = N
  BY <1>2
<1>4. /\ \A m \in 1 .. M : s[m] = put(chans[m])
      /\ \A m \in 1 .. N : t[m] = put(own[m])
  BY <1>2
<1>5. /\ both \in Seq(Int) /\ Len(both) = M + N
      /\ \A m \in 1 .. M + N : both[m] = IF m <= M THEN chans[m] ELSE own[m - M]
  BY <1>2, ConcatProperties
<1> HIDE DEF s, t, X
<1>6. /\ st \in Seq(X) /\ Len(st) = M + N
      /\ \A m \in 1 .. M + N : st[m] = IF m <= M THEN s[m] ELSE t[m - M]
  <2> HIDE DEF M, N
  <2>1. s \o t \in Seq(X)
    BY <1>3, ConcatProperties
  <2>2. Len(s \o t) = Len(s) + Len(t)
    BY <1>3, ConcatProperties
  <2>3. \A m \in 1 .. Len(s) + Len(t) :
          (s \o t)[m] = IF m <= Len(s) THEN s[m] ELSE t[m - Len(s)]
    BY <1>3, ConcatProperties
  <2> QED
    BY <1>3, <2>1, <2>2, <2>3
<1> HIDE DEF both, st, M, N
<1>7. ASSUME NEW m \in 1 .. M + N
      PROVE  st[m] = put(both[m])
  <2>1. CASE m <= M
    <3>1. m \in 1 .. M
      BY <1>2, <2>1
    <3> QED
      BY <1>4, <1>5, <1>6, <2>1, <3>1
  <2>2. CASE ~ (m <= M)
    <3>1. m - M \in 1 .. N
      BY <1>2, <2>2
    <3> QED
      BY <1>4, <1>5, <1>6, <2>2, <3>1
  <2> QED
    BY <2>1, <2>2
<1>8. DOMAIN both = 1 .. M + N /\ DOMAIN st = 1 .. M + N
  BY <1>2, <1>5, <1>6
<1>9. st = [m \in DOMAIN both |-> put(both[m])]
  <2>1. st = [m \in DOMAIN st |-> st[m]]
    BY <1>6
  <2> QED
    BY <1>7, <1>8, <2>1
<1> QED
  BY <1>1, <1>9 DEF st, s, both, put, PlainOf

\* An event that is executed does not throw, and its channels are appended.
LEMMA ExecFillerInvariant ==
  ASSUME FillerInv, ExecFiller
  PROVE  FillerInv'
<1>1. /\ Shape /\ EventSound /\ phase # "failed" /\ branch \in Branches \cup {NoBranch}
      /\ SetUp /\ RunningTask /\ TreeFilled
  BY DEF FillerInv
<1>2. /\ Exec /\ phase = "running"
      /\ UNCHANGED <<index, granted, cutsMap, ready, size, matching, registered, lists, leaves>>
  BY DEF ExecFiller, Exec, event
<1> DEFINE e == entries[1]
           f == Filled(e)
           rs == f.rows
<1>3. /\ Len(entries) = 1 /\ OneTable(e) /\ ReadsNames(e) /\ BoundEntry(e)
      /\ \A b \in e.names : e.cuts[b] \in ready \cup {NoCut}
      /\ leaves = Leaves([i \in DOMAIN Columns |-> e.vars[i].key])
  BY <1>1, <1>2 DEF RunningTask
<1>4. /\ branch \in Branches /\ e.names = {branch} /\ e.weight.branches = {branch}
  BY <1>3 DEF OneTable, OverBranch
<1>5. /\ entries \in Seq(Entry) /\ DOMAIN entries = {1} /\ e \in Entry
  <2>1. entries \in Seq(Entry)
    BY <1>1 DEF Shape
  <2>2. DOMAIN entries = 1 .. 1
    BY <1>3, <2>1
  <2>3. 1 \in DOMAIN entries
    BY <2>2
  <2>4. e \in Entry
    BY <2>1, <2>3
  <2> QED
    BY <2>1, <2>2, <2>4
<1>6. ~ Throws(e)
  <2> SUFFICES ASSUME Throws(e) PROVE FALSE
    OBVIOUS
  <2>1. Explained(e)
    BY <1>1, <1>3, <1>5, ThrowsExplained
  <2> QED
    BY <1>3, <1>4, <2>1 DEF Explained
<1>7. /\ entries' = [k \in DOMAIN entries |-> Filled(entries[k])]
      /\ phase' = phase
  <2>1. ~ \E k \in DOMAIN entries : Throws(entries[k])
    BY <1>5, <1>6
  <2> QED
    BY <1>2, <2>1 DEF Exec
<1>8. DOMAIN entries' = {1} /\ entries'[1] = f
  BY <1>5, <1>7
<1>9. /\ plain' = plain \o PlainRows(rs)
      /\ filled' = Append(filled, size)
  BY <1>2, <1>7, <1>8 DEF ExecFiller
<1>10. f \in Entry /\ f = [e EXCEPT !.rows = rs]
  BY <1>1, <1>3, <1>5, <1>6, FilledSound
<1> DEFINE own == ChannelsOf(size)
<1>11. /\ rs \in Seq({Row(e, at) : at \in ToSet(Candidates(e))})
       /\ DOMAIN rs = DOMAIN own
       /\ \A m \in DOMAIN own : rs[m] = Row(e, [b \in {branch} |-> own[m]])
  BY <1>1, <1>4, <1>5, <1>6, RowsOfChannels
<1> HIDE DEF f, rs
<1>12. /\ f.names = e.names /\ f.vars = e.vars /\ f.weight = e.weight /\ f.cut = e.cut
       /\ f.cuts = e.cuts /\ f.match = e.match /\ f.inverted = e.inverted
  <2> HIDE DEF e
  <2> QED
    BY <1>5, <1>10 DEF Entry
<1>13. entries' \in Seq(Entry) /\ Len(entries') = 1
  <2> DEFINE n == Len(entries)
  <2>1. n \in Nat /\ DOMAIN entries = 1 .. n /\ 1 .. n = {1}
    BY <1>3, <1>5
  <2> HIDE DEF n
  <2>2. \A k \in 1 .. n : entries'[k] \in Entry
    BY <1>8, <1>10, <2>1
  <2>3. entries' = [k \in 1 .. n |-> entries'[k]]
    BY <1>7, <2>1
  <2>4. entries' \in Seq(Entry)
    BY <2>1, <2>2, <2>3
  <2> QED
    BY <1>8, <2>4
<1>14. Shape'
  BY <1>1, <1>2, <1>7, <1>13 DEF Shape
<1>15. EventSound'
  BY <1>1, <1>2, EventSoundFrame
<1>16. RunningTask'
  <2> HIDE DEF e
  <2>1. OneTable(entries[1])'
    <3>1. RequestedVariables' = RequestedVariables
      BY <1>2 DEF RequestedVariables
    <3> QED
      BY <1>2, <1>3, <1>8, <1>12, <3>1 DEF OneTable, OverBranch, lists
  <2>2. ReadsNames(entries[1])'
    BY <1>3, <1>8, <1>12 DEF ReadsNames
  <2>3. BoundEntry(entries[1])'
    <3>1. Accepted(entries[1])'
      BY <1>2, <1>3, <1>8, <1>12 DEF BoundEntry, Accepted, HasMatchInfo
    <3>2. ReadsMatch(entries[1], WithChannels(entries[1].names))'
      BY <1>2, <1>3, <1>8, <1>12 DEF BoundEntry, ReadsMatch, GetMatchInfo
    <3> QED
      BY <1>2, <1>3, <1>8, <1>12, <3>1, <3>2 DEF BoundEntry
  <2>4. leaves' = Leaves([i \in DOMAIN Columns |-> entries[1].vars[i].key])'
    <3>1. Columns' = Columns /\ Ignored' = Ignored
      BY <1>2 DEF Columns, Ignored, DefaultFields, InBranch, lists
    <3>2. \A names : Leaves(names)' = Leaves(names)
      BY <1>2, <3>1 DEF Leaves, Chosen, LeafName, lists
    <3> QED
      BY <1>2, <1>3, <1>8, <1>12, <3>1, <3>2
  <2> QED
    BY <1>2, <1>3, <1>8, <1>12, <1>13, <2>1, <2>2, <2>3, <2>4 DEF RunningTask
<1>17. TreeFilled'
  <2> DEFINE css == [k \in DOMAIN filled |-> ChannelsOf(filled[k])]
             chans == Channels
             new == filled'
  <2>1. /\ filled \in Seq([ChannelBranches -> Nat])
        /\ plain = PlainOf(e, chans)
    BY <1>1, <1>2 DEF TreeFilled
  <2>2. size \in [ChannelBranches -> Nat]
    BY <1>1 DEF EventSound
  <2>3. /\ new \in Seq([ChannelBranches -> Nat]) /\ Len(filled) \in Nat
        /\ DOMAIN filled = 1 .. Len(filled) /\ DOMAIN new = 1 .. Len(filled) + 1
        /\ \A k \in DOMAIN filled : new[k] = filled[k]
        /\ new[Len(filled) + 1] = size
    BY <1>9, <2>1, <2>2
  <2>4. own \in Seq(Int) /\ \A k \in DOMAIN filled : ChannelsOf(filled[k]) \in Seq(Int)
    BY <1>4, <2>1, <2>2, ChannelsOfType
  <2>5. css \in Seq(Seq(Int)) /\ Len(css) = Len(filled)
    BY <2>3, <2>4
  <2>6. \A sizes : ChannelsOf(sizes)' = ChannelsOf(sizes)
    <3>1. \A at : Selected(entries[1], at)' = Selected(entries[1], at)
      BY <1>8, <1>12 DEF Selected
    <3> QED
      BY <1>2, <3>1 DEF ChannelsOf, lists
  <2> HIDE DEF own, css
  <2> DEFINE all == [k \in DOMAIN new |-> ChannelsOf(new[k])]
  <2>7. all = Append(css, own)
    <3>1. Append(css, own) \in Seq(Seq(Int)) /\ DOMAIN Append(css, own) = 1 .. Len(filled) + 1
          /\ Append(css, own)[Len(filled) + 1] = own
          /\ \A k \in 1 .. Len(filled) : Append(css, own)[k] = css[k]
      BY <2>3, <2>4, <2>5
    <3>2. \A k \in DOMAIN filled : css[k] = ChannelsOf(filled[k])
      BY DEF css
    <3>3. \A k \in 1 .. Len(filled) + 1 : Append(css, own)[k] = ChannelsOf(new[k])
      <4> SUFFICES ASSUME NEW k \in 1 .. Len(filled) + 1
                   PROVE  Append(css, own)[k] = ChannelsOf(new[k])
        OBVIOUS
      <4>1. CASE k = Len(filled) + 1
        BY <2>3, <3>1, <4>1 DEF own
      <4>2. CASE k # Len(filled) + 1
        <5>1. k \in 1 .. Len(filled)
          BY <2>3, <4>2
        <5> QED
          BY <2>3, <3>1, <3>2, <5>1
      <4> QED
        BY <4>1, <4>2
    <3> DEFINE app == Append(css, own)
    <3> HIDE DEF app
    <3>4. app \in Seq(Seq(Int)) /\ DOMAIN app = DOMAIN new
          /\ \A k \in DOMAIN new : app[k] = ChannelsOf(new[k])
      BY <2>3, <3>1, <3>3 DEF app
    <3>5. app = [k \in DOMAIN app |-> app[k]]
      BY <3>4
    <3>6. app = all
      BY <3>4, <3>5
    <3> QED
      BY <3>6 DEF app
  <2>8. Channels' = FlattenSeq(all)
    BY <2>6 DEF Channels
  <2>9. chans = FlattenSeq(css)
    BY DEF Channels, css
  <2> HIDE DEF all, chans, new
  <2>10. chans \in Seq(Int) /\ Channels' = chans \o own
    <3>1. FlattenSeq(css) \in Seq(Int) /\ FlattenSeq(Append(css, own)) = FlattenSeq(css) \o own
      BY <2>4, <2>5, FlattenAppend
    <3> QED
      BY <2>7, <2>8, <2>9, <3>1
  <2>11. AreRows(rs, e, own)
    BY <1>11 DEF own, AreRows
  <2> HIDE DEF e
  <2>13. PlainOf(e, chans) \o PlainRows(rs) = PlainOf(e, chans \o own)
    <3> HIDE DEF chans, own, rs
    <3>1. chans \in Seq(Int) /\ own \in Seq(Int)
      BY <2>4, <2>10
    <3> QED
      BY <3>1, <2>11, PlainRowsAppended
  <2>14. plain' = PlainOf(e, chans \o own)
    BY <1>9, <2>1, <2>13
  <2>15. \A c : Row(entries[1], [b \in {branch} |-> c])' = Row(e, [b \in {branch} |-> c])
    BY <1>2, <1>8, <1>12 DEF Row, lists
  <2>16. \A x : PlainRow(x)' = PlainRow(x)
    BY <1>2 DEF PlainRow
  <2>17. plain' = PlainOf(entries[1], Channels)'
    BY <2>10, <2>14, <2>15, <2>16 DEF PlainOf
  <2> QED
    BY <2>3, <2>17 DEF TreeFilled, new
<1> QED
  BY <1>1, <1>2, <1>7, <1>14, <1>15, <1>16, <1>17 DEF FillerInv, SetUp, lists

LEMMA FinishInvariant ==
  ASSUME FillerInv, Finish
  PROVE  FillerInv'
<1>1. /\ Shape /\ EventSound /\ phase # "failed" /\ branch \in Branches \cup {NoBranch}
      /\ SetUp /\ RunningTask /\ TreeFilled
  BY DEF FillerInv
<1>2. UNCHANGED <<phase, index, entries, granted, cutsMap, ready, size, matching, registered,
                  branch, lists, leaves, plain, filled>>
  BY DEF Finish, vars, event, lists
<1>3. Shape'
  BY <1>1, <1>2 DEF Shape
<1> QED
  BY <1>1, <1>2, <1>3, EventSoundFrame, SetUpFrame, RunningFrame, TreeFrame DEF FillerInv

LEMMA FillerStutterInvariant ==
  ASSUME FillerInv, UNCHANGED fillerVars
  PROVE  FillerInv'
<1>1. /\ Shape /\ EventSound /\ phase # "failed" /\ branch \in Branches \cup {NoBranch}
      /\ SetUp /\ RunningTask /\ TreeFilled
  BY DEF FillerInv
<1>2. UNCHANGED <<phase, index, entries, granted, cutsMap, ready, size, matching, registered,
                  branch, lists, leaves, plain, filled>>
  BY DEF fillerVars, vars, event, lists, tree
<1>3. Shape'
  BY <1>1, <1>2 DEF Shape
<1> QED
  BY <1>1, <1>2, <1>3, EventSoundFrame, SetUpFrame, RunningFrame, TreeFrame DEF FillerInv

LEMMA FillerNextInvariant == FillerInv /\ [FillerNext]_fillerVars => FillerInv'
<1> SUFFICES ASSUME FillerInv, [FillerNext]_fillerVars PROVE FillerInv'
  OBVIOUS
<1>1. CASE (\E r \in Requests : AddEntry(r)) /\ UNCHANGED <<lists, tree>>
  BY <1>1, FillerAddEntryInvariant
<1>2. CASE (\E c \in CutObjects : AddBranchCut(c)) /\ UNCHANGED <<lists, tree>>
  BY <1>2, FillerAddBranchCutInvariant
<1>3. CASE \E b \in Branches : AddBranch(b)
  <2>1. phase = "setup" /\ UNCHANGED <<vars, tree>> /\ branch' \in Branches
    BY <1>3 DEF AddBranch
  <2> QED
    BY <2>1, SetterInvariant
<1>4. CASE \E names \in FieldLists : SetFieldsToIgnore(names) \/ SetFieldsToPreserve(names)
  <2>1. phase = "setup" /\ UNCHANGED <<vars, tree, branch>>
    BY <1>4 DEF SetFieldsToIgnore, SetFieldsToPreserve
  <2> QED
    BY <2>1, SetterInvariant DEF FillerInv
<1>5. CASE \E is \in BOOLEAN :
             SetIsIgnoreDefaultFields(is) \/ SetIsPrependLeavesWithBranchName(is)
  <2>1. phase = "setup" /\ UNCHANGED <<vars, tree, branch>>
    BY <1>5 DEF SetIsIgnoreDefaultFields, SetIsPrependLeavesWithBranchName
  <2> QED
    BY <2>1, SetterInvariant DEF FillerInv
<1>6. CASE InitFiller
  BY <1>6, InitFillerInvariant
<1>7. CASE \E sizes \in EventSizes : ReadEvent(sizes)
  BY <1>7, ReadEventInvariant
<1>8. CASE ExecFiller
  BY <1>8, ExecFillerInvariant
<1>9. CASE Finish
  BY <1>9, FinishInvariant
<1>10. CASE UNCHANGED fillerVars
  BY <1>10, FillerStutterInvariant
<1> QED
  BY <1>1, <1>2, <1>3, <1>4, <1>5, <1>6, <1>7, <1>8, <1>9, <1>10 DEF FillerNext

\* The shape of the task, its entry and its tree in every state.
THEOREM FillerInvariance == FillerSpec => []FillerInv
  BY FillerInitInvariant, FillerNextInvariant, PTL DEF FillerSpec

(***************************************************************************)
(* The leaves                                                              *)
(***************************************************************************)
\* p[n] is the column of the n-th field.
ColumnOf(p, e) ==
  LET N == Len(Fields(branch))
  IN /\ p \in [1 .. N -> 1 .. N] /\ IsInjective(p)
     /\ \A n \in 1 .. N : e.vars[p[n]].key = <<branch, Fields(branch)[n].name>>
     /\ \A i \in 1 .. N : \E n \in 1 .. N : p[n] = i

\* As many columns as fields and one for each: every column is of one field.
LEMMA FieldColumns ==
  ASSUME NEW e, e.vars \in Seq(Variables), OneTable(e)
  PROVE  \E p : ColumnOf(p, e)
<1> DEFINE N == Len(Fields(branch))
           Same(i, n) == SameVariable(e.vars[i], FieldVariable(branch, Fields(branch)[n]))
           p == [n \in 1 .. N |-> CHOOSE i \in 1 .. N : Same(i, n)]
<1>1. /\ branch \in Branches /\ Len(e.vars) = N
      /\ \A n \in DOMAIN Fields(branch) : \E i \in DOMAIN e.vars : Same(i, n)
  BY DEF OneTable
<1>2. N \in Nat /\ DOMAIN Fields(branch) = 1 .. N /\ DOMAIN e.vars = 1 .. N
  BY <1>1, FieldsAssumption
<1>3. \A i, n, k : Same(i, n) /\ Same(i, k)
        => SameVariable(FieldVariable(branch, Fields(branch)[n]),
                        FieldVariable(branch, Fields(branch)[k]))
  BY DEF SameVariable
<1>4. \A i, n : Same(i, n) => e.vars[i].key = <<branch, Fields(branch)[n].name>>
  BY DEF SameVariable, FieldVariable
<1> HIDE DEF N, Same
<1>5. \A n \in 1 .. N : p[n] \in 1 .. N /\ Same(p[n], n)
  BY <1>1, <1>2
<1>6. p \in [1 .. N -> 1 .. N]
  BY <1>5
<1> HIDE DEF p
<1>7. IsInjective(p)
  <2> SUFFICES ASSUME NEW n \in 1 .. N, NEW k \in 1 .. N, p[n] = p[k] PROVE n = k
    BY <1>6 DEF IsInjective
  <2>1. Same(p[n], n) /\ Same(p[n], k) /\ n \in DOMAIN Fields(branch) /\ k \in DOMAIN Fields(branch)
    BY <1>2, <1>5
  <2>2. SameVariable(FieldVariable(branch, Fields(branch)[n]),
                     FieldVariable(branch, Fields(branch)[k]))
    BY <1>3, <2>1
  <2> QED
    BY <1>1, <2>1, <2>2, FieldsDiffer
<1>8. \A i \in 1 .. N : \E n \in 1 .. N : p[n] = i
  <2>1. p \in Injection(1 .. N, 1 .. N)
    BY <1>6, <1>7 DEF Injection
  <2>2. IsFiniteSet(1 .. N)
    BY <1>2, FS_Interval
  <2>3. p \in Surjection(1 .. N, 1 .. N)
    BY <2>1, <2>2, FS_Injection
  <2> QED
    BY <2>3 DEF Surjection
<1> QED
  BY <1>4, <1>5, <1>6, <1>7, <1>8 DEF ColumnOf, N

\* The leaves of a running task, in terms of the columns of its entry.
LEMMA LeavesOfColumns ==
  ASSUME FillerInv, phase = "running"
  PROVE  LET e == entries[1]
             N == Len(Fields(branch))
             S == {i \in 1 .. N : Chosen(e.vars[i].key)}
         IN /\ branch \in Branches /\ e \in Entry /\ OneTable(e)
            /\ N \in Nat /\ DOMAIN Fields(branch) = 1 .. N /\ Columns = Fields(branch)
            /\ e.vars \in Seq(Variables) /\ DOMAIN e.vars = 1 .. N
            /\ IsFiniteSet(S) /\ Cardinality(S) \in Nat
            /\ DOMAIN leaves = 1 .. Cardinality(S) /\ Len(leaves) = Cardinality(S)
            /\ \A n \in DOMAIN leaves :
                 /\ leaves[n].column \in S
                 /\ leaves[n].name = LeafName(e.vars[leaves[n].column].key)
                 /\ leaves[n].type = Fields(branch)[leaves[n].column].type
            /\ \A i \in S : \E n \in DOMAIN leaves : leaves[n].column = i
<1> DEFINE e == entries[1]
           N == Len(Fields(branch))
           names == [i \in DOMAIN Columns |-> e.vars[i].key]
           S == {i \in 1 .. N : Chosen(e.vars[i].key)}
<1>1. /\ Len(entries) = 1 /\ OneTable(e) /\ leaves = Leaves(names) /\ entries \in Seq(Entry)
  BY DEF FillerInv, RunningTask, Shape
<1>2. e \in Entry
  <2>1. 1 \in DOMAIN entries
    BY <1>1
  <2> QED
    BY <1>1, <2>1
<1>3. e.vars \in Seq(Variables)
  <2> HIDE DEF e
  <2> QED
    BY <1>2 DEF Entry
<1>4. branch \in Branches /\ Len(e.vars) = N
  BY <1>1 DEF OneTable
<1>5. N \in Nat /\ DOMAIN Fields(branch) = 1 .. N /\ Columns = Fields(branch)
  BY <1>4, FieldsAssumption DEF Columns
<1>6. DOMAIN e.vars = 1 .. N
  BY <1>3, <1>4
<1> HIDE DEF e, N
<1>7. IsFiniteSet(S) /\ S \subseteq Int
  <2>1. IsFiniteSet(1 .. N)
    BY <1>5, FS_Interval
  <2> QED
    BY <1>5, <2>1, FS_Subset
<1>8. {i \in DOMAIN names : Chosen(names[i])} = S
  BY <1>5
<1> DEFINE chosen == Ascending(S)
           own == [n \in DOMAIN chosen |->
                     [name   |-> LeafName(names[chosen[n]]),
                      type   |-> Columns[chosen[n]].type,
                      column |-> chosen[n]]]
<1>9. leaves = own
  BY <1>1, <1>8 DEF Leaves
<1> HIDE DEF S
<1>10. /\ Cardinality(S) \in Nat /\ DOMAIN chosen = 1 .. Cardinality(S)
       /\ \A n \in DOMAIN chosen : chosen[n] \in S
       /\ \A i \in S : \E n \in DOMAIN chosen : chosen[n] = i
  BY <1>7, AscendingSound
<1> HIDE DEF chosen
<1>11. DOMAIN own = DOMAIN chosen /\ Len(own) = Cardinality(S)
  BY <1>10
<1>12. \A i \in S : names[i] = e.vars[i].key
  BY <1>5 DEF S
<1>13. \A n \in DOMAIN own :
         /\ own[n].column = chosen[n]
         /\ own[n].name = LeafName(names[chosen[n]])
         /\ own[n].type = Columns[chosen[n]].type
  OBVIOUS
<1> HIDE DEF own, names
<1>14. /\ DOMAIN leaves = 1 .. Cardinality(S) /\ Len(leaves) = Cardinality(S)
       /\ \A n \in DOMAIN leaves :
            /\ leaves[n].column \in S
            /\ leaves[n].name = LeafName(e.vars[leaves[n].column].key)
            /\ leaves[n].type = Fields(branch)[leaves[n].column].type
       /\ \A i \in S : \E n \in DOMAIN leaves : leaves[n].column = i
  BY <1>5, <1>9, <1>10, <1>11, <1>12, <1>13
<1> QED
  BY <1>1, <1>2, <1>3, <1>4, <1>5, <1>6, <1>7, <1>10, <1>14 DEF e, N, S

\* A leaf's name tells its field.
LEMMA LeafNamesDiffer ==
  ASSUME NEW b, NEW x, NEW y, LeafName(<<b, x>>) = LeafName(<<b, y>>)
  PROVE  x = y
<1>1. <<b, x>>[2] = x /\ <<b, y>>[2] = y
  OBVIOUS
<1>2. CASE prepend
  <2>1. <<b, x>> = <<b, y>>
    BY <1>2 DEF LeafName
  <2> QED
    BY <1>1, <2>1
<1>3. CASE ~ prepend
  <2>1. <<x>> = <<y>>
    BY <1>1, <1>3 DEF LeafName
  <2>2. <<x>>[1] = x /\ <<y>>[1] = y
    OBVIOUS
  <2> QED
    BY <2>1, <2>2
<1> QED
  BY <1>2, <1>3

\* The channels of the events so far.
LEMMA ChannelsType ==
  ASSUME branch \in Branches, filled \in Seq([ChannelBranches -> Nat])
  PROVE  Channels \in Seq(Int)
<1> DEFINE css == [k \in DOMAIN filled |-> ChannelsOf(filled[k])]
<1>1. DOMAIN filled = 1 .. Len(filled) /\ Len(filled) \in Nat
      /\ \A k \in DOMAIN filled : ChannelsOf(filled[k]) \in Seq(Int)
  BY ChannelsOfType
<1>2. css \in Seq(Seq(Int))
  BY <1>1
<1>3. Channels = FlattenSeq(css)
  BY DEF Channels
<1> HIDE DEF css
<1>4. <<>> \in Seq(Int)
  OBVIOUS
<1> QED
  BY <1>2, <1>3, <1>4, FlattenAppend

\* What a column of a field holds at a channel.
LEMMA ColumnValue ==
  ASSUME NEW e \in Entry, OneTable(e), NEW c \in DOMAIN e.vars,
         NEW f \in ToSet(Fields(branch)),
         e.vars[c].key = <<branch, f.name>>,
         \A v \in RequestedVariables :
           SameVariable(v, FieldVariable(branch, f)) => v.fn = "first",
         NEW at
  PROVE  Value(e.vars[c], at) = Value(FieldVariable(branch, f), at)
<1> DEFINE v == e.vars[c]
           w == FieldVariable(branch, f)
<1>1. branch \in Branches
  BY DEF OneTable
<1>2. w.key = <<branch, f.name>> /\ w.branches = {branch} /\ w.fn = "first"
  BY DEF FieldVariable
<1>3. v.key = w.key /\ SameVariable(v, w)
  BY <1>2 DEF SameVariable
<1>4. v.branches = w.branches
  <2>1. e.vars \in Seq(Variables)
    BY DEF Entry
  <2>2. v \in Variables
    BY <2>1
  <2>3. w \in Variables
    BY <1>1, FieldRequestSound
  <2> HIDE DEF v, w
  <2> QED
    BY <1>3, <2>2, <2>3, RequestsAssumption
<1>5. v.fn = w.fn
  <2>1. v \in RequestedVariables \/ \E g \in ToSet(Fields(branch)) : v = FieldVariable(branch, g)
    BY DEF OneTable
  <2>2. CASE v \in RequestedVariables
    BY <1>2, <1>3, <2>2
  <2>3. CASE \E g \in ToSet(Fields(branch)) : v = FieldVariable(branch, g)
    BY <1>2, <2>3 DEF FieldVariable
  <2> QED
    BY <2>1, <2>2, <2>3
<1> HIDE DEF v, w
<1> QED
  BY <1>3, <1>4, <1>5 DEF Value, v, w

LEMMA InvPlainTreeHolds == FillerInv => PlainTreeHolds
<1> SUFFICES ASSUME FillerInv PROVE PlainTreeHolds
  OBVIOUS
<1>1. phase # "failed"
  BY DEF FillerInv
<1> DEFINE FieldHeld(m, n) ==
      LET f == FieldOfLeaf(n)
      IN /\ (\A v \in RequestedVariables :
                SameVariable(v, FieldVariable(branch, f)) => v.fn = "first") =>
              plain[m][n][3] =
                Value(FieldVariable(branch, f), [b \in {branch} |-> Channels[m]])
         /\ granted = <<>> => plain[m][n][2] = f.type
<1>2. ASSUME phase = "running"
      PROVE  Len(plain) = Len(Channels) /\ \A m \in DOMAIN plain : \A n \in DOMAIN leaves : FieldHeld(m, n)
  <2> DEFINE e == entries[1]
             N == Len(Fields(branch))
             S == {i \in 1 .. N : Chosen(e.vars[i].key)}
  <2>1. /\ branch \in Branches /\ e \in Entry /\ OneTable(e)
        /\ N \in Nat /\ DOMAIN Fields(branch) = 1 .. N
        /\ e.vars \in Seq(Variables) /\ DOMAIN e.vars = 1 .. N
        /\ \A n \in DOMAIN leaves :
             /\ leaves[n].column \in S
             /\ leaves[n].name = LeafName(e.vars[leaves[n].column].key)
             /\ leaves[n].type = Fields(branch)[leaves[n].column].type
    BY <1>2, LeavesOfColumns
  <2> HIDE DEF e
  <2>2. PICK p : /\ p \in [1 .. N -> 1 .. N]
                 /\ \A n \in 1 .. N : e.vars[p[n]].key = <<branch, Fields(branch)[n].name>>
                 /\ \A i \in 1 .. N : \E n \in 1 .. N : p[n] = i
    <3>1. PICK p : ColumnOf(p, e)
      BY <2>1, FieldColumns
    <3> QED
      BY <3>1 DEF ColumnOf
  <2> HIDE DEF N
  <2>3. filled \in Seq([ChannelBranches -> Nat]) /\ plain = PlainOf(e, Channels)
    BY <1>2 DEF FillerInv, TreeFilled, e
  <2>4. Channels \in Seq(Int)
    BY <2>1, <2>3, ChannelsType
  <2> DEFINE chans == Channels
             row(m) == PlainRow(Row(e, [b \in {branch} |-> chans[m]]))
  <2>5. plain = [m \in DOMAIN chans |-> row(m)]
    BY <2>3 DEF PlainOf
  <2>6. chans \in Seq(Int)
    BY <2>4
  <2> HIDE DEF chans, row
  <2>7. Len(plain) = Len(chans) /\ DOMAIN plain = DOMAIN chans
        /\ \A m \in DOMAIN plain : plain[m] = row(m)
    <3>1. DOMAIN chans = 1 .. Len(chans) /\ Len(chans) \in Nat
      BY <2>6
    <3> QED
      BY <2>5, <3>1
  <2>8. ASSUME NEW m \in DOMAIN plain, NEW n \in DOMAIN leaves
        PROVE  FieldHeld(m, n)
    <3> DEFINE c == leaves[n].column
               at == [b \in {branch} |-> chans[m]]
    <3>1. c \in 1 .. N /\ leaves[n].name = LeafName(e.vars[c].key)
          /\ leaves[n].type = Fields(branch)[c].type
      BY <2>1
    <3> HIDE DEF c
    <3>2. PICK k \in 1 .. N : e.vars[c].key = <<branch, Fields(branch)[k].name>>
      BY <2>2, <3>1
    <3> DEFINE f == FieldOfLeaf(n)
               g == Fields(branch)[k]
    <3>3. g \in ToSet(Fields(branch)) /\ LeafName(<<branch, g.name>>) = leaves[n].name
      BY <2>1, <3>1, <3>2 DEF ToSet
    <3>4. f \in ToSet(Fields(branch)) /\ LeafName(<<branch, f.name>>) = leaves[n].name
      BY <3>3 DEF FieldOfLeaf
    <3>5. f.name = g.name
      <4> HIDE DEF f, g
      <4> QED
        BY <3>3, <3>4, LeafNamesDiffer
    <3>6. f = g
      <4>1. PICK j \in 1 .. N : f = Fields(branch)[j]
        BY <2>1, <3>4 DEF ToSet
      <4>2. j = k
        BY <2>1, <3>5, <4>1, FieldsAssumption
      <4> QED
        BY <4>1, <4>2
    <3>7. /\ plain[m][n][2] = leaves[n].type
          /\ plain[m][n][3] = Value(e.vars[c], at)
      <4> DEFINE r == Row(e, at)
      <4>1. plain[m] = PlainRow(r)
        BY <2>7 DEF row
      <4>2. r.values[c] = Value(e.vars[c], at)
        BY <2>1, <3>1 DEF Row
      <4> HIDE DEF r
      <4>3. plain[m][n] = <<leaves[n].name, leaves[n].type, r.values[c]>>
        BY <4>1 DEF PlainRow, c
      <4> QED
        BY <4>2, <4>3
    <3>8. granted = <<>> => leaves[n].type = f.type
      <4> SUFFICES ASSUME granted = <<>> PROVE leaves[n].type = f.type
        OBVIOUS
      <4>1. e.vars[c] = FieldVariable(branch, Fields(branch)[c])
        BY <2>1, <3>1 DEF OneTable
      <4>2. Fields(branch)[c].name = g.name
        BY <3>2, <4>1 DEF FieldVariable
      <4>3. c = k
        BY <2>1, <3>1, <4>2, FieldsAssumption
      <4> QED
        BY <3>1, <3>6, <4>3
    <3> HIDE DEF f, g
    <3>9. ASSUME \A v \in RequestedVariables :
                   SameVariable(v, FieldVariable(branch, f)) => v.fn = "first"
          PROVE  Value(e.vars[c], at) = Value(FieldVariable(branch, f), at)
      <4> HIDE DEF at
      <4>1. c \in DOMAIN e.vars /\ e.vars[c].key = <<branch, f.name>>
        BY <2>1, <3>1, <3>2, <3>6 DEF g
      <4> QED
        BY <2>1, <3>4, <3>9, <4>1, ColumnValue
    <3> QED
      BY <3>7, <3>8, <3>9 DEF f, chans
  <2> QED
    BY <2>7, <2>8 DEF chans
<1> QED
  BY <1>1, <1>2 DEF PlainTreeHolds

LEMMA InvLeavesChosen == FillerInv => LeavesChosen
<1> SUFFICES ASSUME FillerInv, phase = "running" PROVE LeavesChosen
  BY DEF LeavesChosen
<1> DEFINE e == entries[1]
           N == Len(Fields(branch))
           S == {i \in 1 .. N : Chosen(e.vars[i].key)}
           T == {n \in 1 .. N : Chosen(<<branch, Fields(branch)[n].name>>)}
           wanted == {f \in ToSet(Fields(branch)) :
                        /\ <<branch, f.name>> \notin ignore
                        /\ ~(ignoreDefault /\ f.id < 0)
                        /\ preserve # {} => <<branch, f.name>> \in preserve}
<1>1. /\ branch \in Branches /\ OneTable(e)
      /\ N \in Nat /\ DOMAIN Fields(branch) = 1 .. N
      /\ e.vars \in Seq(Variables) /\ DOMAIN e.vars = 1 .. N
      /\ IsFiniteSet(S) /\ Cardinality(S) \in Nat
      /\ DOMAIN leaves = 1 .. Cardinality(S) /\ Len(leaves) = Cardinality(S)
      /\ \A n \in DOMAIN leaves :
           /\ leaves[n].column \in S
           /\ leaves[n].name = LeafName(e.vars[leaves[n].column].key)
      /\ \A i \in S : \E n \in DOMAIN leaves : leaves[n].column = i
  BY LeavesOfColumns
<1> HIDE DEF e
<1>2. PICK p : /\ p \in [1 .. N -> 1 .. N]
               /\ IsInjective(p)
               /\ \A n \in 1 .. N : e.vars[p[n]].key = <<branch, Fields(branch)[n].name>>
               /\ \A i \in 1 .. N : \E n \in 1 .. N : p[n] = i
  <2>1. PICK p : ColumnOf(p, e)
    BY <1>1, FieldColumns
  <2> QED
    BY <2>1 DEF ColumnOf
<1>3. \A f \in ToSet(Fields(branch)) :
        f.name \in DefaultFields <=> f.id < 0
  <2> SUFFICES ASSUME NEW f \in ToSet(Fields(branch)) PROVE f.name \in DefaultFields <=> f.id < 0
    OBVIOUS
  <2>1. ASSUME NEW g \in ToSet(Fields(branch)), g.name = f.name PROVE g = f
    <3>1. PICK i \in DOMAIN Fields(branch), j \in DOMAIN Fields(branch) :
            f = Fields(branch)[i] /\ g = Fields(branch)[j]
      BY DEF ToSet
    <3> QED
      BY <1>1, <2>1, <3>1, FieldsAssumption
  <2> QED
    BY <2>1 DEF DefaultFields
<1>4. \A f \in ToSet(Fields(branch)) :
        f \in wanted <=> Chosen(<<branch, f.name>>)
  <2> SUFFICES ASSUME NEW f \in ToSet(Fields(branch))
               PROVE  f \in wanted <=> Chosen(<<branch, f.name>>)
    OBVIOUS
  <2>1. <<branch, f.name>> \in InBranch(DefaultFields) <=> f.name \in DefaultFields
    BY DEF InBranch
  <2>2. <<branch, f.name>> \in Ignored
          <=> <<branch, f.name>> \in ignore \/ (ignoreDefault /\ f.id < 0)
    BY <1>3, <2>1 DEF Ignored
  <2> QED
    BY <2>2 DEF Chosen
<1> HIDE DEF wanted, N
<1>5. \A n \in 1 .. N : n \in T <=> p[n] \in S
  BY <1>2
<1>6. wanted = {Fields(branch)[n] : n \in T}
  <2>1. \A f : f \in wanted <=> \E n \in T : f = Fields(branch)[n]
    <3>1. wanted \subseteq ToSet(Fields(branch))
      BY DEF wanted
    <3>2. \A f \in ToSet(Fields(branch)) : \E n \in 1 .. N : f = Fields(branch)[n]
      BY <1>1 DEF ToSet
    <3>3. \A n \in 1 .. N : Fields(branch)[n] \in ToSet(Fields(branch))
      BY <1>1 DEF ToSet
    <3> QED
      BY <1>4, <3>1, <3>2, <3>3
  <2> QED
    BY <2>1
<1>7. S = {p[n] : n \in T}
  <2>1. \A i : i \in S <=> \E n \in T : i = p[n]
    BY <1>2, <1>5
  <2> QED
    BY <2>1
<1>8. Cardinality(S) = Cardinality(wanted)
  <2> DEFINE q == [n \in T |-> p[n]]
             r == [n \in T |-> Fields(branch)[n]]
  <2>1. IsFiniteSet(T)
    <3>1. IsFiniteSet(1 .. N) /\ T \subseteq 1 .. N
      BY <1>1, FS_Interval
    <3> QED
      BY <3>1, FS_Subset
  <2>2. \A n \in T : n \in 1 .. N
    OBVIOUS
  <2> HIDE DEF S, T
  <2>3. DOMAIN q = T /\ IsInjective(q) /\ {q[n] : n \in T} = S
    BY <1>2, <1>7, <2>2 DEF IsInjective
  <2>4. DOMAIN r = T /\ IsInjective(r) /\ {r[n] : n \in T} = wanted
    <3> DEFINE list == Fields(branch)
    <3>1. \A n, k \in 1 .. N : list[n] = list[k] => n = k
      BY <1>1, FieldsAssumption
    <3> HIDE DEF list
    <3>2. DOMAIN r = T /\ \A n \in T : r[n] = list[n]
      BY DEF list
    <3>3. wanted = {list[n] : n \in T}
      BY <1>6 DEF list
    <3> HIDE DEF r
    <3> QED
      BY <2>2, <3>1, <3>2, <3>3 DEF IsInjective
  <2> HIDE DEF q, r
  <2>5. Cardinality({q[n] : n \in T}) = Cardinality(T)
    BY <2>1, <2>3, ImageCardinality
  <2>6. Cardinality({r[n] : n \in T}) = Cardinality(T)
    BY <2>1, <2>4, ImageCardinality
  <2> QED
    BY <2>3, <2>4, <2>5, <2>6
<1>9. {leaves[n].name : n \in DOMAIN leaves} = {LeafName(<<branch, f.name>>) : f \in wanted}
  <2>1. ASSUME NEW n \in DOMAIN leaves
        PROVE  \E f \in wanted : leaves[n].name = LeafName(<<branch, f.name>>)
    <3>1. PICK k \in T : leaves[n].column = p[k]
      BY <1>1, <1>7
    <3>2. k \in 1 .. N /\ e.vars[p[k]].key = <<branch, Fields(branch)[k].name>>
      BY <1>2
    <3>3. Fields(branch)[k] \in wanted
      BY <1>6, <3>1
    <3> HIDE DEF S, T
    <3>4. leaves[n].name = LeafName(<<branch, Fields(branch)[k].name>>)
      <4>1. leaves[n].name = LeafName(e.vars[leaves[n].column].key)
        BY <1>1
      <4>2. e.vars[leaves[n].column].key = <<branch, Fields(branch)[k].name>>
        BY <3>1, <3>2
      <4> QED
        BY <4>1, <4>2, Zenon
    <3> QED
      BY <3>3, <3>4
  <2>2. ASSUME NEW f \in wanted
        PROVE  \E n \in DOMAIN leaves : leaves[n].name = LeafName(<<branch, f.name>>)
    <3>1. PICK k \in T : f = Fields(branch)[k]
      BY <1>6
    <3>2. k \in 1 .. N /\ e.vars[p[k]].key = <<branch, Fields(branch)[k].name>>
      BY <1>2
    <3>3. PICK n \in DOMAIN leaves : leaves[n].column = p[k]
      <4>1. p[k] \in S
        BY <1>7, <3>1
      <4> QED
        BY <1>1, <4>1
    <3> HIDE DEF S, T
    <3>4. leaves[n].name = LeafName(<<branch, Fields(branch)[k].name>>)
      <4>1. leaves[n].name = LeafName(e.vars[leaves[n].column].key)
        BY <1>1
      <4>2. e.vars[leaves[n].column].key = <<branch, Fields(branch)[k].name>>
        BY <3>3, <3>2
      <4> QED
        BY <4>1, <4>2, Zenon
    <3> QED
      BY <3>1, <3>4
  <2> DEFINE A == {leaves[n].name : n \in DOMAIN leaves}
             B == {LeafName(<<branch, f.name>>) : f \in wanted}
  <2>3. A \subseteq B
    BY <2>1
  <2>4. B \subseteq A
    <3> SUFFICES ASSUME NEW f \in wanted PROVE LeafName(<<branch, f.name>>) \in A
      OBVIOUS
    <3>1. PICK n \in DOMAIN leaves : leaves[n].name = LeafName(<<branch, f.name>>)
      BY <2>2
    <3>2. leaves[n].name \in A
      OBVIOUS
    <3> QED
      BY <3>1, <3>2
  <2> QED
    BY <2>3, <2>4
<1> QED
  BY <1>1, <1>8, <1>9 DEF LeavesChosen, wanted

\* A PlainTreeFiller that came through Init evaluates every event, and its tree
\* has one entry for each channel of each event that passes the cut on the
\* branch, in order, of what the field of each leaf has there.
THEOREM PlainTreeStaysRight == FillerSpec => []PlainTreeHolds
  BY FillerInvariance, InvPlainTreeHolds, PTL

\* The leaves are those of the fields that were chosen, each once, wherever
\* their columns are.
THEOREM LeavesStayChosen == FillerSpec => []LeavesChosen
  BY FillerInvariance, InvLeavesChosen, PTL
=============================================================================
