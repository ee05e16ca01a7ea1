------------------------ MODULE ConfigurationProofs ------------------------
(***************************************************************************)
(* The invariants of Configuration, and that it implements MatchedBranches,*)
(* for every set of objects, files, names and ids and every old file.      *)
(***************************************************************************)
EXTENDS Configuration, TLAPS

(***************************************************************************)
(* The vector and the index                                                *)
(***************************************************************************)
\* MakeMatchingIndex has the pairs of the vector, with a data branch of one of
\* the entries of each pair.
LEMMA IndexOfVector ==
  ASSUME NEW ms \in Seq(MatchingConfig)
  PROVE  /\ IsMap(MakeMatchingIndex(ms), Pairs, DataNames)
         /\ DOMAIN MakeMatchingIndex(ms) = {PairOf(ms[i]) : i \in DOMAIN ms}
         /\ \A p \in DOMAIN MakeMatchingIndex(ms) :
              \E i \in DOMAIN ms : /\ PairOf(ms[i]) = p
                                   /\ MakeMatchingIndex(ms)[p] = ms[i].data
<1> DEFINE S == {PairOf(ms[i]) : i \in DOMAIN ms}
           at(p) == CHOOSE i \in DOMAIN ms : PairOf(ms[i]) = p
<1>1. \A i \in DOMAIN ms : ms[i] \in MatchingConfig
  OBVIOUS
<1>2. S \subseteq Pairs
  BY <1>1 DEF PairOf, Pairs, MatchingConfig
<1>3. \A p \in S : at(p) \in DOMAIN ms /\ PairOf(ms[at(p)]) = p
  OBVIOUS
<1>4. MakeMatchingIndex(ms) = [p \in S |-> ms[at(p)].data]
  BY DEF MakeMatchingIndex
<1>5. \A p \in S : ms[at(p)].data \in DataNames
  BY <1>1, <1>3 DEF MatchingConfig
<1> HIDE DEF S, at
<1>6. IsMap(MakeMatchingIndex(ms), Pairs, DataNames)
  BY <1>2, <1>4, <1>5 DEF IsMap
<1>7. DOMAIN MakeMatchingIndex(ms) = S
  BY <1>4
<1>8. \A p \in S : MakeMatchingIndex(ms)[p] = ms[at(p)].data
  BY <1>4
<1> QED
  BY <1>3, <1>6, <1>7, <1>8 DEF S

\* Where no pair occurs twice every entry of the vector is in the index.
LEMMA EntryInIndex ==
  ASSUME NEW ms \in Seq(MatchingConfig), MakeMatchingIndexOk(ms),
         NEW i \in DOMAIN ms
  PROVE  /\ PairOf(ms[i]) \in DOMAIN MakeMatchingIndex(ms)
         /\ MakeMatchingIndex(ms)[PairOf(ms[i])] = ms[i].data
<1>1. PairOf(ms[i]) \in DOMAIN MakeMatchingIndex(ms)
  BY IndexOfVector
<1>2. PICK j \in DOMAIN ms :
        /\ PairOf(ms[j]) = PairOf(ms[i])
        /\ MakeMatchingIndex(ms)[PairOf(ms[i])] = ms[j].data
  BY <1>1, IndexOfVector
<1>3. j = i
  BY <1>2 DEF MakeMatchingIndexOk
<1> QED
  BY <1>1, <1>2, <1>3

\* The Streamer's way from the index to the vector and back changes nothing.
LEMMA RoundTrip ==
  ASSUME NEW index, IsMap(index, Pairs, DataNames)
  PROVE  /\ MakeMatchConfigsFromIndex(index) \in Seq(MatchingConfig)
         /\ MakeMatchingIndexOk(MakeMatchConfigsFromIndex(index))
         /\ MakeMatchingIndex(MakeMatchConfigsFromIndex(index)) = index
<1> DEFINE keys == InMapOrder[DOMAIN index]
           ms == MakeMatchConfigsFromIndex(index)
<1>1. /\ DOMAIN index \in SUBSET Pairs
      /\ index \in [DOMAIN index -> DataNames]
  BY DEF IsMap
<1>2. /\ keys \in Seq(Pairs)
      /\ {keys[i] : i \in DOMAIN keys} = DOMAIN index
      /\ \A i, j \in DOMAIN keys : keys[i] = keys[j] => i = j
  BY <1>1, ConfigurationAssumption DEF ToSet, IsInjective
<1>3. ms = [i \in DOMAIN keys |-> Entry(keys[i], index[keys[i]])]
  BY DEF MakeMatchConfigsFromIndex
<1> HIDE DEF keys, ms
<1>4. \A i \in DOMAIN keys :
        /\ keys[i] \in DOMAIN index /\ keys[i] \in Pairs
        /\ ms[i] = Entry(keys[i], index[keys[i]])
  BY <1>1, <1>2, <1>3
<1>5. ASSUME NEW i \in DOMAIN keys
      PROVE  /\ ms[i] \in MatchingConfig
             /\ PairOf(ms[i]) = keys[i]
             /\ ms[i].data = index[keys[i]]
  <2>1. /\ keys[i] = <<keys[i][1], keys[i][2]>>
        /\ keys[i][1] \in BranchNames /\ keys[i][2] \in BranchNames
    BY <1>4 DEF Pairs
  <2>2. index[keys[i]] \in DataNames
    BY <1>1, <1>4
  <2>3. ms[i] = [from |-> keys[i][1], to |-> keys[i][2], data |-> index[keys[i]]]
    BY <1>4 DEF Entry
  <2> QED
    BY <2>1, <2>2, <2>3 DEF PairOf, MatchingConfig
<1>6. ms \in Seq(MatchingConfig) /\ DOMAIN ms = DOMAIN keys
  <2>1. PICK n \in Nat : DOMAIN keys = 1 .. n
    BY <1>2
  <2> QED
    BY <1>3, <1>5, <2>1
<1>7. MakeMatchingIndexOk(ms)
  BY <1>2, <1>5, <1>6 DEF MakeMatchingIndexOk
<1>8. DOMAIN MakeMatchingIndex(ms) = DOMAIN index
  <2>1. DOMAIN MakeMatchingIndex(ms) = {PairOf(ms[i]) : i \in DOMAIN ms}
    BY <1>6, IndexOfVector
  <2>2. \A i \in DOMAIN ms : PairOf(ms[i]) = keys[i]
    BY <1>5, <1>6
  <2>3. {PairOf(ms[i]) : i \in DOMAIN ms} = {keys[i] : i \in DOMAIN keys}
    BY <1>6, <2>2
  <2> QED
    BY <1>2, <2>1, <2>3
<1>9. ASSUME NEW p \in DOMAIN index
      PROVE  MakeMatchingIndex(ms)[p] = index[p]
  <2>1. PICK i \in DOMAIN keys : keys[i] = p
    BY <1>2
  <2> QED
    BY <1>5, <1>6, <1>7, <2>1, EntryInIndex
<1>10. MakeMatchingIndex(ms) = index
  <2>1. MakeMatchingIndex(ms) = [p \in DOMAIN index |-> MakeMatchingIndex(ms)[p]]
    BY <1>6, <1>8, IndexOfVector DEF IsMap
  <2>2. index = [p \in DOMAIN index |-> index[p]]
    BY <1>1
  <2> QED
    BY <1>9, <2>1, <2>2
<1> QED
  BY <1>6, <1>7, <1>10 DEF ms

(***************************************************************************)
(* The edits                                                               *)
(***************************************************************************)
\* An object that is well typed and keeps its matchings twice in agreement.
Good(c) == IsConfig(c) /\ SameMatches(c)

\* The empty vector and the empty map agree.
LEMMA NewConfigGood ==
  /\ Good(NewConfig)
  /\ NewConfig.branches = <<>> /\ NewConfig.index = <<>>
<1>1. NewConfig.matches = <<>> /\ NewConfig.index = <<>> /\ NewConfig.branches = <<>>
  BY DEF NewConfig
<1>2. \A S, T : IsMap(<<>>, S, T)
  BY DEF IsMap
<1>3. MakeMatchingIndex(<<>>) = <<>>
  BY DEF MakeMatchingIndex
<1> QED
  BY <1>1, <1>2, <1>3
  DEF Good, IsConfig, SameMatches, MakeMatchingIndexOk, NewConfig

\* Changing the branches alone leaves the matchings alone.
LEMMA NewBranchesGood ==
  ASSUME NEW c, Good(c), NEW b, IsMap(b, Ids, BranchNames)
  PROVE  LET e == [c EXCEPT !.branches = b]
         IN /\ Good(e)
            /\ e.branches = b /\ e.matches = c.matches /\ e.index = c.index
BY DEF Good, IsConfig, SameMatches

\* AddBranchConfig keeps an object good and its branches.
LEMMA AddBranchGood ==
  ASSUME NEW c, Good(c), NEW i \in Ids, NEW n \in BranchNames
  PROVE  LET e == AddBranchConfig(c, i, n)
         IN /\ Good(e)
            /\ e.index = c.index
            /\ DOMAIN c.branches \subseteq DOMAIN e.branches
            /\ \A j \in DOMAIN c.branches : e.branches[j] = c.branches[j]
<1> DEFINE b == [j \in DOMAIN c.branches \cup {i} |->
                   IF j = i THEN n ELSE c.branches[j]]
<1>1. CASE i \in DOMAIN c.branches
  BY <1>1 DEF AddBranchConfig
<1>2. CASE i \notin DOMAIN c.branches
  <2>1. IsMap(b, Ids, BranchNames)
    BY DEF Good, IsConfig, IsMap
  <2>2. AddBranchConfig(c, i, n) = [c EXCEPT !.branches = b]
    BY <1>2 DEF AddBranchConfig, Good, IsConfig
  <2>3. \A j \in DOMAIN c.branches : b[j] = c.branches[j]
    BY <1>2
  <2> QED
    BY <2>1, <2>2, <2>3, NewBranchesGood
<1> QED
  BY <1>1, <1>2

\* Merge keeps an object good and its branches.
LEMMA MergeGood ==
  ASSUME NEW c, Good(c), NEW d, Good(d)
  PROVE  LET e == Merge(c, d)
         IN /\ Good(e)
            /\ e.index = c.index
            /\ DOMAIN c.branches \subseteq DOMAIN e.branches
            /\ \A j \in DOMAIN c.branches : e.branches[j] = c.branches[j]
<1> DEFINE taken == {i \in DOMAIN d.branches : \A j \in Clashes(c, d) : i < j}
           b == [i \in DOMAIN c.branches \cup taken |->
                   IF i \in DOMAIN c.branches THEN c.branches[i] ELSE d.branches[i]]
<1>1. IsMap(b, Ids, BranchNames)
  <2>1. taken \subseteq DOMAIN d.branches
    OBVIOUS
  <2> HIDE DEF taken
  <2> QED
    BY <2>1 DEF Good, IsConfig, IsMap
<1>2. Merge(c, d) = [c EXCEPT !.branches = b]
  BY DEF Merge, Good, IsConfig
<1> QED
  BY <1>1, <1>2, NewBranchesGood

\* AddMatch leaves an object with a matching of the two branches alone; it gives
\* any other one more pair, whose inverse was not there either.
LEMMA AddMatchGood ==
  ASSUME NEW c, Good(c), NEW m \in MatchingConfig
  PROVE  LET e == AddMatch(c, m)
         IN \/ e = c
            \/ /\ Good(e)
               /\ e.branches = c.branches
               /\ PairOf(m) \notin DOMAIN c.index
               /\ <<m.to, m.from>> \notin DOMAIN c.index
               /\ DOMAIN e.index = DOMAIN c.index \cup {PairOf(m)}
               /\ \A p \in DOMAIN c.index : e.index[p] = c.index[p]
<1> DEFINE ms == c.matches
           new == Append(c.matches, m)
           e == AddMatch(c, m)
<1>1. CASE \E i \in DOMAIN ms : Joins(ms[i], m.from, m.to)
  BY <1>1 DEF AddMatch
<1>2. CASE ~ \E i \in DOMAIN ms : Joins(ms[i], m.from, m.to)
  <2>1. /\ ms \in Seq(MatchingConfig) /\ MakeMatchingIndexOk(ms)
        /\ c.index = MakeMatchingIndex(ms)
    BY DEF Good, IsConfig, SameMatches
  <2>2. \A i \in DOMAIN ms : /\ PairOf(ms[i]) # PairOf(m)
                             /\ PairOf(ms[i]) # <<m.to, m.from>>
    BY <1>2 DEF Joins, PairOf
  <2>3. /\ new \in Seq(MatchingConfig)
        /\ DOMAIN new = DOMAIN ms \cup {Len(ms) + 1}
        /\ \A i \in DOMAIN ms : new[i] = ms[i]
        /\ new[Len(ms) + 1] = m
    BY <2>1
  <2>4. MakeMatchingIndexOk(new)
    BY <2>1, <2>2, <2>3 DEF MakeMatchingIndexOk
  <2>5. DOMAIN c.index = {PairOf(ms[i]) : i \in DOMAIN ms}
    BY <2>1, IndexOfVector
  <2>6. DOMAIN MakeMatchingIndex(new) = DOMAIN c.index \cup {PairOf(m)}
    <3>1. DOMAIN MakeMatchingIndex(new) = {PairOf(new[i]) : i \in DOMAIN new}
      BY <2>3, IndexOfVector
    <3> QED
      BY <2>3, <2>5, <3>1
  <2>7. ASSUME NEW p \in DOMAIN c.index
        PROVE  MakeMatchingIndex(new)[p] = c.index[p]
    <3>1. PICK i \in DOMAIN ms : PairOf(ms[i]) = p
      BY <2>5
    <3>2. c.index[p] = ms[i].data
      BY <2>1, <3>1, EntryInIndex
    <3>3. i \in DOMAIN new /\ new[i] = ms[i]
      BY <2>3
    <3>4. MakeMatchingIndex(new)[p] = new[i].data
      BY <2>3, <2>4, <3>1, <3>3, EntryInIndex
    <3> QED
      BY <3>2, <3>3, <3>4
  <2>8. e = [c EXCEPT !.matches = new, !.index = MakeMatchingIndex(new)]
    BY <1>2 DEF AddMatch, Good, IsConfig
  <2>9. /\ e.branches = c.branches /\ e.matches = new
        /\ e.index = MakeMatchingIndex(new)
        /\ DOMAIN e = {"branches", "matches", "index"}
    BY <2>8 DEF Good, IsConfig
  <2>10. Good(e)
    BY <2>3, <2>4, <2>9, IndexOfVector DEF Good, IsConfig, SameMatches
  <2> QED
    BY <2>2, <2>5, <2>6, <2>7, <2>9, <2>10
<1> QED
  BY <1>1, <1>2

\* RemoveBranchConfig keeps an object good; it takes away every branch of the
\* name and every matching with the name, and nothing else.
LEMMA RemoveBranchGood ==
  ASSUME NEW c, Good(c), NEW n
  PROVE  LET e == RemoveBranchConfig(c, n)
         IN /\ Good(e)
            /\ DOMAIN e.branches = {i \in DOMAIN c.branches : c.branches[i] # n}
            /\ \A i \in DOMAIN e.branches : e.branches[i] = c.branches[i]
            /\ DOMAIN e.index = {p \in DOMAIN c.index : n \notin {p[1], p[2]}}
            /\ e.index = [p \in DOMAIN e.index |-> c.index[p]]
<1> DEFINE e == RemoveBranchConfig(c, n)
           left == [p \in {q \in DOMAIN c.index : n \notin {q[1], q[2]}} |->
                      c.index[p]]
           b == [i \in {j \in DOMAIN c.branches : c.branches[j] # n} |->
                   c.branches[i]]
<1>1. IsMap(left, Pairs, DataNames) /\ IsMap(b, Ids, BranchNames)
  BY DEF Good, IsConfig, IsMap
<1>2. e = [branches |-> b, matches |-> MakeMatchConfigsFromIndex(left), index |-> left]
  BY DEF RemoveBranchConfig
<1>3. /\ DOMAIN b = {j \in DOMAIN c.branches : c.branches[j] # n}
      /\ \A i \in DOMAIN b : b[i] = c.branches[i]
      /\ DOMAIN left = {q \in DOMAIN c.index : n \notin {q[1], q[2]}}
      /\ left = [p \in DOMAIN left |-> c.index[p]]
  OBVIOUS
<1> HIDE DEF b, left
<1>4. Good(e)
  BY <1>1, <1>2, RoundTrip DEF Good, IsConfig, SameMatches
<1> QED
  BY <1>2, <1>3, <1>4

(***************************************************************************)
(* The Streamer                                                            *)
(***************************************************************************)
\* Writing an object leaves its branches and index alone.
LEMMA StreamedGood ==
  ASSUME NEW c, Good(c)
  PROVE  /\ Good(Streamed(c))
         /\ Streamed(c).branches = c.branches /\ Streamed(c).index = c.index
         /\ Streamed(c).matches = MakeMatchConfigsFromIndex(c.index)
<1>1. IsMap(c.index, Pairs, DataNames)
  BY DEF Good, IsConfig
<1>2. /\ DOMAIN Streamed(c) = {"branches", "matches", "index"}
      /\ Streamed(c).branches = c.branches /\ Streamed(c).index = c.index
      /\ Streamed(c).matches = MakeMatchConfigsFromIndex(c.index)
  BY DEF Streamed, Good, IsConfig
<1> QED
  BY <1>1, <1>2, RoundTrip DEF Good, IsConfig, SameMatches

\* What an object writes can be read and shows the same branches and matchings.
LEMMA StoredGood ==
  ASSUME NEW c, Good(c)
  PROVE  /\ IsFile(Stored(c)) /\ ReadOk(Stored(c))
         /\ Stored(c).version = 4
         /\ Stored(c).branches = c.branches
         /\ MakeMatchingIndex(Stored(c).matches) = c.index
<1>1. /\ IsMap(c.branches, Ids, BranchNames) /\ IsMap(c.index, Pairs, DataNames)
  BY DEF Good, IsConfig
<1>2. /\ Stored(c).version = 4 /\ Stored(c).branches = c.branches
      /\ Stored(c).matches = MakeMatchConfigsFromIndex(c.index)
  BY StreamedGood DEF Stored
<1> HIDE DEF Stored
<1>3. IsFile(Stored(c)) /\ ReadOk(Stored(c))
  BY <1>1, <1>2, RoundTrip DEF IsFile, ReadOk
<1> QED
  BY <1>1, <1>2, <1>3, RoundTrip

\* What the Streamer reads is good, from a file of any version it accepts.
LEMMA LoadedGood ==
  ASSUME NEW f, f # Nothing, IsFile(f), ReadOk(f)
  PROVE  /\ Good(Loaded(f))
         /\ ViewOfFile(f) = View(Loaded(f).branches, Loaded(f).index)
<1>1. CASE f.version = 4
  <2>1. /\ Loaded(f) = [branches |-> f.branches, matches |-> f.matches,
                        index |-> MakeMatchingIndex(f.matches)]
        /\ ViewOfFile(f) = View(f.branches, MakeMatchingIndex(f.matches))
    BY <1>1 DEF Loaded, ViewOfFile
  <2>2. /\ IsMap(f.branches, Ids, BranchNames)
        /\ f.matches \in Seq(MatchingConfig) /\ MakeMatchingIndexOk(f.matches)
    BY <1>1 DEF IsFile, ReadOk
  <2>3. IsMap(MakeMatchingIndex(f.matches), Pairs, DataNames)
    BY <2>2, IndexOfVector
  <2> DEFINE l == Loaded(f)
  <2>4. /\ DOMAIN l = {"branches", "matches", "index"}
        /\ l.branches = f.branches /\ l.matches = f.matches
        /\ l.index = MakeMatchingIndex(f.matches)
    BY <2>1
  <2> HIDE DEF l
  <2>5. Good(l)
    BY <2>2, <2>3, <2>4 DEF Good, IsConfig, SameMatches
  <2> QED
    BY <2>1, <2>4, <2>5 DEF l
<1>2. CASE f.version = 3
  <2>1. /\ Loaded(f) = [branches |-> f.branches,
                        matches  |-> MakeMatchConfigsFromIndex(f.matches),
                        index    |-> f.matches]
        /\ ViewOfFile(f) = View(f.branches, f.matches)
    BY <1>2 DEF Loaded, ViewOfFile
  <2>2. IsMap(f.branches, Ids, BranchNames) /\ IsMap(f.matches, Pairs, DataNames)
    BY <1>2 DEF IsFile
  <2> QED
    BY <2>1, <2>2, RoundTrip DEF Good, IsConfig, SameMatches
<1>3. CASE f.version # 4 /\ f.version # 3
  <2>1. Loaded(f) = NewConfig /\ ViewOfFile(f) = View(<<>>, <<>>)
    BY <1>3 DEF Loaded, ViewOfFile
  <2> QED
    BY <2>1, NewConfigGood
<1> QED
  BY <1>1, <1>2, <1>3

(***************************************************************************)
(* The invariants                                                          *)
(***************************************************************************)
\* A file's matchings join branches of the file, unless they were mixed up.
FilesRefer ==
  \A f \in Files \ mixed :
    file[f] # Nothing =>
      Refers(ViewOfFile(file[f]).branches, ViewOfFile(file[f]).matches)

\* The invariants together are inductive once the files are included.
Inv == TypeOK /\ StructuresAgree /\ FilesReadable /\ MatchesRefer /\ FilesRefer

\* What the invariants say of one object and of one file.
LEMMA InvOfOne ==
  ASSUME Inv
  PROVE  /\ \A o \in Live :
              /\ Good(conf[o])
              /\ o \notin mixed => Refers(conf[o].branches, conf[o].index)
         /\ \A f \in Files :
              file[f] # Nothing =>
                /\ IsFile(file[f]) /\ ReadOk(file[f])
                /\ f \notin mixed => Refers(ViewOfFile(file[f]).branches,
                                            ViewOfFile(file[f]).matches)
BY DEF Inv, TypeOK, StructuresAgree, FilesReadable, MatchesRefer, FilesRefer, Good

\* No object exists at first, and old files refer to their own branches.
LEMMA InitInv == Init => Inv
<1> SUFFICES ASSUME Init PROVE Inv
  OBVIOUS
<1>1. Live = {} /\ mixed = {} /\ DOMAIN conf = Objects
  BY DEF Init, Live
<1>2. DOMAIN file = Files /\ \A f \in Files : file[f] \in InitialFiles
  BY DEF Init
<1>3. ASSUME NEW f \in Files, file[f] # Nothing
      PROVE  /\ IsFile(file[f]) /\ ReadOk(file[f])
             /\ Refers(ViewOfFile(file[f]).branches, ViewOfFile(file[f]).matches)
  <2> DEFINE g == file[f]
  <2>1. /\ g.version # 4 /\ IsFile(g)
        /\ g.version = 3 => Refers(g.branches, g.matches)
    BY <1>2, <1>3, ConfigurationAssumption
  <2>2. ViewOfFile(g) = IF g.version = 3 THEN View(g.branches, g.matches)
                                         ELSE View(<<>>, <<>>)
    BY <1>3, <2>1 DEF ViewOfFile
  <2> HIDE DEF g
  <2>3. Refers(ViewOfFile(g).branches, ViewOfFile(g).matches)
    BY <2>1, <2>2 DEF View, Refers
  <2> QED
    BY <2>1, <2>3 DEF g, ReadOk
<1> QED
  BY <1>1, <1>2, <1>3
  DEF Inv, TypeOK, StructuresAgree, FilesReadable, MatchesRefer, FilesRefer

\* A call that gives object o the value c, and may mark it or clear its mark.
Only(o, c) ==
  /\ conf' = [conf EXCEPT ![o] = c]
  /\ UNCHANGED file
  /\ \A x : x # o => (x \in mixed' <=> x \in mixed)

LEMMA EditOnly ==
  ASSUME NEW o, NEW c, Edit(o, c)
  PROVE  Only(o, c) /\ (o \in mixed' <=> o \in mixed)
BY DEF Edit, Becomes, Mark, Only

\* A call that makes one object good, or none at all, keeps the invariants.
LEMMA OnlyInv ==
  ASSUME Inv, NEW o \in Objects, NEW c, Only(o, c),
         c # Nothing => Good(c),
         c # Nothing /\ o \notin mixed' => Refers(c.branches, c.index)
  PROVE  Inv'
<1>1. /\ DOMAIN conf = Objects /\ DOMAIN file = Files
      /\ mixed \subseteq Objects \cup Files
  BY DEF Inv, TypeOK
<1>2. /\ DOMAIN conf' = Objects /\ conf'[o] = c
      /\ \A q \in Objects : q # o => conf'[q] = conf[q]
  BY <1>1 DEF Only
<1>3. file' = file /\ \A x : x # o => (x \in mixed' <=> x \in mixed)
  BY DEF Only
<1>4. \A q \in Live' : /\ Good(conf'[q])
                       /\ q \notin mixed' => Refers(conf'[q].branches, conf'[q].index)
  BY <1>2, <1>3, InvOfOne DEF Live
<1>5. \A f \in Files : f \in mixed' <=> f \in mixed
  BY <1>3, ConfigurationAssumption
<1>6. TypeOK'
  <2>1. mixed' \subseteq Objects \cup Files
    BY <1>1, <1>3
  <2>2. \A f \in Files : file'[f] # Nothing => IsFile(file'[f])
    BY <1>3, InvOfOne
  <2> QED
    BY <1>1, <1>2, <1>3, <1>4, <2>1, <2>2 DEF TypeOK, Good
<1>7. StructuresAgree'
  BY <1>4 DEF StructuresAgree, Good
<1>8. FilesReadable'
  BY <1>3, InvOfOne DEF FilesReadable
<1>9. MatchesRefer'
  BY <1>4 DEF MatchesRefer
<1>10. FilesRefer'
  BY <1>3, <1>5, InvOfOne DEF FilesRefer
<1> QED
  BY <1>6, <1>7, <1>8, <1>9, <1>10 DEF Inv

(***************************************************************************)
(* The refinement, one call at a time                                      *)
(***************************************************************************)
\* What MatchedBranches sees of an object.
Seen(c) == IF c = Nothing THEN Nothing ELSE View(c.branches, c.index)

\* The changes of one object that MatchedBranches allows.
Allowed(o, c) ==
  \/ Seen(c) \in {Nothing, MatchedBranches!Empty}
  \/ \E q \in Objects : Seen(c) = Seen(conf[q])
  \/ /\ Seen(conf[o]) = Nothing
     /\ \E f \in Files : Seen(c) = ViewOfFile(file[f])
  \/ /\ Seen(conf[o]) # Nothing /\ Seen(c) # Nothing
     /\ \/ MatchedBranches!GainsBranches(Seen(conf[o]), Seen(c))
        \/ MatchedBranches!GainsMatch(Seen(conf[o]), Seen(c))
        \/ MatchedBranches!LosesName(Seen(conf[o]), Seen(c))

\* A call that changes one object in an allowed way is a step of
\* MatchedBranches.
LEMMA OnlyAllowed ==
  ASSUME Inv, NEW o \in Objects, NEW c, Only(o, c), Allowed(o, c)
  PROVE  MatchedBranches!MNext
<1> DEFINE object == [q \in Objects |-> IF conf[q] = Nothing THEN Nothing
                        ELSE View(conf[q].branches, conf[q].index)]
           stored == [f \in Files |-> ViewOfFile(file[f])]
<1>1. /\ conf'[o] = c
      /\ \A q \in Objects \ {o} : conf'[q] = conf[q]
      /\ file' = file
  BY DEF Inv, TypeOK, Only
<1>2. \A q \in Objects : object[q] = Seen(conf[q]) /\ object'[q] = Seen(conf'[q])
  BY DEF Seen
<1>3. \A f \in Files : stored[f] = ViewOfFile(file[f])
  OBVIOUS
<1>4. stored' = stored
  BY <1>1
<1>5. \A q \in Objects \ {o} : object'[q] = object[q]
  BY <1>1, <1>2
<1>6. MatchedBranches!Change(o)
  BY <1>1, <1>2, <1>3 DEF Allowed, MatchedBranches!Change
<1> QED
  BY <1>4, <1>5, <1>6 DEF MatchedBranches!MNext

\* An object, what is seen of it and what it writes are not the absent one.
LEMMA GoodIsSomething ==
  ASSUME NEW c, Good(c)
  PROVE  /\ View(c.branches, c.index) # Nothing
         /\ Streamed(c) # Nothing /\ Stored(c) # Nothing
<1> DEFINE Maps(S, T) == UNION {[D -> T] : D \in SUBSET S}
<1>1. \A S, T, f : IsMap(f, S, T) => f \in Maps(S, T)
  BY DEF IsMap
<1> HIDE DEF Maps
<1>2. /\ c.branches \in Maps(Ids, BranchNames) /\ c.index \in Maps(Pairs, DataNames)
  BY <1>1 DEF Good, IsConfig
<1>3. MakeMatchConfigsFromIndex(c.index) \in Seq(MatchingConfig)
  BY RoundTrip DEF Good, IsConfig
<1>4. View(c.branches, c.index)
        \in [branches : Maps(Ids, BranchNames), matches : Maps(Pairs, DataNames)]
  BY <1>2 DEF View
<1>5. Stored(c) \in [version : {4}, branches : Maps(Ids, BranchNames),
                     matches : Seq(MatchingConfig)]
  BY <1>2, <1>3, StreamedGood DEF Stored
<1>6. Streamed(c) \in [branches : Maps(Ids, BranchNames),
                       matches : Seq(MatchingConfig), index : Maps(Pairs, DataNames)]
  <2>1. Streamed(c) = [branches |-> c.branches,
                       matches  |-> MakeMatchConfigsFromIndex(c.index),
                       index    |-> c.index]
    BY DEF Streamed, Good, IsConfig
  <2> QED
    BY <1>2, <1>3, <2>1
<1> QED
  BY <1>4, <1>5, <1>6, NothingAssumption DEF Maps

\* A call that adds branches to an object.
LEMMA GainBranchesStep ==
  ASSUME Inv, NEW o \in Live, NEW e, Edit(o, e), Good(e),
         e.index = conf[o].index,
         DOMAIN conf[o].branches \subseteq DOMAIN e.branches,
         \A i \in DOMAIN conf[o].branches : e.branches[i] = conf[o].branches[i]
  PROVE  Inv' /\ MatchedBranches!MNext
<1>1. o \in Objects /\ Good(conf[o]) /\ conf[o] # Nothing
  BY InvOfOne DEF Live
<1>2. Only(o, e) /\ (o \in mixed' <=> o \in mixed)
  BY EditOnly
<1>3. Inv'
  <2>1. o \notin mixed' => Refers(e.branches, e.index)
    BY <1>2, InvOfOne DEF Refers
  <2> QED
    BY <1>1, <1>2, <2>1, OnlyInv
<1>4. /\ Seen(conf[o]) = View(conf[o].branches, conf[o].index)
      /\ Seen(conf[o]) # Nothing
      /\ Seen(e) = Nothing \/ Seen(e) = View(e.branches, e.index)
  BY <1>1, GoodIsSomething DEF Seen
<1>5. MatchedBranches!GainsBranches(View(conf[o].branches, conf[o].index),
                                    View(e.branches, e.index))
  BY DEF MatchedBranches!GainsBranches, MatchedBranches!Grows, View
<1>6. Allowed(o, e)
  BY <1>4, <1>5 DEF Allowed
<1> QED
  BY <1>1, <1>2, <1>3, <1>6, OnlyAllowed

\* A call that adds a matching, of branches of the object unless it is marked.
LEMMA GainMatchStep ==
  ASSUME Inv, NEW o \in Live, NEW m \in MatchingConfig,
         Only(o, AddMatch(conf[o], m)),
         o \notin mixed' => /\ o \notin mixed
                           /\ {m.from, m.to} \subseteq Names(conf[o])
  PROVE  Inv' /\ MatchedBranches!MNext
<1> DEFINE c == conf[o]
           e == AddMatch(c, m)
<1>1. o \in Objects /\ Good(c) /\ c # Nothing
  BY InvOfOne DEF Live
<1>2. o \notin mixed' => Refers(c.branches, c.index)
  BY InvOfOne
<1>3. \/ e = c
      \/ /\ Good(e)
         /\ e.branches = c.branches
         /\ PairOf(m) \notin DOMAIN c.index
         /\ <<m.to, m.from>> \notin DOMAIN c.index
         /\ DOMAIN e.index = DOMAIN c.index \cup {PairOf(m)}
         /\ \A p \in DOMAIN c.index : e.index[p] = c.index[p]
  BY <1>1, AddMatchGood
<1> HIDE DEF e
<1>4. Good(e)
  BY <1>1, <1>3
<1>5. o \notin mixed' => Refers(e.branches, e.index)
  BY <1>2, <1>3 DEF Refers, Names, PairOf
<1>6. Inv'
  BY <1>1, <1>4, <1>5, OnlyInv DEF e
<1>7. Allowed(o, e)
  <2>1. CASE e = c
    BY <1>1, <2>1 DEF Allowed
  <2>2. CASE e # c
    <3>1. /\ Seen(c) = View(c.branches, c.index) /\ Seen(c) # Nothing
          /\ Seen(e) = Nothing \/ Seen(e) = View(e.branches, e.index)
      BY <1>1, GoodIsSomething DEF Seen
    <3> DEFINE old == View(c.branches, c.index)
               new == View(e.branches, e.index)
               p == PairOf(m)
    <3>2. /\ old.branches = c.branches /\ old.matches = c.index
          /\ new.branches = e.branches /\ new.matches = e.index
      BY DEF View
    <3>3. p[1] = m.from /\ p[2] = m.to
      BY DEF PairOf
    <3> HIDE DEF old, new, p
    <3>4. MatchedBranches!Grows(old.matches, new.matches)
      BY <1>3, <2>2, <3>2 DEF MatchedBranches!Grows
    <3>5. /\ p \in DOMAIN new.matches
          /\ DOMAIN new.matches \ DOMAIN old.matches = {p}
          /\ <<p[2], p[1]>> \notin DOMAIN old.matches
      BY <1>3, <2>2, <3>2, <3>3 DEF p
    <3>6. MatchedBranches!GainsMatch(old, new)
      BY <1>3, <2>2, <3>2, <3>4, <3>5 DEF MatchedBranches!GainsMatch
    <3> QED
      BY <3>1, <3>6 DEF Allowed, old, new
  <2> QED
    BY <2>1, <2>2
<1> QED
  BY <1>1, <1>6, <1>7, OnlyAllowed DEF e

\* A new object is empty.
LEMMA ConstructStep ==
  ASSUME Inv, NEW o \in Objects, Construct(o)
  PROVE  Inv' /\ MatchedBranches!MNext
<1>1. Only(o, NewConfig)
  BY DEF Construct, Becomes, Mark, Only
<1>2. Refers(NewConfig.branches, NewConfig.index)
  BY NewConfigGood DEF Refers
<1>3. Allowed(o, NewConfig)
  BY NewConfigGood DEF Allowed, Seen, View, MatchedBranches!Empty
<1> QED
  BY <1>1, <1>2, <1>3, NewConfigGood, OnlyInv, OnlyAllowed

\* An object is destroyed.
LEMMA DestroyStep ==
  ASSUME Inv, NEW o \in Objects, Destroy(o)
  PROVE  Inv' /\ MatchedBranches!MNext
<1>1. Only(o, Nothing)
  BY DEF Destroy, Becomes, Mark, Only
<1>2. Allowed(o, Nothing)
  BY DEF Allowed, Seen
<1> QED
  BY <1>1, <1>2, OnlyInv, OnlyAllowed

\* A copy is all the copied object was.
LEMMA CopyToStep ==
  ASSUME Inv, NEW o \in Objects, NEW q \in Objects, CopyTo(o, q)
  PROVE  Inv' /\ MatchedBranches!MNext
<1>1. q \in Live /\ Only(o, conf[q]) /\ (o \in mixed' <=> q \in mixed)
  BY DEF CopyTo, Becomes, Mark, Only
<1>2. /\ Good(conf[q])
      /\ o \notin mixed' => Refers(conf[q].branches, conf[q].index)
  BY <1>1, InvOfOne
<1>3. Allowed(o, conf[q])
  BY DEF Allowed
<1> QED
  BY <1>1, <1>2, <1>3, OnlyInv, OnlyAllowed

\* A branch is added, or its id was taken.
LEMMA AddNewBranchStep ==
  ASSUME Inv, NEW o \in Objects, NEW n \in NewNames, AddNewBranch(o, n)
  PROVE  Inv' /\ MatchedBranches!MNext
<1>1. o \in Live /\ Edit(o, AddBranchConfig(conf[o], IdOf[n], n))
  BY DEF AddNewBranch
<1>2. n \in BranchNames /\ IdOf[n] \in Ids
  BY ConfigurationAssumption
<1>3. Good(conf[o])
  BY <1>1, InvOfOne
<1> QED
  BY <1>1, <1>2, <1>3, AddBranchGood, GainBranchesStep

\* A branch of another object is added, or its id was taken.
LEMMA AddBranchOfStep ==
  ASSUME Inv, NEW o \in Objects, NEW q \in Objects, NEW i \in Ids,
         AddBranchOf(o, q, i)
  PROVE  Inv' /\ MatchedBranches!MNext
<1>1. /\ o \in Live /\ q \in Live /\ i \in DOMAIN conf[q].branches
      /\ Edit(o, AddBranchConfig(conf[o], i, conf[q].branches[i]))
  BY DEF AddBranchOf
<1>2. Good(conf[o]) /\ conf[q].branches[i] \in BranchNames
  BY <1>1, InvOfOne DEF Good, IsConfig, IsMap
<1> QED
  BY <1>1, <1>2, AddBranchGood, GainBranchesStep

\* The branches of another object are added up to the first that clashes.
LEMMA MergeWithStep ==
  ASSUME Inv, NEW o \in Objects, NEW q \in Objects, MergeWith(o, q)
  PROVE  Inv' /\ MatchedBranches!MNext
<1>1. o \in Live /\ q \in Live /\ Edit(o, Merge(conf[o], conf[q]))
  BY DEF MergeWith
<1>2. Good(conf[o]) /\ Good(conf[q])
  BY <1>1, InvOfOne
<1> QED
  BY <1>1, <1>2, MergeGood, GainBranchesStep

\* A matching of another object is added.  Where no id clashes, the branches
\* it joins were all added before.
LEMMA AddMatchOfStep ==
  ASSUME Inv, NEW o \in Objects, NEW q \in Objects, NEW k, AddMatchOf(o, q, k)
  PROVE  Inv' /\ MatchedBranches!MNext
<1> DEFINE m == conf[q].matches[k]
<1>1. /\ o \in Live /\ q \in Live /\ k \in DOMAIN conf[q].matches
      /\ DOMAIN conf[q].branches \subseteq DOMAIN conf[o].branches
      /\ Only(o, AddMatch(conf[o], m))
      /\ o \in mixed' <=> \/ o \in mixed \/ q \in mixed
                         \/ Clash(conf[o], conf[q])
  BY DEF AddMatchOf, Becomes, Mark, Only
<1>2. /\ conf[q].matches \in Seq(MatchingConfig)
      /\ MakeMatchingIndexOk(conf[q].matches)
      /\ conf[q].index = MakeMatchingIndex(conf[q].matches)
      /\ q \notin mixed => Refers(conf[q].branches, conf[q].index)
  BY <1>1, InvOfOne DEF Good, IsConfig, SameMatches
<1>3. m \in MatchingConfig /\ PairOf(m) \in DOMAIN conf[q].index
  BY <1>1, <1>2, EntryInIndex
<1>4. ASSUME o \notin mixed'
      PROVE  o \notin mixed /\ {m.from, m.to} \subseteq Names(conf[o])
  <2>1. {m.from, m.to} \subseteq Names(conf[q])
    BY <1>1, <1>2, <1>3, <1>4 DEF Refers, PairOf, Names
  <2>2. \A i \in DOMAIN conf[q].branches :
          i \in DOMAIN conf[o].branches /\ conf[o].branches[i] = conf[q].branches[i]
    BY <1>1, <1>4 DEF Clash
  <2>3. Names(conf[q]) \subseteq Names(conf[o])
    BY <2>2 DEF Names
  <2> QED
    BY <1>1, <1>4, <2>1, <2>3
<1> HIDE DEF m
<1> QED
  BY <1>1, <1>3, <1>4, GainMatchStep

\* A matching of two branches of the object is added.
LEMMA AddMatchingStep ==
  ASSUME Inv, NEW o \in Objects, NEW i, NEW j, AddMatching(o, i, j)
  PROVE  Inv' /\ MatchedBranches!MNext
<1> DEFINE a == conf[o].branches[i]
           b == conf[o].branches[j]
           m == Entry(<<a, b>>, DataBranch(a, b))
<1>1. /\ o \in Live
      /\ i \in DOMAIN conf[o].branches /\ j \in DOMAIN conf[o].branches
      /\ Edit(o, AddMatch(conf[o], m))
  BY DEF AddMatching
<1>2. a \in BranchNames /\ b \in BranchNames
  BY <1>1, InvOfOne DEF Good, IsConfig, IsMap
<1>3. a \in Names(conf[o]) /\ b \in Names(conf[o])
  BY <1>1 DEF Names
<1> HIDE DEF a, b
<1>4. m \in MatchingConfig /\ m.from = a /\ m.to = b
  BY <1>2 DEF Entry, MatchingConfig, DataNames
<1> HIDE DEF m
<1>5. Only(o, AddMatch(conf[o], m)) /\ (o \in mixed' <=> o \in mixed)
  BY <1>1, EditOnly
<1>6. {m.from, m.to} \subseteq Names(conf[o])
  BY <1>3, <1>4
<1> QED
  BY <1>1, <1>4, <1>5, <1>6, GainMatchStep

\* A name is removed with its branches and matchings.
LEMMA RemoveBranchStep ==
  ASSUME Inv, NEW o \in Objects, NEW n \in BranchNames, RemoveBranch(o, n)
  PROVE  Inv' /\ MatchedBranches!MNext
<1> DEFINE c == conf[o]
           e == RemoveBranchConfig(c, n)
           old == View(c.branches, c.index)
           new == View(e.branches, e.index)
<1>1. o \in Live /\ Only(o, e) /\ (o \in mixed' <=> o \in mixed)
  BY EditOnly DEF RemoveBranch
<1>2. Good(c) /\ (o \notin mixed => Refers(c.branches, c.index))
  BY <1>1, InvOfOne
<1>3. /\ Good(e)
      /\ DOMAIN e.branches = {i \in DOMAIN c.branches : c.branches[i] # n}
      /\ \A i \in DOMAIN e.branches : e.branches[i] = c.branches[i]
      /\ DOMAIN e.index = {p \in DOMAIN c.index : n \notin {p[1], p[2]}}
      /\ e.index = [p \in DOMAIN e.index |-> c.index[p]]
  BY <1>2, RemoveBranchGood
<1>4. /\ old.branches = c.branches /\ old.matches = c.index
      /\ new.branches = e.branches /\ new.matches = e.index
  BY DEF View
<1>5. /\ c # Nothing /\ Seen(c) = old /\ Seen(c) # Nothing
      /\ Seen(e) = Nothing \/ Seen(e) = new
  BY <1>1, <1>2, GoodIsSomething DEF Seen, Live
<1> HIDE DEF e, old, new
<1>6. o \notin mixed' => Refers(e.branches, e.index)
  BY <1>1, <1>2, <1>3 DEF Refers
<1>7. Inv'
  BY <1>1, <1>3, <1>6, OnlyInv
<1>8. Allowed(o, e)
  <2> DEFINE N == MatchedBranches!NamesIn(old)
  <2>1. CASE n \in N
    <3>1. MatchedBranches!Grows(new.branches, old.branches)
      BY <1>3, <1>4 DEF MatchedBranches!Grows
    <3>2. MatchedBranches!Grows(new.matches, old.matches)
      BY <1>3, <1>4 DEF MatchedBranches!Grows
    <3>3. /\ DOMAIN new.branches = {i \in DOMAIN old.branches : old.branches[i] # n}
          /\ DOMAIN new.matches = {p \in DOMAIN old.matches : n \notin {p[1], p[2]}}
      BY <1>3, <1>4
    <3>4. MatchedBranches!LosesName(old, new)
      BY <2>1, <3>1, <3>2, <3>3 DEF MatchedBranches!LosesName
    <3> QED
      BY <1>5, <3>4 DEF Allowed
  <2>2. CASE n \notin N
    <3>1. \A i \in DOMAIN c.branches : c.branches[i] # n
      BY <1>4, <2>2 DEF MatchedBranches!NamesIn
    <3>2. \A p \in DOMAIN c.index : n # p[1] /\ n # p[2]
      BY <1>4, <2>2 DEF MatchedBranches!NamesIn
    <3>3. DOMAIN e.branches = DOMAIN c.branches /\ DOMAIN e.index = DOMAIN c.index
      BY <1>3, <3>1, <3>2
    <3>4. e.index = c.index
      BY <1>2, <1>3, <3>3 DEF Good, IsConfig, IsMap
    <3>5. MatchedBranches!GainsBranches(old, new)
      BY <1>3, <1>4, <3>3, <3>4
      DEF MatchedBranches!GainsBranches, MatchedBranches!Grows
    <3> QED
      BY <1>5, <3>5 DEF Allowed
  <2> QED
    BY <2>1, <2>2
<1> QED
  BY <1>1, <1>7, <1>8, OnlyAllowed DEF e

\* An object is read.
LEMMA ReadStep ==
  ASSUME Inv, NEW o \in Objects, NEW f \in Files, Read(o, f)
  PROVE  Inv' /\ MatchedBranches!MNext
<1> DEFINE e == Loaded(file[f])
<1>1. /\ conf[o] = Nothing /\ file[f] # Nothing /\ ReadOk(file[f])
      /\ Only(o, e) /\ (o \in mixed' <=> f \in mixed)
  BY DEF Read, Live, Becomes, Mark, Only
<1>2. /\ Good(e) /\ ViewOfFile(file[f]) = View(e.branches, e.index)
      /\ f \notin mixed => Refers(ViewOfFile(file[f]).branches,
                                  ViewOfFile(file[f]).matches)
  BY <1>1, InvOfOne, LoadedGood
<1> HIDE DEF e
<1>3. o \notin mixed' => Refers(e.branches, e.index)
  BY <1>1, <1>2 DEF View
<1>4. Allowed(o, e)
  BY <1>1, <1>2 DEF Allowed, Seen
<1> QED
  BY <1>1, <1>2, <1>3, <1>4, OnlyInv, OnlyAllowed

\* A file gives back what was written, and writing changes no matching.
LEMMA WriteStep ==
  ASSUME Inv, NEW o \in Objects, NEW f \in Files, Write(o, f)
  PROVE  Inv' /\ MatchedBranches!MNext
<1> DEFINE c == conf[o]
           e == Streamed(c)
           g == Stored(c)
<1>1. /\ o \in Live /\ Good(c) /\ (o \notin mixed => Refers(c.branches, c.index))
      /\ c # Nothing /\ o \notin Files
  BY InvOfOne, ConfigurationAssumption DEF Write, Live
<1>2. /\ Good(e) /\ e # Nothing
      /\ e.branches = c.branches /\ e.index = c.index
  BY <1>1, StreamedGood, GoodIsSomething
<1>3. /\ g # Nothing /\ IsFile(g) /\ ReadOk(g)
      /\ ViewOfFile(g) = View(c.branches, c.index)
  BY <1>1, StoredGood, GoodIsSomething DEF ViewOfFile
<1> HIDE DEF c, e, g
<1>4. /\ DOMAIN conf = Objects /\ DOMAIN file = Files
      /\ mixed \subseteq Objects \cup Files
  BY DEF Inv, TypeOK
<1>5. /\ DOMAIN conf' = Objects /\ conf'[o] = e
      /\ \A q \in Objects : q # o => conf'[q] = conf[q]
  BY <1>4 DEF Write, e, c
<1>6. /\ file' = [file EXCEPT ![f] = g]
      /\ DOMAIN file' = Files /\ file'[f] = g
      /\ \A h \in Files : h # f => file'[h] = file[h]
  BY <1>4 DEF Write, g, c
<1>7. /\ f \in mixed' <=> o \in mixed
      /\ \A x : x # f => (x \in mixed' <=> x \in mixed)
      /\ mixed' \subseteq mixed \cup {f}
  BY DEF Write, Mark
<1>8. \A q \in Objects : q # f
  BY ConfigurationAssumption
<1>9. ASSUME NEW q \in Live'
      PROVE  /\ Good(conf'[q])
             /\ q \notin mixed' => Refers(conf'[q].branches, conf'[q].index)
  <2>1. CASE q = o
    BY <1>1, <1>2, <1>5, <1>7, <1>8, <2>1 DEF Live
  <2>2. CASE q # o
    BY <1>5, <1>7, <1>8, <2>2, InvOfOne DEF Live
  <2> QED
    BY <2>1, <2>2
<1>10. ASSUME NEW h \in Files, file'[h] # Nothing
       PROVE  /\ IsFile(file'[h]) /\ ReadOk(file'[h])
              /\ h \notin mixed' => Refers(ViewOfFile(file'[h]).branches,
                                           ViewOfFile(file'[h]).matches)
  <2>1. CASE h = f
    BY <1>1, <1>3, <1>6, <1>7, <2>1 DEF View
  <2>2. CASE h # f
    BY <1>6, <1>7, <1>10, <2>2, InvOfOne
  <2> QED
    BY <2>1, <2>2
<1>11. TypeOK'
  BY <1>4, <1>5, <1>6, <1>7, <1>9, <1>10 DEF TypeOK, Good
<1>12. StructuresAgree' /\ FilesReadable' /\ MatchesRefer' /\ FilesRefer'
  BY <1>9, <1>10
  DEF StructuresAgree, FilesReadable, MatchesRefer, FilesRefer, Good
<1>13. Inv'
  BY <1>11, <1>12 DEF Inv
<1>14. MatchedBranches!MNext
  <2> DEFINE object == [q \in Objects |-> IF conf[q] = Nothing THEN Nothing
                          ELSE View(conf[q].branches, conf[q].index)]
             stored == [h \in Files |-> ViewOfFile(file[h])]
  <2>1. /\ object[o] = View(c.branches, c.index) /\ object[o] # Nothing
        /\ o \in Objects
    BY <1>1, GoodIsSomething DEF c, Live
  <2>2. \A q \in Objects : object'[q] = object[q]
    <3>1. object'[o] = object[o]
      BY <1>2, <1>5, <2>1
    <3>2. \A q \in Objects : q # o => object'[q] = object[q]
      BY <1>5
    <3> QED
      BY <3>1, <3>2
  <2>3. object' = object
    BY <2>2
  <2>4. stored' = [stored EXCEPT ![f] = object[o]]
    <3>1. stored'[f] = object[o]
      BY <1>3, <1>6, <2>1
    <3>2. \A h \in Files : h # f => stored'[h] = stored[h]
      BY <1>6
    <3> QED
      BY <3>1, <3>2
  <2> QED
    BY <2>1, <2>3, <2>4 DEF MatchedBranches!MNext
<1> QED
  BY <1>13, <1>14

(***************************************************************************)
(* The theorems                                                            *)
(***************************************************************************)
\* Every call keeps the invariants and is a step of MatchedBranches.
LEMMA StepSound == Inv /\ Next => Inv' /\ MatchedBranches!MNext
<1> SUFFICES ASSUME Inv, NEW o \in Objects,
                    \/ Construct(o)
                    \/ Destroy(o)
                    \/ \E q \in Objects : CopyTo(o, q) \/ MergeWith(o, q)
                    \/ \E n \in NewNames : AddNewBranch(o, n)
                    \/ \E n \in BranchNames : RemoveBranch(o, n)
                    \/ \E q \in Objects, i \in Ids : AddBranchOf(o, q, i)
                    \/ \E q \in Objects, k \in 1 .. MaxEntries : AddMatchOf(o, q, k)
                    \/ \E i, j \in Ids : AddMatching(o, i, j)
                    \/ \E f \in Files : Write(o, f) \/ Read(o, f)
             PROVE  Inv' /\ MatchedBranches!MNext
  BY DEF Next
<1>1. CASE Construct(o)
  BY <1>1, ConstructStep
<1>2. CASE Destroy(o)
  BY <1>2, DestroyStep
<1>3. CASE \E q \in Objects : CopyTo(o, q) \/ MergeWith(o, q)
  BY <1>3, CopyToStep, MergeWithStep
<1>4. CASE \E n \in NewNames : AddNewBranch(o, n)
  BY <1>4, AddNewBranchStep
<1>5. CASE \E n \in BranchNames : RemoveBranch(o, n)
  BY <1>5, RemoveBranchStep
<1>6. CASE \E q \in Objects, i \in Ids : AddBranchOf(o, q, i)
  BY <1>6, AddBranchOfStep
<1>7. CASE \E q \in Objects, k \in 1 .. MaxEntries : AddMatchOf(o, q, k)
  BY <1>7, AddMatchOfStep
<1>8. CASE \E i, j \in Ids : AddMatching(o, i, j)
  BY <1>8, AddMatchingStep
<1>9. CASE \E f \in Files : Write(o, f) \/ Read(o, f)
  BY <1>9, WriteStep, ReadStep
<1> QED
  BY <1>1, <1>2, <1>3, <1>4, <1>5, <1>6, <1>7, <1>8, <1>9

\* A step that changes none of the variables keeps the invariants.
LEMMA StutterInv == Inv /\ UNCHANGED vars => Inv'
BY DEF Inv, vars, TypeOK, StructuresAgree, FilesReadable, MatchesRefer,
       FilesRefer, Live

\* Every reachable state satisfies the invariants.
THEOREM Invariance == Spec => []Inv
<1>1. Inv /\ [Next]_vars => Inv'
  BY StepSound, StutterInv
<1> QED
  BY <1>1, InitInv, PTL DEF Spec

\* The maps, the vector and the files hold ids, names and matchings of names.
THEOREM TypeCorrect == Spec => []TypeOK
<1>1. Inv => TypeOK
  BY DEF Inv
<1> QED
  BY <1>1, Invariance, PTL

\* matches_ and matches_index_ never disagree, whatever is added, copied,
\* merged, removed, written and read.
THEOREM StructuresAlwaysAgree == Spec => []StructuresAgree
<1>1. Inv => StructuresAgree
  BY DEF Inv
<1> QED
  BY <1>1, Invariance, PTL

\* No file that was written makes the Streamer throw.
THEOREM FilesStayReadable == Spec => []FilesReadable
<1>1. Inv => FilesReadable
  BY DEF Inv
<1> QED
  BY <1>1, Invariance, PTL

\* A matching joins branches of its configuration, unless it was copied to one
\* with another branch under an id of its own.
THEOREM MatchesAlwaysRefer == Spec => []MatchesRefer
<1>1. Inv => MatchesRefer
  BY DEF Inv
<1> QED
  BY <1>1, Invariance, PTL

\* Every behaviour of Configuration is one of MatchedBranches.
THEOREM Refinement == Spec => ImplementsMatchedBranches
<1>1. Init => MatchedBranches!MInit
  BY DEF Init, MatchedBranches!MInit
<1>2. ASSUME Inv, [Next]_vars
      PROVE  [MatchedBranches!MNext]_MatchedBranches!mvars
  BY <1>2, StepSound DEF vars, MatchedBranches!mvars
<1> QED
  BY <1>1, <1>2, Invariance, PTL
  DEF Spec, ImplementsMatchedBranches, MatchedBranches!MSpec
=============================================================================
