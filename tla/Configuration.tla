--------------------------- MODULE Configuration ---------------------------
(***************************************************************************)
(* Class Configuration (core/Configuration.hpp, .cpp): the branches of an  *)
(* analysis tree by id and the matchings between them.  The matchings are  *)
(* kept twice, in the vector matches_, which is written to file, and in    *)
(* the map matches_index_, which is not.  Every edit, the custom Streamer  *)
(* and the reading of older files must keep the two the same.              *)
(*                                                                         *)
(* Callers are those of the repository: Chain::InitConfiguration copies    *)
(* the branches of another configuration before its matchings, and         *)
(* Chain::CloneConfiguration is CopyTo followed by RemoveBranch.           *)
(***************************************************************************)
EXTENDS Integers, SequencesExt

CONSTANTS
  Objects,            \* the C++ variables that may hold a Configuration
  Files,              \* files on disk
  BranchNames,
  NewNames,           \* the names of the branches this program makes
  Ids,                \* branch ids: hashes of names, and ids in old files
  IdOf,               \* IdOf[n]: the id the constructor of BranchConfig gives
  DataBranch(_, _),   \* DataBranch(m, n): the string m + "2" + n
  InMapOrder,         \* InMapOrder[S]: the keys S as std::map iterates them
  InitialFiles,       \* what a file may hold before the program starts
  Nothing,            \* an absent object or file
  MaxEntries,         \* bound on branches and matchings of two objects
  MaxWritten          \* bound on branches and matchings written to a file

Pairs == BranchNames \X BranchNames

DataNames == {DataBranch(m, n) : m, n \in BranchNames}

\* f is a std::map<S, T>.
IsMap(f, S, T) == DOMAIN f \subseteq S /\ f \in [DOMAIN f -> T]

MatchingConfig == [from : BranchNames, to : BranchNames, data : DataNames]

IsConfig(c) ==
  /\ DOMAIN c = {"branches", "matches", "index"}
  /\ IsMap(c.branches, Ids, BranchNames)
  /\ c.matches \in Seq(MatchingConfig)          \* matches_
  /\ IsMap(c.index, Pairs, DataNames)          \* matches_index_

\* A file of version 4 holds matches_, one of version 3 the map.  Files of
\* other versions are not understood.
IsFile(f) ==
  CASE f.version = 4 -> /\ IsMap(f.branches, Ids, BranchNames)
                        /\ f.matches \in Seq(MatchingConfig)
    [] f.version = 3 -> /\ IsMap(f.branches, Ids, BranchNames)
                        /\ IsMap(f.matches, Pairs, DataNames)
    [] OTHER -> TRUE

\* Every matching of the index joins two of the branches.
Refers(branches, index) ==
  \A p \in DOMAIN index :
    {p[1], p[2]} \subseteq {branches[i] : i \in DOMAIN branches}

ASSUME ConfigurationAssumption ==
  /\ Objects \cap Files = {}
  /\ Ids \subseteq Int /\ NewNames \subseteq BranchNames
  /\ IdOf \in [BranchNames -> Ids]
  /\ \A m, n \in BranchNames : IdOf[m] = IdOf[n] => m = n
  /\ \A S \in SUBSET Pairs : /\ InMapOrder[S] \in Seq(Pairs)
                             /\ ToSet(InMapOrder[S]) = S
                             /\ IsInjective(InMapOrder[S])
  /\ \A f \in InitialFiles \ {Nothing} : f.version # 4 /\ IsFile(f)
  /\ \A f \in InitialFiles \ {Nothing} :
       f.version = 3 => Refers(f.branches, f.matches)

\* The absent object or file is none of the records that stand for one.
ASSUME NothingAssumption ==
  LET Maps(S, T) == UNION {[D -> T] : D \in SUBSET S}
      Branches == Maps(Ids, BranchNames)
      Index == Maps(Pairs, DataNames)
      Vector == Seq(MatchingConfig)
  IN /\ Nothing \notin [branches : Branches, matches : Vector, index : Index]
     /\ Nothing \notin [version : {4}, branches : Branches, matches : Vector]
     /\ Nothing \notin [branches : Branches, matches : Index]

VARIABLES
  conf, file,
  mixed               \* history: the objects and files whose matchings were
                      \* copied to branches that clash with their own

vars == <<conf, file, mixed>>

Live == {o \in Objects : conf[o] # Nothing}

Init ==
  /\ conf = [o \in Objects |-> Nothing]
  /\ file \in [Files -> InitialFiles]
  /\ mixed = {}

NewConfig == [branches |-> <<>>, matches |-> <<>>, index |-> <<>>]

(***************************************************************************)
(* The private helpers                                                     *)
(***************************************************************************)
PairOf(m) == <<m.from, m.to>>

Entry(p, data) == [from |-> p[1], to |-> p[2], data |-> data]

\* MakeMatchingIndex throws when a pair occurs twice.
MakeMatchingIndexOk(ms) ==
  \A i, j \in DOMAIN ms : PairOf(ms[i]) = PairOf(ms[j]) => i = j

MakeMatchingIndex(ms) ==
  [p \in {PairOf(ms[i]) : i \in DOMAIN ms} |->
     ms[CHOOSE i \in DOMAIN ms : PairOf(ms[i]) = p].data]

MakeMatchConfigsFromIndex(index) ==
  LET keys == InMapOrder[DOMAIN index]
  IN [i \in DOMAIN keys |-> Entry(keys[i], index[keys[i]])]

Names(c) == {c.branches[i] : i \in DOMAIN c.branches}

Joins(m, p, q) == {m.from, m.to} = {p, q}

(***************************************************************************)
(* The edits, as functions of the object                                   *)
(***************************************************************************)
\* emplace leaves the map alone when the id is taken.
AddBranchConfig(c, i, n) ==
  IF i \in DOMAIN c.branches THEN c
  ELSE [c EXCEPT !.branches = [j \in DOMAIN @ \cup {i} |->
                                 IF j = i THEN n ELSE @[j]]]

\* Mutant of AddMatch: only a match in the same direction is found.
AddMatchOneWay(c, m) ==
  IF \E i \in DOMAIN c.matches : PairOf(c.matches[i]) = PairOf(m) THEN c
  ELSE [c EXCEPT !.matches = Append(@, m),
                 !.index = MakeMatchingIndex(Append(c.matches, m))]

\* A match in either direction already there: a warning, nothing changes.
AddMatch(c, m) ==
  IF \E i \in DOMAIN c.matches : Joins(c.matches[i], m.from, m.to) THEN c
  ELSE [c EXCEPT !.matches = Append(@, m),
                 !.index = MakeMatchingIndex(Append(c.matches, m))]

\* Mutant of RemoveBranchConfig: matches_ is not rebuilt.
RemoveBranchConfigIndexOnly(c, n) ==
  [c EXCEPT
     !.branches = [i \in {j \in DOMAIN @ : @[j] # n} |-> @[i]],
     !.index = [p \in {q \in DOMAIN @ : n \notin {q[1], q[2]}} |-> @[p]]]

\* Mutant of RemoveBranchConfig: matchings to the branch stay.
RemoveBranchConfigFirstOnly(c, n) ==
  LET left == [p \in {q \in DOMAIN c.index : q[1] # n} |-> c.index[p]]
  IN [branches |-> [i \in {j \in DOMAIN c.branches : c.branches[j] # n} |->
                      c.branches[i]],
      matches  |-> MakeMatchConfigsFromIndex(left),
      index    |-> left]

RemoveBranchConfig(c, n) ==
  LET left == [p \in {q \in DOMAIN c.index : n \notin {q[1], q[2]}} |-> c.index[p]]
  IN [branches |-> [i \in {j \in DOMAIN c.branches : c.branches[j] # n} |->
                      c.branches[i]],
      matches  |-> MakeMatchConfigsFromIndex(left),
      index    |-> left]

\* Merge of Infra v1 takes the other branches in the order of their ids and
\* throws at the first whose id or name is in use; no matching is merged.
Clashes(c, d) ==
  {i \in DOMAIN d.branches :
     \/ i \in DOMAIN c.branches \/ d.branches[i] \in Names(c)
     \/ \E j \in DOMAIN d.branches : j < i /\ d.branches[j] = d.branches[i]}

Merge(c, d) ==
  LET taken == {i \in DOMAIN d.branches : \A j \in Clashes(c, d) : i < j}
  IN [c EXCEPT !.branches = [i \in DOMAIN @ \cup taken |->
                               IF i \in DOMAIN @ THEN @[i] ELSE d.branches[i]]]

\* Streamer, writing: matches_ is rebuilt from the index and stored.
Streamed(c) == [c EXCEPT !.matches = MakeMatchConfigsFromIndex(c.index)]

\* Mutant of Stored: the vector is not cleared before it is rebuilt.
StoredTwice(c) ==
  [version |-> 4, branches |-> c.branches,
   matches |-> c.matches \o Streamed(c).matches]

Stored(c) ==
  [version |-> 4, branches |-> c.branches, matches |-> Streamed(c).matches]

\* Streamer, reading into the default object TFile::Get makes.  Of a version
\* other than 3 and 4 nothing is read and only a warning given.
ReadOk(f) == f.version = 4 => MakeMatchingIndexOk(f.matches)

Loaded(f) ==
  CASE f.version = 4 ->
         [branches |-> f.branches, matches |-> f.matches,
          index |-> MakeMatchingIndex(f.matches)]
    [] f.version = 3 ->
         [branches |-> f.branches,
          matches  |-> MakeMatchConfigsFromIndex(f.matches),
          index    |-> f.matches]
    [] OTHER -> NewConfig

(***************************************************************************)
(* The calls                                                               *)
(***************************************************************************)
Size(c) == Cardinality(DOMAIN c.branches) + Len(c.matches)

Bounded ==
  \A o, q \in Live :
    Size(conf[o]) + (IF o = q THEN 0 ELSE Size(conf[q])) <= MaxEntries

Mark(x, isMixed) == IF isMixed THEN mixed \cup {x} ELSE mixed \ {x}

Becomes(o, c, isMixed) ==
  /\ conf' = [conf EXCEPT ![o] = c]
  /\ mixed' = Mark(o, isMixed)
  /\ UNCHANGED file
  /\ Bounded'

Edit(o, c) == Becomes(o, c, o \in mixed)

Construct(o) == o \notin Live /\ Becomes(o, NewConfig, FALSE)

Destroy(o) == o \in Live /\ Becomes(o, Nothing, FALSE)

CopyTo(o, q) == q \in Live /\ Becomes(o, conf[q], q \in mixed)

AddNewBranch(o, n) ==
  o \in Live /\ Edit(o, AddBranchConfig(conf[o], IdOf[n], n))

\* Chain::InitConfiguration, first loop.
AddBranchOf(o, q, i) ==
  /\ {o, q} \subseteq Live /\ i \in DOMAIN conf[q].branches
  /\ Edit(o, AddBranchConfig(conf[o], i, conf[q].branches[i]))

\* One id, two branches: ids in old files were counters.
Clash(c, d) ==
  \E i \in DOMAIN c.branches \cap DOMAIN d.branches : c.branches[i] # d.branches[i]

\* Chain::InitConfiguration, second loop: every branch of q was added before.
AddMatchOf(o, q, k) ==
  /\ {o, q} \subseteq Live /\ k \in DOMAIN conf[q].matches
  /\ DOMAIN conf[q].branches \subseteq DOMAIN conf[o].branches
  /\ Becomes(o, AddMatch(conf[o], conf[q].matches[k]),
             o \in mixed \/ q \in mixed \/ Clash(conf[o], conf[q]))

\* Mutant of AddMatching: second branch and data branch swapped, all strings.
AddMatchingSwapped(o, i, j) ==
  /\ o \in Live /\ i # j /\ {i, j} \subseteq DOMAIN conf[o].branches
  /\ LET m == conf[o].branches[i]
         n == conf[o].branches[j]
     IN Edit(o, AddMatch(conf[o], Entry(<<m, DataBranch(m, n)>>, n)))

\* AddMatch(Matching*) throws when one of the ids is not a branch.  No caller
\* matches a branch with itself.
AddMatching(o, i, j) ==
  /\ o \in Live /\ i # j /\ {i, j} \subseteq DOMAIN conf[o].branches
  /\ LET m == conf[o].branches[i]
         n == conf[o].branches[j]
     IN Edit(o, AddMatch(conf[o], Entry(<<m, n>>, DataBranch(m, n))))

RemoveBranch(o, n) ==
  o \in Live /\ Edit(o, RemoveBranchConfig(conf[o], n))

MergeWith(o, q) ==
  {o, q} \subseteq Live /\ Edit(o, Merge(conf[o], conf[q]))

Write(o, f) ==
  /\ o \in Live /\ Size(conf[o]) <= MaxWritten
  /\ file' = [file EXCEPT ![f] = Stored(conf[o])]
  /\ conf' = [conf EXCEPT ![o] = Streamed(@)]
  /\ mixed' = Mark(f, o \in mixed)

Read(o, f) ==
  /\ o \notin Live /\ file[f] # Nothing /\ ReadOk(file[f])
  /\ Becomes(o, Loaded(file[f]), f \in mixed)

Next ==
  \E o \in Objects :
    \/ Construct(o)
    \/ Destroy(o)
    \/ \E q \in Objects : CopyTo(o, q) \/ MergeWith(o, q)
    \/ \E n \in NewNames : AddNewBranch(o, n)
    \/ \E n \in BranchNames : RemoveBranch(o, n)
    \/ \E q \in Objects, i \in Ids : AddBranchOf(o, q, i)
    \/ \E q \in Objects, k \in 1 .. MaxEntries : AddMatchOf(o, q, k)
    \/ \E i, j \in Ids : AddMatching(o, i, j)
    \/ \E f \in Files : Write(o, f) \/ Read(o, f)

Spec == Init /\ [][Next]_vars

(***************************************************************************)
(* Properties                                                              *)
(***************************************************************************)
\* The maps and the vector of each object, and of each file of a version the
\* Streamer knows, hold ids, names and matchings of names.
TypeOK ==
  /\ DOMAIN conf = Objects /\ DOMAIN file = Files
  /\ mixed \subseteq Objects \cup Files
  /\ \A o \in Live : IsConfig(conf[o])
  /\ \A f \in Files : file[f] # Nothing => IsFile(file[f])

SameMatches(c) ==
  /\ MakeMatchingIndexOk(c.matches)
  /\ MakeMatchingIndex(c.matches) = c.index

\* matches_ and matches_index_ hold the same matchings, each pair once, after
\* any sequence of edits, writes and reads.  GetMatchesOfBranch reads one and
\* GetMatchInfo the other, so TaskManager would otherwise exclude a branch and
\* keep its matching, and a later AddMatch would bring back a removed one.
StructuresAgree == \A o \in Live : SameMatches(conf[o])

\* What was written can be read: no file of version 4 makes the Streamer throw.
FilesReadable == \A f \in Files : file[f] # Nothing => ReadOk(file[f])

\* Every matching joins two branches of the configuration, whatever was added,
\* removed, written and read, unless it was copied by id from a configuration
\* with another branch of that id: the copy of that branch is silently dropped
\* and the copy of its matching is not.
MatchesRefer ==
  \A o \in Live \ mixed : Refers(conf[o].branches, conf[o].index)

\* What the users of a configuration see of it.
View(branches, index) == [branches |-> branches, matches |-> index]

ViewOfFile(f) ==
  IF f = Nothing THEN Nothing
  ELSE CASE f.version = 4 -> View(f.branches, MakeMatchingIndex(f.matches))
         [] f.version = 3 -> View(f.branches, f.matches)
         [] OTHER         -> View(<<>>, <<>>)

MatchedBranches == INSTANCE MatchedBranches WITH
  object <- [o \in Objects |->
               IF conf[o] = Nothing THEN Nothing
               ELSE View(conf[o].branches, conf[o].index)],
  stored <- [f \in Files |-> ViewOfFile(file[f])]

\* Seen through the index, a configuration is a set of branches and of
\* matchings that keep their direction and data branch until one of their
\* branches is removed, and that files reproduce.
ImplementsMatchedBranches == MatchedBranches!MSpec
=============================================================================
