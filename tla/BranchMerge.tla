---------------------------- MODULE BranchMerge ----------------------------
(***************************************************************************)
(* Pairs of channels written as one record: a branch made with             *)
(* BranchConfig::CloneAndMerge of two others, and its records filled with  *)
(* BranchChannel::MergeContentFromTwoChannels.  The names the one gives to *)
(* the fields are the names the other looks for.                           *)
(***************************************************************************)
EXTENDS Branch

CONSTANTS
  SourceName,   \* the names of the branches that are read, by variable
  NullChannel   \* Branch::NullChannel()

\* A branch has a name: the prefix of its fields' names in a merged one.  The
\* three cases of a merge are values.
ASSUME BranchMergeAssumption ==
  /\ DOMAIN SourceName \subseteq Branches
  /\ \A b \in DOMAIN SourceName : SourceName[b] \in BranchNames \ {NoPrefix}
  /\ {2 * case : case \in 0 .. 2} \subseteq Values

VARIABLES
  merged,   \* what the last call merged, NullChannel after any other call
  used,     \* the <<target, source, prefix>> of the copies made so far
  parts     \* the two branches each target was made of

mvars == <<br, late, reopened, mixed, merged, used, parts>>

MergeInit ==
  Init /\ merged = NullChannel /\ used = {} /\ parts = [b \in Branches |-> <<>>]

(***************************************************************************)
(* Copying                                                                 *)
(***************************************************************************)
\* CopyContent of channel s with prefix p into x.record of branch d, unless a
\* step of the call threw before, or this one does.
CopyInto(x, d, s, p) ==
  LET known == x.mapping[s.branch] # NoMapping
      pairs == IF known THEN x.mapping[s.branch]
               ELSE Pairs(br[s.branch].config, br[d].config, p)
      from  == br[s.branch].records[s.row]
  IN IF ~x.ok \/ s = NullChannel THEN x
     ELSE IF ~known /\ ~(br[d].frozen /\ br[s.branch].frozen)
     THEN [x EXCEPT !.ok = FALSE]
     ELSE [mapping |-> [x.mapping EXCEPT ![s.branch] = pairs],
           record  |-> Copied(x.record, from, pairs),
           ok      |-> CopiedPairs(x.record, from, pairs) = pairs]

Untouched(d, i) ==
  [mapping |-> br[d].mapping, record |-> br[d].records[i], ok |-> TRUE]

PrefixOf(s) == br[s.branch].config.name

\* Mutant of BothCopied: the second channel is copied as the first is.
BothCopiedPlainly(d, i, f, s) ==
  CopyInto(CopyInto(Untouched(d, i), d, f, NoPrefix), d, s, NoPrefix)

BothCopied(d, i, f, s) ==
  CopyInto(CopyInto(Untouched(d, i), d, f, NoPrefix), d, s, PrefixOf(s))

\* 0 - both present, 1 - only the first, 2 - only the second.
MatchingCase(f, s) ==
  IF s = NullChannel THEN 1 ELSE IF f = NullChannel THEN 2 ELSE 0

WithCase(c, r, f, s) ==
  LET field == FieldOf(c, "matching_case")
  IN Written(r, {field}, [g \in {field} |-> 2 * MatchingCase(f, s)])

Uses(d, f, s) ==
  (IF f = NullChannel THEN {} ELSE {<<d, f.branch, NoPrefix>>}) \cup
  (IF s = NullChannel THEN {} ELSE {<<d, s.branch, PrefixOf(s)>>})

\* SetValue of the case comes last and throws when there is no such field, as
\* in a branch merged of one that has EventHeaders.
MergeContentFromTwoChannels(d, i, f, s) ==
  LET x == BothCopied(d, i, f, s)
      c == br[d].config
      throws == ~x.ok \/ ~HasField(c, "matching_case")
  IN /\ f # NullChannel \/ s # NullChannel
     /\ br[d].mutable
     /\ br' = [br EXCEPT
                 ![d].mapping = x.mapping,
                 ![d].records[i] = IF throws THEN x.record
                                   ELSE WithCase(c, x.record, f, s)]
     /\ merged' = IF throws THEN NullChannel
                  ELSE [branch |-> d, row |-> i, first |-> f, second |-> s]
     /\ used' = used \cup Uses(d, f, s)
     /\ UNCHANGED <<late, reopened, mixed, parts>>

(***************************************************************************)
(* The branches                                                            *)
(***************************************************************************)
Sources == Live \cap DOMAIN SourceName

Targets == Branches \ DOMAIN SourceName

\* A branch that Chain::GetBranchObject makes of the input: its fields are
\* declared (in the order of their names), and it has the channels of the event.
WithNewFields(c, fs) ==
  WithFields(c, [t \in Types |-> {n \in Names : <<n, t>> \in fs}])

ReadSource(b, t, fs) ==
  /\ \A f \in fs : ~HasField(NewConfig(SourceName[b], t), f[1])
  /\ \A f, g \in fs : f[1] = g[1] => f = g
  /\ Construct(b, WithNewFields(NewConfig(SourceName[b], t), fs), 1)

\* The names a merge gives are among those modelled.
NamesModelled(a, b) ==
  /\ "matching_case" \in Names
  /\ \A t \in Types : \A n \in Fields(b, t) : Prefixed(b.name, n) \in Names

\* A task declares the merged branch while it initialises (its name, of both,
\* is left out).
ConstructMerged(d, a, b) ==
  /\ a # b /\ MergeOk(br[a].config, br[b].config)
  /\ NamesModelled(br[a].config, br[b].config)
  /\ Construct(d, CloneAndMerge(br[a].config, br[b].config, br[a].config.name), 0)
  /\ parts' = [parts EXCEPT ![d] = <<a, b>>]

Channels ==
  {NullChannel} \cup UNION {{[branch |-> b, row |-> i] : i \in Records(b)} : b \in Sources}

\* The branches' own operations, between the merges.
OtherCall ==
  /\ \/ \E b \in DOMAIN SourceName, t \in DetTypes, fs \in SUBSET NewFields :
          ReadSource(b, t, fs)
     \/ \E b \in Sources : Freeze(b, TRUE)
     \/ \E d \in Live \cap Targets : SetMutable(d, TRUE) \/ NewChannel(d)
     \/ \E b \in Sources : \E i \in Records(b), n \in UserNames, v \in Inputs :
          SetValue(b, i, n, v)
  /\ UNCHANGED parts

CopyOne(d, i, s) ==
  /\ CopyContent(d, i, s.branch, s.row, NoPrefix)
  /\ merged' = NullChannel
  /\ used' = used \cup Uses(d, s, NullChannel)
  /\ UNCHANGED parts

MergeNext ==
  /\ \/ /\ \/ OtherCall
           \/ \E d \in Targets, a, b \in Sources : ConstructMerged(d, a, b)
        /\ merged' = NullChannel
        /\ UNCHANGED used
     \/ \E d \in Live \cap Targets : \E i \in Records(d) :
          \/ \E s \in Channels \ {NullChannel} : CopyOne(d, i, s)
          \/ \E f, s \in Channels : MergeContentFromTwoChannels(d, i, f, s)
  /\ Bounded'
  /\ mvars' # mvars

MergeSpec == MergeInit /\ [][MergeNext]_mvars

(***************************************************************************)
(* Properties                                                              *)
(***************************************************************************)
\* Each branch was copied into d with one prefix only: never as the first and
\* as the second of two pairs, or of one.
OneRoleEach(d) ==
  \A u, v \in used : u[1] = d /\ v[1] = d /\ u[2] = v[2] => u[3] = v[3]

\* The names channel s has values for when it is copied with prefix p.
Given(s, p) ==
  {Target(p, n) : n \in {m \in Names : HasField(br[s.branch].config, m)}}

\* No two of the three things a merge writes go by one name.
NamesApart(f, s) ==
  /\ f # NullChannel => "matching_case" \notin Given(f, NoPrefix)
  /\ s # NullChannel => "matching_case" \notin Given(s, PrefixOf(s))
  /\ f # NullChannel /\ s # NullChannel => Given(f, NoPrefix) \cap Given(s, PrefixOf(s)) = {}

\* The channels are of the branches that d was made of.
InRoles(d, f, s) ==
  /\ f # NullChannel => f.branch = parts[d][1]
  /\ s # NullChannel => s.branch = parts[d][2]

\* d was made of two branches with channels, and has a field for the case.
HasCase(d) == HasMatchingCase(br[parts[d][1]].config, br[parts[d][2]].config)

\* The record r of d has the values of channel s under the names with prefix
\* p, as its fields' types keep them: all of them when s is of branch b.
HasContents(d, r, s, p, b) ==
  LET c   == br[d].config
      row == NamedRow(br[s.branch].config, br[s.branch].records[s.row])
  IN \A n \in DOMAIN row : LET m == Target(p, n) IN
       IF m \in StoredFields(c)
       THEN Value(r, FieldOf(c, m)) = Convert(GetFieldType(c, m), row[n])
       ELSE s.branch # b

\* After MergeContentFromTwoChannels the record holds every field of the two
\* channels that the branch was made of, under the name CloneAndMerge gave it,
\* and of other branches the fields there are names for; its case says which
\* channels there were.  Provided the branch was made of two that have channels,
\* names of other branches do not run into each other, and no branch had two
\* roles for the target: a mapping once made is used whatever the prefix.
MergedRecordHolds ==
  merged # NullChannel =>
    LET d == merged.branch
        f == merged.first
        s == merged.second
        r == br[d].records[merged.row]
    IN OneRoleEach(d) /\ HasCase(d) /\ (InRoles(d, f, s) \/ NamesApart(f, s)) =>
         /\ f # NullChannel => HasContents(d, r, f, NoPrefix, parts[d][1])
         /\ s # NullChannel => HasContents(d, r, s, PrefixOf(s), parts[d][2])
         /\ Value(r, FieldOf(br[d].config, "matching_case")) = 2 * MatchingCase(f, s)
=============================================================================
