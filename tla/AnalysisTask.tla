---------------------------- MODULE AnalysisTask ----------------------------
(***************************************************************************)
(* An AnalysisTask (infra/AnalysisTask.hpp, .cpp) and its AnalysisEntries  *)
(* (infra/AnalysisEntry.hpp, .cpp): before the run, the user adds entries  *)
(* (variables, a cut, a weight), of which those over the same branches     *)
(* with the same cut and weight share one table; Init binds them to the    *)
(* branches and to the Matching of the two branches that have channels;    *)
(* Exec evaluates the tables for each event.                               *)
(*                                                                         *)
(* A variable is [key, branches, fn]: key stands for its name and fields,  *)
(* which are compared, fn for its function, which is not.  What a variable *)
(* yields is the term <<key, fn, channels it reads>>.  Cuts are objects    *)
(* that the entries and the branch cuts of the task point to.              *)
(***************************************************************************)
EXTENDS EntryVariables, Matching

CONSTANTS
  HeaderBranches,     \* branches of type kEventHeader: one channel, number 0
  ChannelBranches,
  NameOrder,          \* the branch names as std::set iterates them
  MatchIndexes,       \* what Configuration::matches_index_ may hold
  CutObjects,
  CutBranches,        \* CutBranches[c]: the branches of the cut's variables
  Signature,          \* Signature[c]: name, variables, titles and hashes
  LambdaSignature,    \* ... of a cut defined by a function, equal to no other
  Passes(_, _),       \* Passes(c, at): the cut accepts these channels
  NoCut,              \* nullptr
  NoWeight,           \* the default Variable, of no branch
  Requests,           \* the entries the user may add, of fields that exist
  EventSizes,         \* the numbers of channels events may have
  MaxRequests,        \* bound on calls of AddEntry
  MaxMatches          \* bound on the matches of an event

Branches == HeaderBranches \cup ChannelBranches

ASSUME AnalysisTaskAssumption ==
  /\ HeaderBranches \cap ChannelBranches = {}
  /\ NameOrder \in Seq(Branches)
  /\ ToSet(NameOrder) = Branches /\ IsInjective(NameOrder)
  /\ \A pairs \in MatchIndexes :
       /\ pairs \subseteq ChannelBranches \X ChannelBranches
       /\ \A p \in pairs : <<p[2], p[1]>> \notin pairs
  /\ NoCut \notin CutObjects
  /\ \A c \in CutObjects : CutBranches[c] \subseteq Branches
  /\ EventSizes \subseteq [ChannelBranches -> Nat]

VARIABLES
  phase,        \* "setup", "running", "rejected" or "failed" by an exception
  index,        \* the pairs of branches the configuration has a matching of
  entries,      \* entries_
  granted,      \* history: the calls of AddEntry and what they returned
  cutsMap,      \* cuts_map_
  ready,        \* the cuts whose is_init_ is set
  size,         \* the numbers of channels of the current event
  matching,     \* its Matching objects, by pair of branches
  registered,   \* history: the pairs of channels AddMatch was called with
  executed      \* the tables are those of the current event

event == <<size, matching, registered>>

vars == <<phase, index, entries, granted, cutsMap, ready, event, executed>>

Init ==
  /\ phase = "setup"
  /\ index \in MatchIndexes
  /\ entries = <<>> /\ granted = <<>>
  /\ cutsMap = <<>> /\ ready = {}
  /\ size = [b \in ChannelBranches |-> 0]
  /\ matching = [p \in index |-> NoMatches]
  /\ registered = [p \in index |-> {}]
  /\ executed = FALSE

(***************************************************************************)
(* Variables and cuts                                                      *)
(***************************************************************************)
\* Cuts::Equal: one object, or equal name and SimpleCuts, where two SimpleCuts
\* defined by functions never are.
EqualCuts(c, d) ==
  \/ c = d
  \/ /\ NoCut \notin {c, d}
     /\ Signature[c] # LambdaSignature /\ Signature[c] = Signature[d]

\* IfEmptyVariableConvertToOnes: the weight is the field "ones" of the first
\* branch of the first variable.
OnesOf(v) ==
  LET first == Those(NameOrder, v.branches)[1]
  IN [key |-> <<first, "ones">>, branches |-> {first}, fn |-> "first"]

WeightOf(r) == IF r.weight = NoWeight THEN OnesOf(r.vars[1]) ELSE r.weight

\* The variables of the requests and the weights they are given.
Variables == UNION {ToSet(r.vars) \cup {WeightOf(r)} : r \in Requests}

\* The fields that are compared name the branches of a variable.
ASSUME RequestsAssumption ==
  /\ Requests \subseteq [vars   : Seq(Variables) \ {<<>>},
                         cut    : CutObjects \cup {NoCut},
                         weight : Variables \cup {NoWeight}]
  /\ \A v \in Variables : v.branches \subseteq Branches
  /\ \A v, w \in Variables : SameVariable(v, w) => v.branches = w.branches

BranchesOfCut(c) == IF c = NoCut THEN {} ELSE CutBranches[c]

\* Mutant of BranchNames: the cut's branches are left out too.
BranchNamesOfVars(r) == UNION {r.vars[i].branches : i \in DOMAIN r.vars}

\* FillBranchNames: the weight's branches are not among them.
BranchNames(r) ==
  (UNION {r.vars[i].branches : i \in DOMAIN r.vars}) \cup BranchesOfCut(r.cut)

\* Variable::GetValue finds every field it reads among the channels given.
Readable(v, at) == v.branches \subseteq DOMAIN at

(***************************************************************************)
(* AddEntry                                                                *)
(***************************************************************************)
NewEntry(r) ==
  [names |-> BranchNames(r), vars |-> r.vars, weight |-> WeightOf(r),
   cut |-> r.cut, cuts |-> <<>>, match |-> <<>>, inverted |-> FALSE,
   rows |-> <<>>]

SharesTable(e, r) ==
  /\ e.names = BranchNames(r)
  /\ EqualCuts(e.cut, r.cut)
  /\ SameVariable(e.weight, WeightOf(r))

\* Mutant of AddedTo: the ids of a new entry are returned.
AddedToIota(list, k, r) ==
  LET added == AddVariables(list[k].vars, r.vars)
  IN [entries |-> [list EXCEPT ![k].vars = added.vars], entry |-> k,
      ids |-> [i \in DOMAIN r.vars |-> i - 1]]

AddedTo(list, k, r) ==
  LET added == AddVariables(list[k].vars, r.vars)
  IN [entries |-> [list EXCEPT ![k].vars = added.vars], entry |-> k, ids |-> added.ids]

AddedNew(list, r) ==
  [entries |-> Append(list, NewEntry(r)), entry |-> Len(list) + 1,
   ids |-> [i \in DOMAIN r.vars |-> i - 1]]

\* AnalysisTask::AddEntry: the entries and the pair it returns.
Added(list, r) ==
  LET sharing == {k \in DOMAIN list : SharesTable(list[k], r)}
  IN IF sharing = {} THEN AddedNew(list, r) ELSE AddedTo(list, Min(sharing), r)

\* Entries are added before TaskManager::Init, as by every task of the
\* repository; the code does not check it.
AddEntry(r) ==
  /\ phase = "setup" /\ Len(granted) < MaxRequests
  /\ LET added == Added(entries, r)
     IN /\ entries' = added.entries
        /\ granted' = Append(granted, [request |-> r, entry |-> added.entry,
                                       ids |-> added.ids])
  /\ UNCHANGED <<phase, index, cutsMap, ready, event, executed>>

\* AddBranchCut throws for a cut on several branches and for a second one.
AddBranchCut(c) ==
  /\ phase \in {"setup", "running"}
  /\ \E b \in Branches :
       /\ CutBranches[c] = {b} /\ b \notin DOMAIN cutsMap
       /\ cutsMap' = [x \in DOMAIN cutsMap \cup {b} |->
                        IF x = b THEN c ELSE cutsMap[x]]
  /\ UNCHANGED <<phase, index, entries, granted, ready, event, executed>>

(***************************************************************************)
(* Init: the task's, for each entry the entry's                            *)
(***************************************************************************)
\* The branches of the non-EventHeader indices, in the order of the names.
WithChannels(names) ==
  Those(NameOrder, names \cap ChannelBranches)

\* Configuration::GetMatchInfo: the pair its Matching has, and whether the
\* branches were asked for the other way round.
HasMatchInfo(b, c) == {<<b, c>>, <<c, b>>} \cap index # {}

\* Mutant of GetMatchInfo: the direction is not reported.
GetMatchInfoAsIs(b, c) ==
  [pair |-> IF <<b, c>> \in index THEN <<b, c>> ELSE <<c, b>>, inverted |-> FALSE]

GetMatchInfo(b, c) ==
  IF <<b, c>> \in index THEN [pair |-> <<b, c>>, inverted |-> FALSE]
  ELSE [pair |-> <<c, b>>, inverted |-> TRUE]

\* At most two branches with channels, and a matching of the two.
Accepted(e) ==
  LET free == WithChannels(e.names)
  IN Len(free) <= 2 /\ (Len(free) = 2 => HasMatchInfo(free[1], free[2]))

\* The entry keeps the branch cuts there are now.
Bound(e) ==
  LET free == WithChannels(e.names)
      own  == [e EXCEPT !.cuts = [b \in e.names |->
                 IF b \in DOMAIN cutsMap THEN cutsMap[b] ELSE NoCut]]
  IN IF Len(free) # 2 THEN own
     ELSE LET info == GetMatchInfo(free[1], free[2])
          IN [own EXCEPT !.match = info.pair, !.inverted = info.inverted]

CutsOfEntries(list) == {e.cut : e \in ToSet(list)} \ {NoCut}

\* The cuts of the entries are initialised here, the branch cuts are not.
InitTask ==
  /\ phase = "setup"
  /\ IF \A k \in DOMAIN entries : Accepted(entries[k])
     THEN /\ phase' = "running"
          /\ entries' = [k \in DOMAIN entries |-> Bound(entries[k])]
          /\ ready' = ready \cup CutsOfEntries(entries)
     ELSE phase' = "rejected" /\ UNCHANGED <<entries, ready>>
  /\ UNCHANGED <<index, granted, cutsMap, event, executed>>

BranchCuts == {cutsMap[b] : b \in DOMAIN cutsMap}

\* The end of PlainTreeFiller::Init, which other tasks need not do.
InitBranchCuts ==
  /\ phase = "running"
  /\ ready' = ready \cup BranchCuts
  /\ UNCHANGED <<phase, index, entries, granted, cutsMap, event, executed>>

(***************************************************************************)
(* Events: Chain::GetEntry refills the objects the entries point to        *)
(***************************************************************************)
NextEvent(sizes) ==
  /\ phase = "running"
  /\ size' = sizes
  /\ matching' = [p \in index |-> NoMatches]
  /\ registered' = [p \in index |-> {}]
  /\ executed' = FALSE
  /\ UNCHANGED <<phase, index, entries, granted, cutsMap, ready>>

\* What the program that made the file did, as read with the event.
RegisterMatch(p, i, j) ==
  /\ phase = "running" /\ ~executed
  /\ p \in index /\ i < size[p[1]] /\ j < size[p[2]]
  /\ Cardinality(UNION {registered[q] : q \in index}) < MaxMatches
  /\ matching' = [matching EXCEPT ![p] = AddMatch(@, i, j)]
  /\ registered' = [registered EXCEPT ![p] = @ \cup {<<i, j>>}]
  /\ UNCHANGED <<phase, index, entries, granted, cutsMap, ready, size, executed>>

(***************************************************************************)
(* Exec                                                                    *)
(***************************************************************************)
\* The channels of the entry's branches: the given ones, 0 of the headers.
At(e, given) ==
  [b \in e.names |-> IF b \in DOMAIN given THEN given[b] ELSE 0]

\* The channels FillFromEveHeaders, FillFromOneChannalizedBranch and
\* FillFromTwoChannalizedBranches go through, in their order.
Candidates(e) ==
  LET free  == WithChannels(e.names)
      match == GetMatches(matching[e.match], e.inverted)
      keys  == Ascending(DOMAIN match)
  IN CASE Len(free) = 0 -> <<At(e, <<>>)>>
       [] Len(free) = 1 ->
            [n \in 1 .. size[free[1]] |-> At(e, [b \in {free[1]} |-> n - 1])]
       [] OTHER ->
            [n \in DOMAIN keys |->
               At(e, [b \in ToSet(free) |->
                        IF b = free[1] THEN keys[n] ELSE match[keys[n]]])]

\* Cuts::Apply and the variables it reads.
CutOutcome(c, at) ==
  CASE c = NoCut -> "pass"
    [] c # NoCut /\ (c \notin ready \/ ~(CutBranches[c] \subseteq DOMAIN at)) -> "throw"
    [] OTHER -> IF Passes(c, at) THEN "pass" ELSE "skip"

\* ApplyCutOnBranches: the branch cuts in the order of the branches, then the
\* cut of the entry; the first that does not pass decides.
ApplyCuts(e, at) ==
  LET own  == Those(NameOrder, e.names)
      outs == Append([n \in DOMAIN own |-> CutOutcome(e.cuts[own[n]], at)],
                     CutOutcome(e.cut, at))
      bad  == Those(outs, {"skip", "throw"})
  IN IF bad = <<>> THEN "pass" ELSE bad[1]

\* What happens with one candidate.
RowOutcome(e, at) ==
  IF /\ ApplyCuts(e, at) = "pass"
     /\ \E v \in ToSet(e.vars) \cup {e.weight} : ~Readable(v, at)
  THEN "throw" ELSE ApplyCuts(e, at)

Row(e, at) ==
  [at     |-> at,
   values |-> [i \in DOMAIN e.vars |-> Value(e.vars[i], at)],
   weight |-> Value(e.weight, at)]

\* FillValues: values_ and weights_ are cleared first.
Filled(e) ==
  LET all     == Candidates(e)
      passing == Those(all, {at \in ToSet(all) : RowOutcome(e, at) = "pass"})
  IN [e EXCEPT !.rows = [n \in DOMAIN passing |-> Row(e, passing[n])]]

Throws(e) == \E at \in ToSet(Candidates(e)) : RowOutcome(e, at) = "throw"

\* Nothing catches what Exec throws, so the tables it leaves are not read.
Exec ==
  /\ phase = "running" /\ ~executed
  /\ IF \E k \in DOMAIN entries : Throws(entries[k])
     THEN phase' = "failed" /\ UNCHANGED <<entries, executed>>
     ELSE /\ entries' = [k \in DOMAIN entries |-> Filled(entries[k])]
          /\ executed' = TRUE
          /\ UNCHANGED phase
  /\ UNCHANGED <<index, granted, cutsMap, ready, event>>

Next ==
  \/ \E r \in Requests : AddEntry(r)
  \/ \E c \in CutObjects : AddBranchCut(c)
  \/ InitTask
  \/ InitBranchCuts
  \/ \E sizes \in EventSizes : NextEvent(sizes)
  \/ \E p \in index, i, j \in UNION {0 .. size[b] - 1 : b \in ChannelBranches} :
       RegisterMatch(p, i, j)
  \/ Exec

Spec == Init /\ [][Next]_vars

(***************************************************************************)
(* Properties                                                              *)
(***************************************************************************)
\* Tables over the branches their names say, ids within the tables, matchings
\* between channels the event has.
TypeOK ==
  /\ phase \in {"setup", "running", "rejected", "failed"}
  /\ index \in MatchIndexes
  /\ \A k \in DOMAIN entries :
       /\ entries[k].names \subseteq Branches
       /\ phase = "running" => DOMAIN entries[k].cuts = entries[k].names
       /\ \A n \in DOMAIN entries[k].rows :
            Len(entries[k].rows[n].values) = Len(entries[k].vars)
  /\ \A g \in DOMAIN granted :
       /\ granted[g].entry \in DOMAIN entries
       /\ \A i \in DOMAIN granted[g].ids :
            granted[g].ids[i] \in 0 .. Len(entries[granted[g].entry].vars) - 1
  /\ \A b \in DOMAIN cutsMap : cutsMap[b] \in CutObjects
  /\ ready \subseteq CutObjects
  /\ size \in [ChannelBranches -> Nat]
  /\ \A p \in index : \A i \in DOMAIN matching[p].direct :
       i < size[p[1]] /\ matching[p].direct[i] < size[p[2]]

RequestedVariables ==
  UNION {ToSet(granted[g].request.vars) \cup {WeightOf(granted[g].request)} :
           g \in DOMAIN granted}

\* Every column AddEntry returned holds the variable that was asked for, with
\* the cut and the weight that were asked for, however many later requests
\* were put in the same table: of any two variables of one name and fields
\* both must have the same function, for the comparison does not see it.
ColumnsDenoteRequests ==
  (\A v, w \in RequestedVariables : SameVariable(v, w) => v.fn = w.fn) =>
    \A g \in DOMAIN granted :
      LET r == granted[g].request
          e == entries[granted[g].entry]
      IN /\ EqualCuts(e.cut, r.cut)
         /\ \A n \in DOMAIN e.rows :
              /\ e.rows[n].weight = Value(WeightOf(r), e.rows[n].at)
              /\ \A i \in DOMAIN r.vars :
                   e.rows[n].values[granted[g].ids[i] + 1] =
                     Value(r.vars[i], e.rows[n].at)

\* The pairs of channels AddMatch was called with for the branches b and c, in
\* whichever direction the configuration has their matching.
Matched(b, c) ==
  (IF <<b, c>> \in index THEN registered[<<b, c>>] ELSE {})
  \cup (IF <<c, b>> \in index
        THEN {<<ij[2], ij[1]>> : ij \in registered[<<c, b>>]} ELSE {})

\* The cuts that apply to the entry pass.
Selected(e, at) ==
  \A c \in ({e.cut} \cup {e.cuts[b] : b \in e.names}) \ {NoCut} : Passes(c, at)

\* The combinations of channels a table is about.
Wanted(e) ==
  {at \in [e.names -> 0 .. Max({0} \cup {size[b] : b \in ChannelBranches})] :
     /\ \A b \in e.names : at[b] < (IF b \in ChannelBranches THEN size[b] ELSE 1)
     /\ \A b, c \in e.names \cap ChannelBranches :
          b # c => <<at[b], at[c]>> \in Matched(b, c)
     /\ Selected(e, at)}

RowsOf(e) == {e.rows[n].at : n \in DOMAIN e.rows}

\* A table has rows of existing channels only, of two branches only pairs that
\* were registered as matches of them, the right way round, that pass every
\* cut, and no row twice.
RowsAreSelected ==
  executed => \A k \in DOMAIN entries :
    /\ RowsOf(entries[k]) \subseteq Wanted(entries[k])
    /\ Cardinality(RowsOf(entries[k])) = Len(entries[k].rows)

OneToOne ==
  \A p \in index : \A x, y \in registered[p] : x[1] = y[1] <=> x[2] = y[2]

\* No row is missing, provided no channel was matched twice in the event: of
\* several matches of one channel the maps of Matching keep the first, and
\* which of the two maps is read depends on the order of the branch names.
RowsComplete ==
  executed /\ OneToOne =>
    \A k \in DOMAIN entries : Wanted(entries[k]) \subseteq RowsOf(entries[k])

\* A task that came through Init evaluates every event, as long as its branch
\* cuts are initialised and no weight reads a branch that neither the
\* variables nor the cut of its entry read.
ReadyTaskRuns ==
  phase = "failed" =>
    \E k \in DOMAIN entries :
      \/ ~(entries[k].weight.branches \subseteq entries[k].names)
      \/ \E b \in entries[k].names : entries[k].cuts[b] \notin ready \cup {NoCut}
=============================================================================
