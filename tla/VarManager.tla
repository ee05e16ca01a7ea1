----------------------------- MODULE VarManager -----------------------------
(***************************************************************************)
(* The tasks of infra-1.0: VarManager with its VarManagerEntries and       *)
(* BranchReaders, and PlainTreeFiller, which is a VarManager with one      *)
(* entry.  A task is a record:                                             *)
(*   kind        "VarManager" or "PlainTreeFiller"                         *)
(*   branch      branch_name_ of a PlainTreeFiller                         *)
(*   inBranches  in_branches_                                              *)
(*   entries     entries_                                                  *)
(*   cutsMap     cuts_map_, by branch                                      *)
(*   readers     the branches of its BranchReaders, after Init             *)
(*   ready       the cuts its Init has initialised                         *)
(*   plain       the rows of the plain tree                                *)
(* The variables are those of EntryVariables.                              *)
(***************************************************************************)
EXTENDS TreeReader, EntryVariables, Matching

CONSTANTS
  NameOrder,        \* the branch names as std::set iterates them
  BranchFields(_),  \* the fields of a branch: float, int, bool, each by name
  CutObjects,
  CutBranches,      \* the branches of the cut's variables
  Signature,        \* the cut's name and the variables and titles it has
  Passes(_, _, _),  \* Passes(c, ev, at): c accepts these channels of event ev
  NoCut,            \* nullptr
  NoBranch          \* the empty name

(***************************************************************************)
(* Ids of branches are hashes in the records and the Configuration.  Field *)
(* keeps one in a short, VariantMagic passes the other as an int: an id is *)
(* represented by its low 32 bits, so that as an int it is itself.         *)
(***************************************************************************)
ToShort(id) == ((id + 2 ^ 15) % 2 ^ 16) - 2 ^ 15

\* Field::GetBranchId of a field against the id of its branch's record.  What
\* an id is cut down to is taken to be the id of no other branch.
IdSurvives(config, b) == ToShort(config.branch[b].id) = config.branch[b].id

IsHeader(config, b) == config.branch[b].type = "kEventHeader"

Sorted(names) == Those(NameOrder, names)

(***************************************************************************)
(* Entries and requests                                                    *)
(***************************************************************************)
\* Cuts::Equal: names, variables and titles, not the functions or bounds.
EqualCuts(c, d) ==
  \/ c = d
  \/ NoCut \notin {c, d} /\ Signature[c] = Signature[d]

BranchesOfCut(c) == IF c = NoCut THEN {} ELSE CutBranches[c]

\* VarManagerEntry::FillBranchNames.
BranchNames(r) ==
  (UNION {v.branches : v \in ToSet(r.vars)}) \cup BranchesOfCut(r.cut)

NewEntry(r) ==
  [vars |-> r.vars, cut |-> r.cut, names |-> BranchNames(r),
   match |-> <<>>, inverted |-> FALSE, rows |-> <<>>]

Sharing(t, r) ==
  {k \in DOMAIN t.entries : /\ t.entries[k].names = BranchNames(r)
                            /\ EqualCuts(t.entries[k].cut, r.cut)}

\* Mutant of AddedTo: the ids of a new entry are returned.
AddedToIota(t, k, r) ==
  LET added == AddVariables(t.entries[k].vars, r.vars)
  IN [task |-> [t EXCEPT !.entries[k].vars = added.vars], entry |-> k,
      ids |-> [i \in DOMAIN r.vars |-> i - 1]]

AddedTo(t, k, r) ==
  LET added == AddVariables(t.entries[k].vars, r.vars)
  IN [task |-> [t EXCEPT !.entries[k].vars = added.vars], entry |-> k,
      ids |-> added.ids]

AddedNew(t, r) ==
  [task |-> [t EXCEPT !.entries = Append(@, NewEntry(r))],
   entry |-> Len(t.entries) + 1,
   ids |-> [i \in DOMAIN r.vars |-> i - 1]]

\* VarManager::AddEntry: the task and the pair it returns.
AddEntry(t, r) ==
  IF Sharing(t, r) = {} THEN AddedNew(t, r) ELSE AddedTo(t, Min(Sharing(t, r)), r)

\* VarManager::FillBranchNames: what is there already stays.
FillBranchNames(t) ==
  [t EXCEPT !.inBranches = @ \cup UNION {e.names : e \in ToSet(t.entries)}]

\* PlainTreeFiller::AddBranch.
AddBranch(t, b) == [t EXCEPT !.branch = b, !.inBranches = @ \cup {b}]

(***************************************************************************)
(* Init                                                                    *)
(***************************************************************************)
Known(config, names) == names \subseteq DOMAIN config.branch

\* BranchReader has no pointer type for kGeneric and throws.
ReaderOk(t, config, b) ==
  /\ Known(config, {b}) /\ config.branch[b].type # "kGeneric"
  /\ b \in DOMAIN t.cutsMap => Known(config, CutBranches[t.cutsMap[b]])

\* Mutant of MatchInfo: the direction is not reported.
MatchInfoAsIs(config, b, c) ==
  [match |-> IF <<b, c>> \in DOMAIN config.index THEN <<b, c>> ELSE <<c, b>>,
   inverted |-> FALSE]

\* Configuration::GetMatchInfo.
MatchInfo(config, b, c) ==
  IF <<b, c>> \in DOMAIN config.index THEN [match |-> <<b, c>>, inverted |-> FALSE]
  ELSE [match |-> <<c, b>>, inverted |-> TRUE]

\* Only the first two branches are looked at, however many there are.
NeedsMatching(config, e) ==
  LET own == Sorted(e.names)
  IN Len(own) > 1 /\ ~IsHeader(config, own[1]) /\ ~IsHeader(config, own[2])

HasMatching(config, e) ==
  LET own == Sorted(e.names)
  IN {<<own[1], own[2]>>, <<own[2], own[1]>>} \cap DOMAIN config.index # {}

\* The loop over the entries of VarManager::Init: fields and cuts are found in
\* the Configuration, the branches among the task's own readers.
EntryOk(t, config, e) ==
  /\ Known(config, e.names)
  /\ NeedsMatching(config, e) => HasMatching(config, e)
  /\ e.names \subseteq t.inBranches

BoundEntry(config, e) ==
  LET own  == Sorted(e.names)
      info == MatchInfo(config, own[1], own[2])
  IN IF NeedsMatching(config, e)
     THEN [e EXCEPT !.match = info.match, !.inverted = info.inverted] ELSE e

OfField(v) == [vars |-> <<v>>, cut |-> NoCut]

\* PlainTreeFiller::Init adds an entry for each field first.
WithFields(t) ==
  IF t.branch = NoBranch THEN t
  ELSE LET fields == BranchFields(t.branch)
           with[i \in 0 .. Len(fields)] ==
             IF i = 0 THEN t ELSE AddEntry(with[i - 1], OfField(fields[i])).task
       IN with[Len(fields)]

ToInit(t) == IF t.kind = "PlainTreeFiller" THEN WithFields(t) ELSE t

\* Init of a task does not throw; a PlainTreeFiller must come to one entry.
TaskOk(task, config) ==
  /\ task.branch # NoBranch => Known(config, {task.branch})
  /\ \A b \in task.inBranches : ReaderOk(task, config, b)
  /\ \A e \in ToSet(ToInit(task).entries) : EntryOk(task, config, e)
  /\ task.kind = "PlainTreeFiller" => Len(ToInit(task).entries) = 1

\* Mutant of InitialisedCuts: those of the branches are not.
InitialisedCutsOfEntries(t) == {e.cut : e \in ToSet(t.entries)} \ {NoCut}

InitialisedCuts(t) ==
  {t.cutsMap[b] : b \in t.inBranches \cap DOMAIN t.cutsMap}
  \cup ({e.cut : e \in ToSet(t.entries)} \ {NoCut})

InitTask(task, config) ==
  [ToInit(task) EXCEPT
     !.readers = task.inBranches,
     !.ready   = InitialisedCuts(ToInit(task)),
     !.entries = [k \in DOMAIN @ |-> BoundEntry(config, @[k])]]

(***************************************************************************)
(* Exec.  An event has the numbers of channels and the matchings.          *)
(***************************************************************************)
Channels(config, ev, b) == IF IsHeader(config, b) THEN 1 ELSE ev.size[b]

\* The branches of an entry in the order FillFromTwoBranches takes them: an
\* EventHeader is put second.
Ordered(config, e) ==
  LET own == Sorted(e.names)
  IN IF Len(own) = 2 /\ IsHeader(config, own[1]) THEN <<own[2], own[1]>> ELSE own

\* FillMatchingForEventHeader matches every channel with channel 0.
Matches(config, ev, e) ==
  LET own == Ordered(config, e)
  IN IF IsHeader(config, own[2])
     THEN [i \in 0 .. Channels(config, ev, own[1]) - 1 |-> 0]
     ELSE GetMatches(ev.matching[e.match], e.inverted)

\* The channels FillFromOneBranch and FillFromTwoBranches go through.
Candidates(config, ev, e) ==
  LET own  == Ordered(config, e)
      keys == Ascending(DOMAIN Matches(config, ev, e))
  IN IF Len(own) = 1
     THEN [n \in 1 .. Channels(config, ev, own[1]) |-> [b \in e.names |-> n - 1]]
     ELSE [n \in DOMAIN keys |->
             [b \in e.names |-> IF b = own[1] THEN keys[n]
                                ELSE Matches(config, ev, e)[keys[n]]]]

\* ApplyCutOnBranches asks for the entry's cut first, FillFromOneBranch not:
\* over two branches the cuts of the branches need a cut of the entry.
BranchesCut(t, e) ==
  IF Cardinality(e.names) = 2 /\ e.cut = NoCut THEN {}
  ELSE e.names \cap DOMAIN t.cutsMap

\* Over two branches fields are told apart by the ids: those of these branches
\* are in neither, and Variable::GetValue throws.
Lost(config, e) ==
  IF Cardinality(e.names) = 2 THEN {b \in e.names : ~IdSurvives(config, b)} ELSE {}

\* Cuts::Apply, which throws before Init, on fields of the branches given.
CutOutcome(t, c, ev, at, lost) ==
  IF c = NoCut THEN "pass"
  ELSE IF c \notin t.ready \/ CutBranches[c] \cap lost # {} THEN "throw"
  ELSE IF Passes(c, ev, at) THEN "pass" ELSE "skip"

\* What FillFromOneBranch and FillFromTwoBranches do with one candidate: the
\* cuts of the branches, in their order, that of the entry, the variables.
RowOutcome(t, config, ev, e, at) ==
  LET lost == Lost(config, e)
      own  == Those(Ordered(config, e), BranchesCut(t, e))
      outs == Append([n \in DOMAIN own |-> CutOutcome(t, t.cutsMap[own[n]], ev, at, {})],
                     CutOutcome(t, e.cut, ev, at, lost))
      bad  == Those(outs, {"skip", "throw"})
  IN IF bad # <<>> THEN bad[1]
     ELSE IF \E v \in ToSet(e.vars) : v.branches \cap lost # {} THEN "throw"
     ELSE "pass"

Row(e, at) ==
  [at     |-> at,
   values |-> [i \in DOMAIN e.vars |-> Value(e.vars[i], at)]]

\* FillValues clears the table first.
FillValues(t, config, ev, e) ==
  LET all     == Candidates(config, ev, e)
      passing == Those(all, {at \in ToSet(all) : RowOutcome(t, config, ev, e, at) = "pass"})
  IN [e EXCEPT !.rows = [n \in DOMAIN passing |-> Row(e, passing[n])]]

\* More branches than two make FillValues throw.
Throws(t, config, ev, e) ==
  \/ Cardinality(e.names) > 2
  \/ \E at \in ToSet(Candidates(config, ev, e)) :
       RowOutcome(t, config, ev, e, at) = "throw"

\* PlainTreeFiller::Exec, after that of VarManager: its tree gets every row.
FillPlainTree(t) == [t EXCEPT !.plain = @ \o t.entries[1].rows]

\* VarManager::Exec.
ExecEntries(t, config, ev) ==
  [t EXCEPT !.entries = [k \in DOMAIN @ |-> FillValues(t, config, ev, @[k])]]

Exec(t, config, ev) ==
  IF t.kind = "PlainTreeFiller" THEN FillPlainTree(ExecEntries(t, config, ev))
  ELSE ExecEntries(t, config, ev)
=============================================================================
