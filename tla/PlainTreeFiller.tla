--------------------------- MODULE PlainTreeFiller ---------------------------
(***************************************************************************)
(* PlainTreeFiller (infra/PlainTreeFiller.hpp, .cpp): an AnalysisTask with *)
(* one entry for the fields of one branch, each row of which it fills into *)
(* a flat tree.  The entry's columns and the types of the leaves are two   *)
(* lists, built next to each other; fields are ignored or preserved by the *)
(* names they have when the setter is called.  A field's name is the pair  *)
(* of its branch and it, a leaf of the tree [name, type, column].          *)
(***************************************************************************)
EXTENDS AnalysisTask

CONSTANTS
  Fields(_),      \* of a branch, as [name, type, id]: float, int, then bool
  FieldLists,     \* the lists SetFieldsToIgnore and ...Preserve may be given
  NoBranch,       \* the empty name
  MaxEvents       \* bound on the events

\* The entry Init adds for a field.
FieldVariable(b, f) == [key |-> <<b, f.name>>, branches |-> {b}, fn |-> "first"]

FieldRequest(b, f) ==
  [vars |-> <<FieldVariable(b, f)>>, cut |-> NoCut, weight |-> NoWeight]

\* A branch has no two fields of one name.  Users may add the same entries.
ASSUME FieldsAssumption ==
  /\ NoBranch \notin Branches
  /\ \A b \in Branches :
       /\ Fields(b) \in Seq(ToSet(Fields(b)))
       /\ \A i, j \in DOMAIN Fields(b) : Fields(b)[i].name = Fields(b)[j].name => i = j
       /\ \A f \in ToSet(Fields(b)) : FieldRequest(b, f) \in Requests

VARIABLES
  branch,         \* branch_name_
  ignore,         \* fields_to_ignore_
  preserve,       \* fields_to_preserve_
  ignoreDefault,  \* is_ignore_defual_fields_
  prepend,        \* is_prepend_leaves_with_branchname_
  leaves,         \* the branches of plain_tree_
  plain,          \* its entries
  filled,         \* history: the numbers of channels of the executed events
  closed          \* file_ is written and closed

lists == <<branch, ignore, preserve, ignoreDefault, prepend>>
tree == <<leaves, plain, filled, closed>>

fillerVars == <<vars, lists, tree>>

FillerInit ==
  /\ Init
  /\ branch = NoBranch
  /\ ignore = {} /\ preserve = {} /\ ignoreDefault = FALSE /\ prepend = TRUE
  /\ leaves = <<>> /\ plain = <<>> /\ filled = <<>> /\ closed = FALSE

(***************************************************************************)
(* Before Init                                                             *)
(***************************************************************************)
AddBranch(b) ==
  /\ phase = "setup"
  /\ branch' = b
  /\ UNCHANGED <<vars, ignore, preserve, ignoreDefault, prepend, tree>>

InBranch(names) == {<<branch, f>> : f \in names}

\* The setters throw before AddBranch.
SetFieldsToIgnore(names) ==
  /\ phase = "setup" /\ branch # NoBranch
  /\ ignore' = ignore \cup InBranch(names)
  /\ UNCHANGED <<vars, branch, preserve, ignoreDefault, prepend, tree>>

SetFieldsToPreserve(names) ==
  /\ phase = "setup" /\ branch # NoBranch
  /\ preserve' = preserve \cup InBranch(names)
  /\ UNCHANGED <<vars, branch, ignore, ignoreDefault, prepend, tree>>

SetIsIgnoreDefaultFields(is) ==
  /\ phase = "setup" /\ ignoreDefault' = is
  /\ UNCHANGED <<vars, branch, ignore, preserve, prepend, tree>>

SetIsPrependLeavesWithBranchName(is) ==
  /\ phase = "setup" /\ prepend' = is
  /\ UNCHANGED <<vars, branch, ignore, preserve, ignoreDefault, tree>>

(***************************************************************************)
(* Init                                                                    *)
(***************************************************************************)
\* Mutant of DefaultFields: so is the first field a user added.
DefaultFieldsToZero == {f.name : f \in {g \in ToSet(Fields(branch)) : g.id <= 0}}

DefaultFields == {f.name : f \in {g \in ToSet(Fields(branch)) : g.id < 0}}

Ignored == IF ignoreDefault THEN ignore \cup InBranch(DefaultFields) ELSE ignore

\* The fields an entry is added for; their types are those of vars_.
Columns == IF branch = NoBranch THEN <<>> ELSE Fields(branch)

\* Users may have added entries to the task before.
WithFields ==
  LET list[n \in 0 .. Len(Columns)] ==
        IF n = 0 THEN entries
        ELSE Added(list[n - 1], FieldRequest(branch, Columns[n])).entries
  IN list[Len(Columns)]

InitOk ==
  /\ ignoreDefault => branch # NoBranch
  /\ Ignored = {} \/ preserve = {}
  /\ \A e \in ToSet(WithFields) : Accepted(e)
  /\ Len(WithFields) = 1 /\ Len(WithFields[1].vars) = Len(Columns)

Chosen(name) == name \notin Ignored /\ (preserve = {} \/ name \in preserve)

LeafName(name) == IF prepend THEN name ELSE <<name[2]>>

\* For each variable of the entry that is chosen, a leaf of the type at its
\* index in vars_.
Leaves(names) ==
  LET chosen == Ascending({i \in DOMAIN names : Chosen(names[i])})
  IN [n \in DOMAIN chosen |->
        [name   |-> LeafName(names[chosen[n]]),
         type   |-> Columns[chosen[n]].type,
         column |-> chosen[n]]]

\* The cuts of the entries by AnalysisTask::Init, then the branch cuts.
InitialisedHere == CutsOfEntries(WithFields) \cup BranchCuts

InitFiller ==
  /\ phase = "setup"
  /\ IF InitOk
     THEN /\ phase' = "running"
          /\ entries' = [k \in DOMAIN WithFields |-> Bound(WithFields[k])]
          /\ leaves' = Leaves([i \in DOMAIN Columns |-> WithFields[1].vars[i].key])
          /\ ready' = ready \cup InitialisedHere
     ELSE phase' = "rejected" /\ UNCHANGED <<entries, leaves, ready>>
  /\ UNCHANGED <<index, granted, cutsMap, event, executed, lists, plain, filled, closed>>

(***************************************************************************)
(* Events                                                                  *)
(***************************************************************************)
ReadEvent(sizes) ==
  /\ ~closed /\ Len(filled) < MaxEvents
  /\ NextEvent(sizes)
  /\ UNCHANGED <<lists, tree>>

\* A row of the entry: each leaf holds its column's value, as its type.
PlainRow(row) ==
  [n \in DOMAIN leaves |->
     <<leaves[n].name, leaves[n].type, row.values[leaves[n].column]>>]

\* Mutant of PlainRows: the tree is filled after the loop over the channels.
PlainRowsLast(rows) ==
  IF rows = <<>> THEN <<>> ELSE <<PlainRow(rows[Len(rows)])>>

\* The tree is filled with every row of the entry.
PlainRows(rows) == [n \in DOMAIN rows |-> PlainRow(rows[n])]

ExecFiller ==
  /\ ~closed
  /\ Exec
  /\ plain' = IF phase' = "failed" THEN plain
              ELSE plain \o PlainRows(entries'[1].rows)
  /\ filled' = IF phase' = "failed" THEN filled ELSE Append(filled, size)
  /\ UNCHANGED <<lists, leaves, closed>>

Finish ==
  /\ phase = "running" /\ ~closed
  /\ closed' = TRUE
  /\ UNCHANGED <<vars, lists, leaves, plain, filled>>

FillerNext ==
  \/ (\E r \in Requests : AddEntry(r)) /\ UNCHANGED <<lists, tree>>
  \/ (\E c \in CutObjects : AddBranchCut(c)) /\ UNCHANGED <<lists, tree>>
  \/ \E b \in Branches : AddBranch(b)
  \/ \E names \in FieldLists : SetFieldsToIgnore(names) \/ SetFieldsToPreserve(names)
  \/ \E is \in BOOLEAN :
       SetIsIgnoreDefaultFields(is) \/ SetIsPrependLeavesWithBranchName(is)
  \/ InitFiller
  \/ \E sizes \in EventSizes : ReadEvent(sizes)
  \/ ExecFiller
  \/ Finish

FillerSpec == FillerInit /\ [][FillerNext]_fillerVars

(***************************************************************************)
(* Properties                                                              *)
(***************************************************************************)
\* The channels of an event that pass the cut on the branch, in their order.
ChannelsOf(sizes) ==
  LET n == IF branch \in HeaderBranches THEN 1 ELSE sizes[branch]
  IN Those([i \in 1 .. n |-> i - 1],
           {i \in 0 .. n - 1 : Selected(entries[1], [b \in {branch} |-> i])})

\* The channel of every entry the plain tree should have.
Channels == FlattenSeq([k \in DOMAIN filled |-> ChannelsOf(filled[k])])

FieldOfLeaf(n) == CHOOSE f \in ToSet(Fields(branch)) : LeafName(<<branch, f.name>>) = leaves[n].name

\* A PlainTreeFiller that came through Init evaluates every event, whatever cuts
\* on branches it was given.  The plain tree has one entry for each channel of
\* each event that passes the branch cut, in order; the leaf of a field holds
\* what the field has in that channel, unless users had asked for a variable of
\* its name with another function, and as the field's own type, unless they had
\* added variables of the branch before: those are columns before the fields are.
PlainTreeHolds ==
  /\ phase # "failed"
  /\ phase = "running" =>
    /\ Len(plain) = Len(Channels)
    /\ \A m \in DOMAIN plain : \A n \in DOMAIN leaves :
         LET f == FieldOfLeaf(n)
         IN /\ (\A v \in RequestedVariables :
                   SameVariable(v, FieldVariable(branch, f)) => v.fn = "first") =>
                 plain[m][n][3] =
                   Value(FieldVariable(branch, f), [b \in {branch} |-> Channels[m]])
            /\ granted = <<>> => plain[m][n][2] = f.type

\* The leaves are the fields of the branch that were not to be ignored or were
\* to be preserved, each once, wherever their columns are among those of the
\* entry.  The names have the branch of the time of the call: a list set for
\* another branch ignores nothing and preserves nothing.
LeavesChosen ==
  phase = "running" =>
    LET wanted == {f \in ToSet(Fields(branch)) :
                     /\ <<branch, f.name>> \notin ignore
                     /\ ~(ignoreDefault /\ f.id < 0)
                     /\ preserve # {} => <<branch, f.name>> \in preserve}
    IN /\ {leaves[n].name : n \in DOMAIN leaves} = {LeafName(<<branch, f.name>>) : f \in wanted}
       /\ Len(leaves) = Cardinality(wanted)
=============================================================================
