# AnalysisTree in TLA+

AnalysisTree is a C++ data format for heavy-ion collision data on top of ROOT
(`core/`), and a small framework that runs user tasks over files of that format
(`infra/`; its predecessor is `infra-1.0/`, built with
`AnalysisTree_BUILD_INFRA_1`). This directory holds TLA+ modules of its
stateful parts, the TLC configurations that check them on small instances, and
TLAPS proofs.

Paths below are relative to the repository. Everything is single-threaded; what
is hard is not concurrency but long sequences of legal calls over objects that
keep the same information twice (ids and slots, a vector and its index, a
configuration and a tree, a cached mapping and the configs it came from), and
objects that outlive the session they were set up for.

    tlc -workers 2 -config branch_config.cfg MCBranchConfig
    tlapm BranchConfigProofs.tla

and likewise for the other `.cfg` files and `*Proofs` modules.

## Inventory

| Part | State | Operations | What makes it correct |
|---|---|---|---|
| `BranchConfig` (core) | three `VectorConfig<T>` (int, float, bool): `map_` name → id, `size_`; name, type | construct, `AddField(s)`, `AddField(name, id)`, `RemoveField(s)`, `Clone`, `CloneAndMerge` | one slot per field, one type per name, default ids untouched, fields stay in the order of their slots |
| `Configuration` (core) | `branches_` by id, `matches_`, transient `matches_index_` | `AddBranchConfig`, `AddMatch`, `RemoveBranchConfig`, `Merge`, `Streamer` of versions 3 and 4 | both representations of the matchings agree, files can be read back, a matching has one direction and two branches |
| Records: `Container`, `Detector<T>`, `Module`, `EventHeader`, ... (core) | a slot vector per elementary type, members for default fields | `AddChannel`, `ClearChannels`, `SetField`, `GetField` | a slot for every field of the config |
| `Branch`, `BranchChannel` (infra) | config, records, `is_mutable_`, `is_frozen_`, `config_hash_`, `copy_fields_mapping_` | `NewVariable`, `CloneVariables`, `Freeze`, `NewChannel`, `ClearChannels`, `SetValue`, `CopyContent`, `CopyContentRaw`, `CopyContentsRaw`, `CreateMapping`, `MergeContentFromTwoChannels` | values stay under the name they were written to; caches are never stale |
| `TaskManager`, `Chain`, `Task` (infra) | the singleton's flags and options, `tasks_`, `chain_`, output tree, `Configuration` and `DataHeader`; files | option setters, `AddTask`, `Init()`, `Init(filelists, trees)`, `Run`, `Exec`, `Finish` | files readable and complete, one entry per event, nothing used that an earlier session deleted |
| `GenericContainerFiller` (infra) | options, `branch_map_`, `branch_values_`, the output | setters, `Run` (`Init`, `Exec`, `Finish`) | every row in exactly one entry, cut where the options say |
| `Matching` (core) | a map for each direction | `AddMatch`, `GetMatches`, `Clear` | the pairs registered can be had in either direction |
| `AnalysisEntry`, `AnalysisTask` (infra) | `entries_` with variables, cuts, weight, branches and matching; `cuts_map_`; `values_` | `AddEntry`, `AddBranchCut`, `Init`, `Exec` (`FillValues`) | columns hold what was asked for, rows are exactly the channels or matched pairs that pass the cuts |
| `Field`, `Variable`, `SimpleCut`, `Cuts` (infra) | ids resolved at `Init`, `is_init_` | `Init`, `GetValue`, `Apply`, equality | pure functions of a record once initialised |
| `PlainTreeFiller` (infra) | branch, lists of fields to ignore and preserve, the leaves of a flat tree | setters, `Init`, `Exec`, `Finish` | the leaves are the chosen fields with their types, one entry per selected channel |
| `TaskManager`, `TreeReader` (infra-1.0) | chain with friends, merged `Configuration`, objects by branch name, event cuts, output tree | construct, setters, `AddTask`, `Init`, `Run`, `Finish` | everything a task reads is connected, one output entry per accepted event |
| `VarManager`, `VarManagerEntry`, `BranchReader`, `PlainTreeFiller` (infra-1.0) | the branches a task reads, entries with variables and cuts, `values_` | `AddEntry`, `FillBranchNames`, `Init`, `Exec` | columns hold what was asked for, rows are exactly the channels or matched pairs that pass the cuts |
| `ChainDrawHelper`, `ToyMC`, build and examples | | | not part of this development, see below |

How they interact:

- A `Detector` or `EventHeader` makes its records from a `BranchConfig`: the
  config's `size_` is the length of the slot vectors, its ids are indices there.
- A `Branch` owns one `BranchConfig` and points to its records. It reads and
  writes them through ids resolved from names, and copies between branches
  through mappings of ids it caches by the address of the other branch.
- A `Configuration` holds the `BranchConfig` of every branch of a file. `Chain`
  builds one from those of its files and friends and connects each branch of it
  to the tree; a name the tree does not have throws.
- `TaskManager` owns the output tree and its `Configuration`, calls the tasks'
  `Init`, `Exec` and `Finish`, and copies tree and configuration of the input by
  separate code. Its `chain_` shares objects with it in some modes.
- An `AnalysisTask` points to the objects `Chain` reads each event into. It finds
  the `Matching` of two branches through `Configuration::GetMatchInfo`, whose
  flag says which of the two maps to read. Cuts are shared by pointer.
- A `PlainTreeFiller` is an `AnalysisTask` with one entry, and keeps the fields of
  that entry a second time for the types of its leaves.
- `BranchConfig::CloneAndMerge` invents the names of a merged branch's fields,
  `BranchChannel::MergeContentFromTwoChannels` looks for them.
- In infra-1.0 the tasks tell the manager the branches they read, the manager
  connects an object for each name, and the tasks look theirs up unchecked.
- `GenericContainerFiller` stands alone and writes a file with one branch.

The hard behaviours, at their lines, are the `hazards` of `PROJECT.json`.

## Modules

    FieldTables ── BranchConfigOps ─┬─ BranchConfig ── BranchConfigProofs
                                    │      └ implements RecordLayout
                                    └─ Branch ─┬─ BranchProofs
                                       │       └─ BranchMerge
                                       └ implements NamedRecords
    Configuration ── ConfigurationProofs
        └ implements MatchedBranches
    GenericContainerFiller ── GenericContainerFillerProofs
    TaskManager ── TaskManagerProofs
    InOrder ─┬─ EntryVariables ─┬─ AnalysisTask ── PlainTreeFiller ── AnalysisTaskProofs
             └─ InOrderProofs   │                  (infra)
    Matching ───────────────────┤
    TreeReader ─────────────────┴─ VarManager ── EventLoop ── EventLoopProofs
                                                   (infra-1.0)

Each `MC*` module gives the constants of the module of that name.

**FieldTables, BranchConfigOps** translate the class itself as values and
functions on them: the default fields of each detector type
(`core/Constants.hpp` and the constructor), lookups in the order the code
searches, and the edits. An edit has a guard `...Ok` where the code throws.

**BranchConfig** is the life of the objects of a program: one action per call,
any object into any variable. `chosen` marks the objects that hold an id their
caller chose (`AddField(name, id, title)`), for which the class promises less.
A call that throws changes nothing and is no step, except `RemoveFields`, which
removes the names before the one it throws at (`RemoveTwo`).
**RecordLayout** is what the records need of it: per type a row of slots, fields
appended at its end, removed by closing the gap, the length never shrinking.
`RowsOf` is the refinement mapping.

**Configuration** keeps `matches_` and `matches_index_` apart, as the code does,
with the Streamer that rebuilds one from the other. A branch is its name and id.
The order of a `std::map` is the constant `InMapOrder`. Files of version 3 exist
before the program starts only; this program writes version 4. Callers are those
of the repository: `Chain::InitConfiguration` copies branches before matchings,
and no caller matches a branch with itself. `AddBranchConfig` drops a branch
whose id is taken, and ids of old files were counters; `mixed` is the history of
the objects and files that took a matching across such a clash of ids.
**MatchedBranches** is the view its users have: branches and matchings that only
appear once and disappear only with a branch, reproduced by files.

**Branch** has records with a slot vector per type and the members of their
class. `late` are the fields declared while records existed that did not get a
slot (`Freeze(false)`, or handing a `Branch` records at construction);
`reopened` the branches opened again after freezing. Both are history
variables. A third is `mixed`: `BranchChannel::CopyContentRaw` assigns a record of
whatever branch and type it is called with and checks nothing, so the record
has the slots of the other branch's fields then; such a branch is in `mixed`,
with all its fields in `late`, until its records are cleared or replaced.
A value is counted in halves, so `Convert` shows what `int` and
`bool` fields do to a `double`. `CopyContent` stops at the first pair of fields
without a slot, as the exception does. Tasks assign a `Branch` only before
something was mapped from it (`Destroy`): the cache is keyed by address.
Values are closed under the conversions, and what stands for no branch
is neither a branch nor a table (`ValuesAssumption`, `NoBranchAssumption`,
`NoTableAssumption`). A default id of a type belongs to one name in one
elementary type, as in `FieldTables` (`MembersAssumption`).
**NamedRecords** is a table whose rows hold values by field name. Default fields
that a getter computes (`Computed`) are no columns of it: what it gives
is no value anyone wrote, so a copy of it into a field is a blank there. Its
`MixesRow` is the one step that may put any values into a row, of a table that
is `mixed` from then on.
**BranchMerge** composes `Branch` with the two halves of merging: a target is
constructed from the `CloneAndMerge` of two branches that were read, and its
records are filled from a channel of each, of which one may be
`NullChannel`, between writes to the sources and plain copies. A branch that is
read has its fields in the order of their names, and names a merge makes are
among those modelled (`NamesModelled`). `used` (the prefixes each mapping was
asked for), `parts` and `merged` are history.

**GenericContainerFiller** models the run over the rows of a flat tree. A row is
its number and the value of the trigger variable, also counted in halves.
`AsInt` is the conversion leaf → `float` → `int` the code compares by, with the
rounding of integers above 2^24. `slot` is the element of `branch_values_` the
trigger's name resolves to: from the second run of an object on, not the one
`GetEntry` writes. `phase` has `thrown` (`FICS::get` finds no value) and
`trapped` (modulo by a channel count of 0).

**TaskManager** models whole sessions and the files they leave. A file is what
its tree has, what its `Configuration` says, and its entries. A task is the
branch it may add; `Outputs` lets the tasks of a session add any of their
branches and matchings. `chain.shared` are the objects `chain_` shares with the
manager, and `dead` those `Finish` deleted. Options survive `Finish` as in the
code, the write mode and `chain_` among them: `Init()` without input
(`InitCreate`) in `kCopyTree` copies the chain of the session before, and stops
without one (`CannotCreate`); where it reads an object that was deleted or a
file it has just truncated (`MayNotCreate`) it may stop or go on, and so may a
`Finish` that deletes a `DataHeader` again (`FinishStops`). `kNone` makes no
tree and stops at its absence when there is an output. `added` are the branches
tasks add to a new tree, which go into the Configuration of `chain_` too; a file
whose Configuration came about that way, in memory only, is `grown`. `failed` is
a session whose `Init` threw or stopped: `is_init_` stays set and no
call works any more. Callers set options and tasks before `Init`, and give no
input to `Init` that is the output.

**Matching** has the two maps of the class as a record. **InOrder** says in
which order loops over a `std::set`, `std::map` or `std::vector` meet the
elements that concern them. It defines by positions what `SetToSortSeq` and
`SelectSeq` define by recursion, which the provers cannot see through.
**EntryVariables** has what the entries of infra and infra-1.0 do alike: how
variables are compared, added to a table and evaluated. A variable is a `key`
(name and fields, which `operator==` compares) with the branches it reads and a
function, which is not compared; its value is the term of all three, so a value
under a wrong column or of a wrong channel is another term. **AnalysisTask** has
the entries with all they point to. A cut is an object with a signature
(`Cuts::Equal`; cuts given by a function equal only themselves) and a constant
predicate of channels. `granted` and `registered` are history: what `AddEntry`
was asked for and returned, and the pairs `AddMatch` was called with, which the
maps may not all hold. The entries share `Candidates` (what the three
`FillFrom...` loop over) and `RowOutcome` (the body of the loops). `Exec` fails
if one candidate throws; nothing catches that and the tables are then not read.
Callers add entries before `Init`, matches join channels the event has, and
variables name fields that exist. `InitBranchCuts` is what
`PlainTreeFiller::Init` does for its branch cuts and `AnalysisTask` does not.
**PlainTreeFiller** extends it with the members of the subclass. Users call
`AddEntry` and `AddBranchCut` of the base class too, before or after the
setters. `InitFiller` adds an entry per field (`FieldRequest`, which users may
have added themselves, under a cut or with another function too) and then
requires, as the code's assertions and exceptions do, that they all landed in
one of as many columns as fields; a leaf takes its value by column and its type
by position among the fields, which are two numberings. A field of the same name
in another branch is told apart by the branch name the lists were given at the
call.

**TreeReader** has the functions of infra-1.0 that open the input: lists of
files as friends with aliases, their configurations merged, a branch looked up
under its dotted or plain name, an object made for each. **VarManager** has its
tasks: variables are those of `EntryVariables`, a cut and a request are as in
`AnalysisTask`, and requests share tables in the same way, but a task reads only
the branches `FillBranchNames` or `AddBranch` collected, there is no weight, and
rows are filled by other loops. `ToShort` is the conversion of a branch id in
`Field`. **EventLoop** is the `TaskManager` of infra-1.0 over both: one action
for the constructor with its setters, one per call before `Init`, `InitTasks`,
`Run`, one per event taken or skipped, and `Finish`. `phase` has `refused` (an
exception of the constructor or `Init`) and `failed` (one in an event).

ROOT is external: a `TFile` is a file that is truncated when opened for writing
and complete after `Finish`; a `TChain` is the list of its branches and the
number of its entries.

## Runs

| Run | Question | Instance |
|---|---|---|
| `branch_config` | Do ids stay unique, in their slots, and names keep their meaning? Do ids implement rows of slots? | two objects, types `kModule` and `kGeneric`, a new and a default name, ten names with those of merges; at most 4 slots |
| `configuration` | Do both representations agree, are files readable, do matchings join existing branches? Is it MatchedBranches? | two objects, one file, three branches; an old file has A and C matched both ways, under ids of which one is another branch's here; at most 6 entries in both objects, 3 in a file |
| `branch` | Are records complete, cached mappings right and whole, do values stay under their names (NamedRecords)? | two branches, `kModule` and `kEventHeader`, a new float and a new bool whose name is that of a default float elsewhere; 1 record each, 2 fields |
| `branch_merge` | Do both channels arrive under the names `CloneAndMerge` gave? | two branches read, `kModule` and `kEventHeader`, one field of either type each or none, one target |
| `filler` | Is each row in one entry, are entries cut where they should be, does the run end? | up to 4 rows, float, int and char triggers, counts -1, 0 and 2, limits -1, 0, 3; two runs |
| `filler_trigger` | Do entries end at the changes of the trigger and nowhere else? *Neither: not from 1 to 1.5, and after n rows* | as `filler` |
| `task_manager` | Can each file be read, does a copy hold what it says, is no entry lost, is nothing dead used? | two tasks, three files, three sessions, up to 2 events and 2 entries |
| `task_manager_input` | Does a session that copies have an input to copy? *No, a plain `Init()` after a copying session* | 1 event, 1 entry |
| `analysis_task` | Do columns stay what was asked for when requests share a table, and does each table have exactly the selected rows? | two of ten requests (header only, one, two and three branches; equal cuts that are distinct objects; a weight of another branch; one name for two functions), A and B matched in either direction or not, 0 or 2 channels, 2 matches |
| `plain_tree` | Are the leaves the chosen fields, do they hold their values as their types, is every selected channel filled? | a branch with fields of each type and an `EventHeader`, two lists, three cuts, one request of the user (a field of either branch, also under a cut, or another function under a field's name), events of 0 and 3 channels |
| `event_loop` | Is what the tasks read connected, have tables the selected rows and columns, has the output the accepted events? | four inputs of one to three files (both naming styles, counted and hashed ids, a name collision, a `kGeneric` branch), two tasks, two of ten requests, two events with one-to-one matchings |
| `event_loop_ids` | Do entries over two matched branches work? *No, with hashed ids* | one input, one task |

Bounds. `MaxSlots` = 4 over both objects lets a field be removed from the middle
of two and added again, cloned and merged into another object; a merge of two
`kModule` branches (which needs the default fields of one as new fields of the
other) takes four slots. Objects with ids of their callers count for two slots
more, which keeps them to short sequences; the proofs have no bound.
`MaxEntries` = 6 in `configuration` counts the branches and matchings of both
objects: a full one next to one under construction; `MaxWritten` = 3 is two
branches with their matching in a file of this program. The old file has a pair
in both directions and an id that clashes. In `branch` one record is enough to
show a missing slot or a value under a wrong name, and two fields are one on
each side, two that a first mapping may miss one of, or one name in two types.
Four rows make two entries of two, or a change after and before a count. In
`task_manager` three sessions are the shortest in which a file is written,
joined or copied, and the result read again; two events and entries tell one
event from the last one and one fill from two. In `branch_merge` one record
shows a lost or misplaced value and seven fields hold the largest merge. In
`plain_tree` one request is enough to shift the columns, and two events to lose
or repeat the rows of one. In `event_loop` two tasks are one that needs what the
other does not, two requests share a table or connect more branches, and two
events are one that is accepted and one that is not. In `analysis_task` a table
is shared by two requests, and two matches of two channels are one-to-one,
crossed, or both of one channel.

The bounds are guards of the actions: `MaxSlots` (BranchConfig), `MaxEntries`
and `MaxWritten` (Configuration), `MaxRecords` and `MaxFields` (Branch),
`MaxRows` and `MaxRuns` (GenericContainerFiller), `MaxRequests` and `MaxMatches`
(AnalysisTask), `MaxEvents` (PlainTreeFiller), `MaxTasks` and `MaxRequests`
(EventLoop), `MaxEvents`, `MaxEntries` and `MaxSessions` (TaskManager). Deadlock
is not checked, because programs stop: all the calls are the caller's choice,
and at a bound, or after a failed `Init`, there may be none.

Symmetry is used between objects that only hold values (`Handles`, `Objects`),
between the two tasks together with their branches, and between the two files
that are not the default one. None of the runs with symmetry checks liveness.
The two branches of `branch` are not symmetric (contents flow one
way).

Fairness. Only `GenericContainerFiller` assumes any: weak fairness of `Exec` and
`EndRun`, because the loop of `Run` is sequential code that waits for nothing.
`RunEnds` then says the loop leaves its phase for each input, option and limit.
Whether a caller ever calls `Run` is not assumed.

## What the runs show, and where documentation and code differ

Ids, slots and names behave as the record classes need, after any mix of
additions, removals, clones and merges; `matches_` and its index agree after any
mix of edits, files and old files; values stay under their names whatever is
mapped, cached and copied by name, or copied raw between branches of the same
fields; the filler loses no row; a session leaves files that
can be read, also when a friend shares a branch name with the main input; the
tables of an `AnalysisTask` have the columns that were asked for and the rows
that pass, whichever way round the matching is stored; a plain tree has the
chosen fields of each selected channel; merged records have the contents of both
channels; and the tasks of infra-1.0 find what they read and fill the rows of
just the accepted events.

The premises of the properties name what the code does not promise.

- Callers may choose an id (`AddField(name, id, title)`) that is in use;
  `FieldIdsUnique` and `SlotsReserved` are about objects without such ids.
- A matching copied between configurations that use one id for two branches
  arrives while its branch does not (`mixed` in `MatchesRefer`).
- `BranchChannel::CopyContentRaw` from a branch with other fields leaves a record
  whose slots are not those of its branch: values appear under other names and
  a field may have no slot. `RecordsComplete` excepts that branch, and
  `ImplementsNamedRecords` any value in that one record; that the call changes
  no other record, and that declaring, clearing and copying go on as before, is
  checked and proved.
- A second `Run` of one filler object reads the trigger from values nothing
  writes any more (`SplitsFollowTrigger` is about the first).
- `Init()` in `kCopyTree` finds the last session's chain: the objects
  it shares with that session's output are deleted (`ChainUsable` is about
  sessions with input or a new tree), and where tasks of that session had added
  branches to a new tree, its Configuration has them and its tree has not: the
  copy cannot be opened (`grown` in `FilesReadable`).
- A branch that others have mapped is neither destroyed nor assigned: a mapping
  cached under an address that another branch takes over is not reached
  (`Destroy`).
- A mapping once made is used whatever the prefix asked for: a branch merged as
  first and as second, or two channels of one branch, get the first
  mapping (`OneRoleEach` in `MergedRecordHolds`). A target of an `EventHeader`
  has no field for the case (`HasCase`). Channels of branches the target was not
  made of may have names that run into each other, which `CloneAndMerge` checks
  only for its own two (`NamesApart`).
- Entries that users add to a `PlainTreeFiller` shift its columns, and with them
  the types of leaves; a list of fields set before another `AddBranch` names
  the old branch's (`PlainTreeHolds`, `LeavesChosen`).
- In infra-1.0, cuts on branches apply to entries over two branches only if the
  entry has a cut of its own (`CutsOn` in `RowsExact`), and cuts with equal
  titles and variables are one cut (`ToldApart`).

For `AnalysisTask` there are three more: when one channel is matched twice,
each map of `Matching` keeps the first partner only, and the order of the
branch names decides which map an entry reads (`RowsComplete` asks for all rows
when no channel is matched twice); of two variables of one name and fields the
second gets the function of the first (`ColumnsDenoteRequests`); and a branch
cut nobody initialised, or a weight of a branch its entry does not read, passes
`Init` and throws in an event (`ReadyTaskRuns`).

Three runs are expected to find a violation:

1. In infra-1.0, `Field::Init` keeps the id of a branch, a hash in today's
   files, in a `short`; every entry over two branches then throws, matched or
   not (`infra-1.0/Field.cpp:36`).
2. `GenericContainerFiller` compares the trigger after conversion to `int`, so a
   change from 1 to 1.5 ends no entry, though the header speaks of any change of
   value (`infra/GenericContainerFiller.hpp:85`, `.cpp:74`); and it still ends an
   entry after every n rows, though the header says that n does not matter then
   (`.hpp:90`, `.cpp:75`). The trace shows both.
3. A plain `Init()` after a session that copied its input copies again, from a
   `DataHeader` that `Finish` deleted: `write_mode_` and `chain_` survive, and the
   assertion at `infra/TaskManager.cpp:74` only sees pointers that are not null.
   `RunToyMC` (`infra/ToyMC.hpp:149`) calls `Init()` without setting a mode.

Two more differences between code and comments are in the modules as the code
has them, and no property says otherwise. `CopyContentsRaw` between `kGeneric`
branches copies nothing and says nothing (`infra/Branch.cpp:151`; "Copies contents
from other branch 'as-is'", `infra/Branch.hpp:139`): `RawCopy`.
`Chain::CloneConfiguration` drops a branch of the main input when a friend has one
of that name (`infra/Chain.cpp:271`; "Clones Configuration of input Chain without
friends", `infra/Chain.hpp:102`): `OutputDescribed` excepts such inputs.

Each passing property has a mutant in `PROJECT.json`: a change to a modelled
definition, of the kind a slip in that code would be, that violates it.

## Proofs

`BranchConfigProofs` proves, for every finite set of names, every set of
handles, branch names, caller ids and detector types, and without the bound:

- `TypeCorrect`: `Spec => []TypeOK`;
- `SlotPerField`: `Spec => []FieldIdsUnique`;
- `SlotsSuffice`: `Spec => []SlotsReserved`;
- `NamesKeepMeaning`: `Spec => []OneElementaryType`;
- `DefaultsKeepIds`: `Spec => []DefaultFieldsKept`;
- `Refinement`: `Spec => ImplementsLayout`.

Assumptions (in `BranchConfigOps` and `BranchConfig`): the tables of default
fields have negative ids that differ within an elementary type, and no name
occurs in two types; names are finitely many and totally ordered by the map;
prefixing with a branch name is injective; ids of callers are not negative;
the value that stands for no object is neither a config, a name nor a row.
TLC evaluates them with each run, and `MCBranchConfig` evaluates the
first for the tables of all six detector types.

The inductive invariant `IInv` is `TypeOK` with, for each object, `WellFormed`
(the shape of a config, one type per name, defaults kept) and, unless its
caller chose ids, `SelfNumbered` (distinct ids, each below `size_`). None of
the parts is inductive alone. Ids stay distinct when a field is added only
because every id is below `size_`, the next id given; they stay below `size_`
under removal because they are distinct and shift by one; `Clone` decides by
the sign of an id what is a user field, which needs the defaults to be as they
were; and removal finds the elementary type by searching int, float, bool,
which is right only when a name has one type. There is a lemma per operation
(`AddFieldSound`, `RemoveFieldSound`, `MergedSound`, ...), `ResultSound` lifts
it to a handle, and `NextSound` has one step per action. `MergedSound` rests on
`PositionBounds` and `PositionInjective`: the position of a field in map order,
a cardinality, is a numbering without repetition below the number of fields.

The refinement shows of each operation what it does to the rows: `RowIs` says
when a sequence is the row the ids describe, `RowGrows` that an object which
continues another one (`Continues`: its ids kept, new ones at or above the old
`size_`, of fields new to it) has its rows grown at the end, `CloseGapSlots`
where the slots go in a removal. A merge leaves no new slot free because
`PositionOnto`: the positions of the fields take every number below their
count. `NextIsChange` has one step per action.

`TaskManagerProofs` proves every invariant of the run `task_manager`, for every
finite set of tasks, all branches, files and options, and any number of
sessions, events and entries:

- `TypeCorrect`: `Spec => []TypeOK`;
- `FilesStayReadable`: `Spec => []FilesReadable`;
- `OutputStaysDescribed`: `Spec => OutputDescribed`;
- `EntriesStayCounted`: `Spec => []EntriesCounted`;
- `ChainStaysUsable`: `Spec => []ChainUsable`.

Assumptions (`TaskManagerAssumption`): tasks are finitely many, the default
output name is a file, `None` is neither a file, its contents nor a chain, and
the bounds are natural numbers.

The inductive invariant `IInv` adds five parts to `TypeOK` and `ChainUsable`;
`OutputDescribed`, on steps, follows from it. `DiskReadable` is `FilesReadable`
with the types of files. `InputThere`: the files of `chain_` are on the disk as
long as its session is open, so that a copy is of a tree that is there.
Its conjunct that a Configuration matches only branches it names is what the
copy needs: excluding branches removes a matching from the tree and from the
Configuration by separate code, which agree only if every matching's branches
are known. `OutputWhole` says an output being written is readable already and
has as many entries as events were done, because `Finish` puts it on the disk
as it is. `BetweenSessions` and `LoopWithinBounds` tie the counters to the
flags: the options that survive a `Finish` must not bring a counted event or a
failed session along. `CopiedReadable` is the lemma at the core: what
`CloneTree` and `CloneConfiguration` make by separate code agrees, unless a
friend shares a branch name with the main input; `OutputsReadable` says the
same of what tasks add. There is one lemma per action and `NextInvariant` puts
them together.

`ConfigurationProofs` proves every property of the run `configuration`, for any
objects, files, branches and matchings, and without the bounds:

- `TypeCorrect`: `Spec => []TypeOK`;
- `StructuresAlwaysAgree`: `Spec => []StructuresAgree`;
- `FilesStayReadable`: `Spec => []FilesReadable`;
- `MatchesAlwaysRefer`: `Spec => []MatchesRefer`;
- `Refinement`: `Spec => ImplementsMatchedBranches`.

Assumptions (`ConfigurationAssumption`, `NothingAssumption`): a name has one id;
`InMapOrder` lists the elements of a set; the files there are when the program
starts are well typed, not of version 4, and match branches they name.

The invariant `Inv` adds `FilesRefer` to the four properties: `Read` brings back
what a file holds, so a file's matchings must refer as an object's must.
`StructuresAgree` is what makes the refinement a function of the vector alone.
`IndexOfVector`, `EntryInIndex` and `RoundTrip` are the lemmas on the two
representations: writing the index out as a vector and building an index of
that gives the same index. There is a lemma per edit (`...Good`) and one per
call (`...Step`), which shows both that `Inv` is kept and that the call is a
step of `MatchedBranches`.

`GenericContainerFillerProofs` proves every invariant of the run `filler`, for
inputs of any length and any options:

- `TypeCorrect`: `Spec => []TypeOK`;
- `RowsAlwaysKept`: `Spec => []RowsKept`;
- `EntriesStayFull`: `Spec => []FullEntries`;
- `SplitsAlwaysFollowTrigger`: `Spec => []SplitsFollowTrigger`.

Assumption (`FillerAssumption`): the constants are of their types. The invariant
`Inv` ties the counters to the output. `RunsCounted`: a run is over when its
rows are. `CountedByN`: with a count n and no trigger the rows read so far are n
for each entry written and those in the entry being filled, so the test of the
row number against n is one of the entry's size. `CutByTrigger`: the previous
value the code keeps is that of the row before, and entries start exactly where
its integer value changed or the number of rows before is a multiple of n. What
concatenating entries gives is proved by the first entry at which it would not
(`WFMin`), because the induction theorems of the library take an operator.

`BranchProofs` proves every property of the run `branch`, for any branches,
names, values, prefixes and tables of default fields:

- `TypeCorrect`: `Spec => []TypeOK`;
- `RecordsStayComplete`: `Spec => []RecordsComplete`;
- `MappingsStayCurrent`: `Spec => []MappingsCurrent`;
- `MappingsStayWhole`: `Spec => []MappingsWhole`;
- `Refinement`: `Spec => ImplementsNamedRecords`, every call is a step or a
  stutter of `NamedRecords`.

Assumptions (`BranchAssumption`, `ValuesAssumption`, `NoBranchAssumption` and
those of `BranchConfigOps`): the constants are of their types, conversions stay
within `Values`. The invariant `Inv` adds three parts. `ConfigsHashed`: the hash
a branch stores is that of its config and ids are below `size_`, because
`CopyContentsRaw` exchanges records on the strength of the hash.
`MappingsOfLive`: only branches that exist are mapped. `MappingsClosed`: a
mapped branch that may still declare fields was reopened, so that a mapping that
misses a field is one of a reopened branch. `WithFieldsOfSound`, `WrittenSound`
and `CopiedSound` are the lemmas on the helpers; `ChangeInv` reduces a call to
the one branch it changes.

The refinement also needs `MembersAssumption`, `NoTableAssumption` and a second
invariant, `NamedInv`. `Tidy`: the ids of an elementary type are dense below
`size_` and each belongs to one name, a name is a field of one type, and
negative ids are default ids. `Fitting`: records have no more slots than the
config has fields, unless the branch is `mixed`. `Renames`: a cached mapping
relates a field to the one of the same or the prefixed name. Without the first,
two names could share a slot and a write under one would change the other.
`WithFieldsOfTidy` shows that declaring fields keeps a config tidy. `RowOf` says
which fields of a record its row shows; `WiderRowAsIs`, `WiderRowShows`,
`WiderRowFilled`, `WrittenRow`, `CopiedRow` and `RawRow` say what a call does to
a row, and there is one lemma per action (`SetValueNamed`, `CopyContentNamed`,
...). `CopyContentsRaw` compares hashes, which stand for the ids alone, and
`CopyContentRaw` compares nothing (`CopyContentRawNamed` has a case for each):
`SameSizes` shows that in tidy configs equal ids mean equal sizes, so that the
slots exchanged are of the same fields.

The module also proves the invariant of the run `branch_merge`, for any sources,
targets and order of calls:

- `MergedRecordsHold`: `MergeSpec => []MergedRecordHolds`.

Assumptions (`BranchMergeAssumption`): a source has a name that is not empty,
and the three values of the case are values. The inductive invariant `MergeInv`
says four things. A branch is sound and tidy and its records have just the slots
of its config (`WholeBranch`), so that no copy stops half way: `CopiedAll` shows
that then every pair of a mapping is copied. Each mapping is that of a copy made
so far, with its prefix (`MapsUsed`); with one role for each source it
is then that of the prefix asked for. A source keeps its name, which is the
prefix. The config of a target is the `CloneAndMerge` of its two sources
(`MadeOf`), and `CloneAndMergeTidy` says what that config has: the fields of the
first, those of the second under prefixed names, and the case, with one name for
each slot. `RolesApart` derives from the checks of `CloneAndMerge` (`MergeOk`) that
the three things a call writes have different names, and `BothCopiedGood` and
`MergedRecordGood` follow the record through the two copies and the case: none
undoes what the one before wrote.

`AnalysisTaskProofs` proves every invariant of the runs `analysis_task` and
`plain_tree`. First those of `AnalysisTask`, for any branches, requests, cuts,
matchings and events:

- `TypeCorrect`: `Spec => []TypeOK`;
- `ColumnsStayDenoted`: `Spec => []ColumnsDenoteRequests`;
- `RowsStaySelected`: `Spec => []RowsAreSelected`;
- `RowsStayComplete`: `Spec => []RowsComplete`;
- `ReadyTasksStayRunning`: `Spec => []ReadyTaskRuns`.

Assumptions (`AnalysisTaskAssumption`, `RequestsAssumption`): `NameOrder` lists
the branches; `MatchIndexes` has one direction of a pair, between branches with
channels; `NoCut`, `NoWeight` and the like are no cut objects or variables; a
request's variables are of branches that exist, and equal variables read the same
branches.

The invariant `IInv` says in addition what the event is (`EventSound`), that
each entry is of some request (`EntriesRequested`) and each grant a column of it
(`GrantsKept`), that entries are bound to their branches and matching after
`Init` (`EntriesBound`), that tables were evaluated for this event or are of
none (`NothingExecuted`, `TablesEvaluated`, `TablesRight`), and why a task
failed (`FailureExplained`). Columns: `AddVariablesPlace` shows that the loop of
`AddVariables` keeps the columns that are there and puts each new variable where
the returned id says; it is a loop over data, proved by the least step that
would not. Rows: `HeadersSound`, `ChannelsSound` and `MatchesSound` say what the
three `FillFrom...` loop over, `RowOutcomeSound` what their body does, and
`FilledSound` joins them. Failure: `ThrowsExplained` and `ReadyFromInvariant`.
`InOrderProofs` has the lemmas on loops that these use (`AscendingSound`:
ascending order has each element once; `ThoseSound`: selected elements keep
their order; `ThoseAlike`: two lists selected at the same places; `LoopExists`:
a loop has its results; `FlattenAppend`; `MinSound`, `MaxSound`).

Then those of `PlainTreeFiller`, for any branches, fields, lists, entries of
users and events:

- `PlainTreeStaysRight`: `FillerSpec => []PlainTreeHolds`;
- `LeavesStayChosen`: `FillerSpec => []LeavesChosen`.

Assumptions: those above, and `FieldsAssumption`: no two
fields of a branch have one name, the empty name is no branch, and the entries
`Init` adds are among those users may add, so that what is assumed of requests
holds of them.

The invariant `FillerInv` takes from `IInv` the types (`Shape`) and the event
(`EventSound`). `SetUp` says that before `Init` the entries have variables, each
of a request. `RunningTask` says what `Init` leaves: one entry over the branch
without a cut, with a column for each field and as many columns as fields
(`OneTable`), whose cuts are initialised, and the leaves that belong to its
columns. `TreeFilled` says the tree is the rows at the channels of all events so
far (`PlainOf`). `WithFieldsSound` is the loop of `Init` over the fields: an
entry that has a field keeps it, whatever is added (`AddedHasField`), and what
`Init` adds has a column afterwards (`FieldStep`). That the code then only
compares numbers is enough because of `FieldColumns`: fields are in different
columns, and as there are no more columns than fields, every column is a
field's, even where a user added it first. `RowsOfChannels` says that an event
adds the rows of the channels that pass the branch cut, and `ThrowsExplained`
that none throws: the two reasons it leaves, a weight
of another branch and a cut nobody initialised, are excluded by `RunningTask`.

`EventLoopProofs` proves every invariant of the run `event_loop`, for any
inputs, branches, requests, cuts, numbers of tasks and events:

- `TypeCorrect`: `Spec => []TypeOK`;
- `TasksServedHolds`: `Spec => []TasksServed`;
- `ColumnsHold`: `Spec => []ColumnsDenoteRequests`;
- `RowsExactHolds`: `Spec => []RowsExact`;
- `OutputFollowsEventsHolds`: `Spec => []OutputFollowsEvents`;
- `ReadyTasksRunHolds`: `Spec => []ReadyTasksRun`.

Assumptions. `RequestsAssumption`: `NameOrder` lists the branches, each once;
`NoCut` is no cut object; cuts and variables read branches there are, requests
have variables, and equal variables read the same branches. `EventsAssumption`:
an input has a number of events, an event numbers of channels and a `Matching`
for each pair that an input's configuration has; the two maps of a `Matching` hold
just the matched channels, so that they are one-to-one. That is what the class
writes (`Matching::AddMatch`) when no channel is matched twice; what happens
otherwise is in `AnalysisTask`.

The inductive invariant `IInv` has nine parts. `Shape` are the types, with those
of tables, rows and tasks; `Named` that a table's branches are those of its
variables and cut. `BeforeInit`: up to `Init` a table has variables, no
matching and no rows, and its branches are among those its task reads.
`GrantsKept`: each grant is of a request, its table has the cut that was asked
for and its columns the variables, up to the comparisons of `AddEntry`. It is
inductive because tables only grow and only at the end: `ColumnsKept` says a
step keeps the columns there are, which `AddVariablesPlace` of `InOrderProofs`
gives for the loop over variables, and `InitTask` adds the fields of a
`PlainTreeFiller` with the same loop. `BeforeRun` and `AfterInit` say what
`Init` leaves: readers connected, the matching of each entry over two branches
found in the `Configuration` with the flag that says which map to read, cuts
initialised, one entry in a `PlainTreeFiller`. `Exact` says the tables are the
rows expected of the last event, with the values of their columns, while they
are current. `OutputRight` ties `written` and the plain trees to the
events accepted so far; a plain tree counts a disjoint union over events,
which grows by `PlainRowsCount`. `Failures` says why an event failed.

Rows: of one branch the candidates are its channels, of an `EventHeader` and
another branch the header's record with each channel, of two matched branches
the pairs in the map that the flag selects. In each case they are a list without
repetition of exactly the combinations in `Expected` before cuts, and a row's
outcome is that of the cuts on it. That neither loop throws needs `AfterInit`.

Only model-checked: what the three runs that expect a violation show, and
`RunEnds`, a liveness property, which is out of the provers' reach.

## What is not modelled

- Field ids are unbounded, while the code's are 16-bit: 32767 fields of one type
  are out of the range of any use. Branch ids in infra-1.0 do have their width.
- Hash collisions: a branch id and a config hash stand for what they hash.
- Titles, units, printing, and the contents of `DataHeader`.
- `BranchChannel` as an object with a pointer into the records, which a later
  `NewChannel` may move; records are addressed by position.
- `Track`, `Particle` and `Hit` records, whose default fields add arithmetic
  and no control; `Branch` has those of `Module` and `EventHeader`.
- Calls that change the manager during a session (`AddTask` in an `Init`),
  `SetOutputDataHeader`, and what undefined behaviour does after such calls.
- `Matching::SetMatches` and the constructor from two maps, which can make maps
  that disagree; a second `Init` of one `AnalysisTask`, which an assertion
  refuses; parsing of the names of variables.
- What a variable of infra-1.0 computes, and `TaskManager::AddBranchCut` there,
  which fills a map that nothing reads.
- `ChainDrawHelper` (string rewriting), `ToyMC` (random numbers for tests),
  build files and macros.

## Plan

Done, in this order: BranchConfig with RecordLayout and its proofs;
Configuration with MatchedBranches; GenericContainerFiller; Branch with
NamedRecords; TaskManager and its proofs; Matching with AnalysisTask;
PlainTreeFiller on top of it; BranchMerge; TreeReader, VarManager and EventLoop
for infra-1.0.

Next modules: an abstract specification of AnalysisTask (a table is the
selection of the combinations of channels, a matching a partial injection),
which VarManager should implement as well; `SetMatches` in Matching; calls
during a session in TaskManager.

Every invariant and action property of a passing run is proved.
