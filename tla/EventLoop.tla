----------------------------- MODULE EventLoop -----------------------------
(***************************************************************************)
(* The TaskManager of infra-1.0 (TaskManager.hpp, .cpp) with its tasks:    *)
(* the constructor opens the input, tasks are added and given their        *)
(* requests, Init connects the branches they name and initialises them,    *)
(* Run takes the events one by one, Finish writes the output.              *)
(***************************************************************************)
EXTENDS VarManager

CONSTANTS
  Inputs,         \* the lists of files the constructor may be given
  Settings,       \* what the setters may be given: the cuts on events and the
                  \* names of the output file and tree, whether they are set
  TaskSettings,   \* the maps SetCutsMap may be given
  Requests,       \* the entries users may add
  Events,         \* what the events may hold
  RunArguments,   \* the arguments of Run
  MaxTasks,       \* bound on the tasks
  MaxRequests     \* bound on the calls of AddEntry and AddBranch

Branches == ToSet(NameOrder)

\* The variables of the requests and those a PlainTreeFiller adds itself.
Variables ==
  UNION ({ToSet(r.vars) : r \in Requests} \cup {ToSet(BranchFields(b)) : b \in Branches})

\* The fields that are compared name the branches of a variable.
ASSUME RequestsAssumption ==
  /\ NameOrder \in Seq(Branches) /\ IsInjective(NameOrder)
  /\ NoCut \notin CutObjects
  /\ \A c \in CutObjects : CutBranches[c] \subseteq Branches
  /\ \A m \in TaskSettings : \A b \in DOMAIN m : m[b] \in CutObjects
  /\ Requests \subseteq [vars : Seq(Variables) \ {<<>>}, cut : CutObjects \cup {NoCut}]
  /\ \A b \in Branches : BranchFields(b) \in Seq(Variables)
  /\ \A v \in Variables : v.branches # {} /\ v.branches \subseteq Branches
  /\ \A v, w \in Variables : SameVariable(v, w) => v.branches = w.branches

\* The matched channels of two branches in an event, the right way round.
Matched(ev, b, c) ==
  {ij \in (0 .. ev.size[b] - 1) \X (0 .. ev.size[c] - 1) :
     \/ <<b, c>> \in DOMAIN ev.pairs /\ ij \in ev.pairs[<<b, c>>]
     \/ <<c, b>> \in DOMAIN ev.pairs /\ <<ij[2], ij[1]>> \in ev.pairs[<<c, b>>]}

\* Events have a Matching for each that the input names, a map of channels in
\* either direction that has the matched ones.
ASSUME EventsAssumption ==
  /\ RunArguments \subseteq Int
  /\ \A list \in Inputs : list[1].entries \in Nat
  /\ \A ev \in Events :
       /\ \A b \in Branches : ev.size[b] \in Nat
       /\ \A list \in Inputs :
            DOMAIN GetConfigurationFromFileList(list).config.index \subseteq DOMAIN ev.matching
       /\ \A p \in DOMAIN ev.matching :
            LET m == ev.matching[p]
            IN /\ {<<i, m.direct[i]>> : i \in DOMAIN m.direct} = Matched(ev, p[1], p[2])
               /\ {<<j, m.inverted[j]>> : j \in DOMAIN m.inverted} = Matched(ev, p[2], p[1])

VARIABLES
  phase,      \* "new", "setup", "ready", "running", "finished"; "refused" and
              \* "failed" after an exception of Init and of Run
  files,      \* the arguments of the constructor
  config,     \* in_config_
  settings,   \* event_cuts_ and whether there are an output file and tree
  tasks,      \* tasks_
  pointers,   \* branches_map_
  left,       \* the events Run still has to take
  seen,       \* history: the events it took
  current,    \* the last of them was executed
  written,    \* the numbers of the events the output tree was filled with
  granted,    \* history: the calls of AddEntry and what they returned
  calls       \* the number of these calls

setup == <<files, config, settings>>
run == <<left, seen, current, written>>

vars == <<phase, setup, tasks, pointers, run, granted, calls>>

Init ==
  /\ phase = "new"
  /\ files = <<>> /\ config = <<>> /\ settings = <<>>
  /\ tasks = <<>> /\ pointers = <<>>
  /\ left = 0 /\ seen = <<>> /\ current = FALSE /\ written = <<>>
  /\ granted = <<>> /\ calls = 0

(***************************************************************************)
(* Before Init                                                             *)
(***************************************************************************)
\* The constructor and the setters, which only store their arguments.
Construct(list, set) ==
  /\ phase = "new"
  /\ LET merged == GetConfigurationFromFileList(list)
     IN /\ phase' = IF merged.ok THEN "setup" ELSE "refused"
        /\ config' = IF merged.ok THEN merged.config ELSE <<>>
  /\ files' = list /\ settings' = set
  /\ UNCHANGED <<tasks, pointers, run, granted, calls>>

NewTask(kind, cutsMap) ==
  [kind |-> kind, branch |-> NoBranch, inBranches |-> {}, entries |-> <<>>,
   cutsMap |-> cutsMap, readers |-> {}, ready |-> {}, plain |-> <<>>]

AddTask(kind, cutsMap) ==
  /\ phase = "setup" /\ Len(tasks) < MaxTasks
  /\ tasks' = Append(tasks, NewTask(kind, cutsMap))
  /\ UNCHANGED <<phase, setup, pointers, run, granted, calls>>

MayCall(k) ==
  /\ phase = "setup" /\ calls < MaxRequests
  /\ calls' = calls + 1

RequestEntry(k, r) ==
  /\ MayCall(k)
  /\ LET added == AddEntry(tasks[k], r)
     IN /\ tasks' = [tasks EXCEPT ![k] = added.task]
        /\ granted' = Append(granted, [task |-> k, request |-> r,
                                       entry |-> added.entry, ids |-> added.ids])
  /\ UNCHANGED <<phase, setup, pointers, run>>

RequestBranch(k, b) ==
  /\ MayCall(k) /\ tasks[k].kind = "PlainTreeFiller"
  /\ tasks' = [tasks EXCEPT ![k] = AddBranch(@, b)]
  /\ UNCHANGED <<phase, setup, pointers, run, granted>>

CollectBranches(k) ==
  /\ phase = "setup" /\ FillBranchNames(tasks[k]) # tasks[k]
  /\ tasks' = [tasks EXCEPT ![k] = FillBranchNames(@)]
  /\ UNCHANGED <<phase, setup, pointers, run, granted, calls>>

(***************************************************************************)
(* Init                                                                    *)
(***************************************************************************)
\* Mutant of InputBranches: of several tasks the last one's are taken.
InputBranchesOfLast ==
  tasks[Len(tasks)].inBranches \cup BranchesOfCut(settings.eventCuts)

\* What the tasks and the event cuts name.
InputBranches ==
  (UNION {t.inBranches : t \in ToSet(tasks)}) \cup BranchesOfCut(settings.eventCuts)

\* The event cuts are split by branch, copied and initialised; the assertions
\* that they are on EventHeaders are taken to hold.
EventCutsOk == Known(config, BranchesOfCut(settings.eventCuts))

InitTasks ==
  /\ phase = "setup" /\ tasks # <<>>
  /\ IF /\ PointersOk(MakeChain(files), config, InputBranches)
        /\ EventCutsOk
        /\ \A t \in ToSet(tasks) : TaskOk(t, config)
     THEN /\ phase' = "ready"
          /\ pointers' = GetPointersToBranches(config, InputBranches)
          /\ tasks' = [k \in DOMAIN tasks |-> InitTask(tasks[k], config)]
     ELSE phase' = "refused" /\ UNCHANGED <<pointers, tasks>>
  /\ UNCHANGED <<setup, run, granted, calls>>

(***************************************************************************)
(* Run and Finish                                                          *)
(***************************************************************************)
Entries == files[1].entries

Run(n) ==
  /\ phase = "ready"
  /\ phase' = "running"
  /\ left' = IF n < 0 \/ n > Entries THEN Entries ELSE n
  /\ UNCHANGED <<setup, tasks, pointers, seen, current, written, granted, calls>>

EventPasses(ev) ==
  settings.eventCuts # NoCut =>
    Passes(settings.eventCuts, ev, [b \in CutBranches[settings.eventCuts] |-> 0])

GetEntry(ev) == left' = left - 1 /\ seen' = Append(seen, ev)

\* out_tree_->Fill(), if there is an output file and a tree in it.
Filled ==
  IF settings.outFile /\ settings.outTree THEN Append(written, Len(seen) + 1)
  ELSE written

\* Mutant of SkipEvent: the entry is filled all the same.
SkipEventFilled(ev) ==
  /\ phase = "running" /\ left > 0 /\ ~EventPasses(ev)
  /\ GetEntry(ev) /\ current' = FALSE /\ written' = Filled
  /\ UNCHANGED <<phase, setup, tasks, pointers, granted, calls>>

\* Events that the cuts reject are neither executed nor filled.
SkipEvent(ev) ==
  /\ phase = "running" /\ left > 0 /\ ~EventPasses(ev)
  /\ GetEntry(ev) /\ current' = FALSE
  /\ UNCHANGED <<phase, setup, tasks, pointers, written, granted, calls>>

TakeEvent(ev) ==
  /\ phase = "running" /\ left > 0 /\ EventPasses(ev)
  /\ GetEntry(ev)
  /\ IF \E t \in ToSet(tasks) : \E e \in ToSet(t.entries) : Throws(t, config, ev, e)
     THEN phase' = "failed" /\ current' = FALSE /\ UNCHANGED <<tasks, written>>
     ELSE /\ tasks' = [k \in DOMAIN tasks |-> Exec(tasks[k], config, ev)]
          /\ written' = Filled
          /\ current' = TRUE
          /\ UNCHANGED phase
  /\ UNCHANGED <<setup, pointers, granted, calls>>

Finish ==
  /\ phase = "running" /\ left = 0
  /\ phase' = "finished"
  /\ UNCHANGED <<setup, tasks, pointers, run, granted, calls>>

Next ==
  \/ \E list \in Inputs, set \in Settings : Construct(list, set)
  \/ \E kind \in {"VarManager", "PlainTreeFiller"}, m \in TaskSettings : AddTask(kind, m)
  \/ \E k \in DOMAIN tasks :
       \/ \E r \in Requests : RequestEntry(k, r)
       \/ \E b \in ToSet(NameOrder) : RequestBranch(k, b)
       \/ CollectBranches(k)
  \/ InitTasks
  \/ \E n \in RunArguments : Run(n)
  \/ \E ev \in Events : SkipEvent(ev) \/ TakeEvent(ev)
  \/ Finish

Spec == Init /\ [][Next]_vars

(***************************************************************************)
(* Properties                                                              *)
(***************************************************************************)
\* The tables over the branches their names say, ids within the tables, and
\* output entries for events that were taken.
TypeOK ==
  /\ phase \in {"new", "setup", "ready", "running", "finished", "refused", "failed"}
  /\ \A k \in DOMAIN tasks :
       /\ tasks[k].readers \subseteq tasks[k].inBranches
       /\ \A e \in ToSet(tasks[k].entries) :
            /\ e.names = (UNION {v.branches : v \in ToSet(e.vars)}) \cup BranchesOfCut(e.cut)
            /\ \A n \in DOMAIN e.rows : Len(e.rows[n].values) = Len(e.vars)
  /\ \A g \in DOMAIN granted :
       LET entries == tasks[granted[g].task].entries
       IN /\ granted[g].entry \in DOMAIN entries
          /\ ToSet(granted[g].ids) \subseteq 0 .. Len(entries[granted[g].entry].vars) - 1
  /\ left \in Nat /\ ToSet(written) \subseteq 1 .. Len(seen)

Initialised == phase \in {"ready", "running", "finished", "failed"}

\* After Init every entry of every task has a connected object of the right
\* type for each of its branches and a connected Matching if it uses one,
\* whichever branches the other tasks named and whichever file they are in:
\* VarManager::Init dereferences what it looks up in branches_map_ unchecked.
TasksServed ==
  Initialised => \A t \in ToSet(tasks) :
    /\ \A b \in t.readers : b \in DOMAIN pointers /\ pointers[b] = config.branch[b].type
    /\ \A e \in ToSet(t.entries) :
         /\ e.names \subseteq t.readers
         /\ e.match # <<>> => /\ e.match \in DOMAIN config.index
                              /\ config.index[e.match] \in DOMAIN pointers
                              /\ pointers[config.index[e.match]] = "Matching"

RequestedOf(k) ==
  UNION {ToSet(granted[g].request.vars) : g \in {h \in DOMAIN granted : granted[h].task = k}}

RequestedCuts(k) ==
  {granted[g].request.cut : g \in {h \in DOMAIN granted : granted[h].task = k}}

\* The comparisons of AddEntry tell everything that was asked of a task apart:
\* neither the function of a variable nor the bounds of a cut are compared.
ToldApart(k) ==
  /\ \A v, w \in RequestedOf(k) : SameVariable(v, w) => v.fn = w.fn
  /\ \A c, d \in RequestedCuts(k) : EqualCuts(c, d) => c = d

\* Every column AddEntry returned holds the variable that was asked for, under
\* the cut that was asked for, whatever was added to its table later.
ColumnsDenoteRequests ==
  \A g \in DOMAIN granted : ToldApart(granted[g].task) =>
    LET r == granted[g].request
        e == tasks[granted[g].task].entries[granted[g].entry]
    IN /\ e.cut = r.cut
       /\ \A n \in DOMAIN e.rows, i \in DOMAIN r.vars :
            e.rows[n].values[granted[g].ids[i] + 1] = Value(r.vars[i], e.rows[n].at)

\* The cuts on a row of an entry; those of the branches are left out over two
\* branches when the entry has none.
CutsOn(t, e) ==
  IF Cardinality(e.names) = 2 /\ e.cut = NoCut THEN {}
  ELSE ({e.cut} \ {NoCut}) \cup {t.cutsMap[b] : b \in e.names \cap DOMAIN t.cutsMap}

\* The combinations of channels a table is about.
Expected(c, t, e, ev) ==
  {at \in [e.names -> UNION {0 .. Channels(c, ev, b) - 1 : b \in e.names}] :
     /\ \A b \in e.names : at[b] < Channels(c, ev, b)
     /\ \A b, d \in e.names :
          b # d /\ ~IsHeader(c, b) /\ ~IsHeader(c, d)
            => <<at[b], at[d]>> \in Matched(ev, b, d)
     /\ \A cut \in CutsOn(t, e) : Passes(cut, ev, at)}

RowsOf(e) == {e.rows[n].at : n \in DOMAIN e.rows}

\* After an event every table has a row for each channel, matched pair or
\* channel with the EventHeader that passes its cuts, once, and no other row.
RowsExact ==
  current => \A t \in ToSet(tasks) : \A e \in ToSet(t.entries) :
    LET ev == seen[Len(seen)]
    IN RowsOf(e) = Expected(config, t, e, ev) /\ Len(e.rows) = Cardinality(RowsOf(e))

\* The output tree has one entry for each event the event cuts accept, in
\* order, and a plain tree the rows of just these events.
OutputFollowsEvents ==
  LET passed == {i \in DOMAIN seen : EventPasses(seen[i])}
  IN phase \in {"running", "finished"} =>
       /\ settings.outFile /\ settings.outTree => written = Ascending(passed)
       /\ \A t \in ToSet(tasks) : t.kind = "PlainTreeFiller" =>
            Len(t.plain) = Cardinality(
              UNION {{i} \X Expected(config, t, t.entries[1], seen[i]) : i \in passed})

\* A task that came through Init evaluates every event, unless an entry reads
\* more than two branches or two of which one has an id that a short loses.
ReadyTasksRun ==
  phase = "failed" => \E t \in ToSet(tasks) : \E e \in ToSet(t.entries) :
    \/ Cardinality(e.names) > 2
    \/ Cardinality(e.names) = 2 /\ \E b \in e.names : ~IdSurvives(config, b)

\* infra-1.0/VarManagerEntry.cpp: "FillFromTwoBranches populates Variables if
\* matching between two branches is defined".  No entry over two branches that
\* have a matching makes an event fail.
DocumentedTwoBranches ==
  phase = "failed" => \E t \in ToSet(tasks) : \E e \in ToSet(t.entries) :
    Cardinality(e.names) # 2 /\ Throws(t, config, seen[Len(seen)], e)
=============================================================================
