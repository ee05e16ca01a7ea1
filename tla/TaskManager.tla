---------------------------- MODULE TaskManager ----------------------------
(***************************************************************************)
(* The sessions of the TaskManager singleton (infra/TaskManager.cpp, .hpp) *)
(* and its Chain: Init with or without input, Run over the events, Finish, *)
(* and the files on disk that one session writes and the next one reads.   *)
(***************************************************************************)
EXTENDS Integers, FiniteSets

CONSTANTS
  Tasks,        \* the Task objects of the program
  Branch,       \* Branch[t]: the branch task t may add to the output
  Files,        \* the paths of files
  DefaultFile,  \* "analysis_tree.root"
  None,         \* a null pointer, a file that is not there
  MaxEvents,    \* bound on the events of one Run
  MaxEntries,   \* bound on the entries of a file
  MaxSessions   \* bound on the sessions of the program

VARIABLES
  man,      \* the manager's flags and options
  tasks,    \* tasks_; their order is not modelled
  chain,    \* what chain_ points to
  out,      \* out_tree_ and configuration_; None when there is no tree
  run,      \* the event loop of Run, None outside it
  events,   \* how many events of this session are done, when it writes
  disk,     \* the closed files
  sessions  \* how many sessions there were

vars == <<man, tasks, chain, out, run, events, disk, sessions>>

Names == {Branch[t] : t \in Tasks}

\* A matching is named by the pair of branches it matches.
Pairs == {p \in SUBSET Names : Cardinality(p) = 2}

\* A Configuration, or what a TTree has: branches of data and of matchings.
Conf == [branches : SUBSET Names, matches : SUBSET Pairs]

EmptyConf == [branches |-> {}, matches |-> {}]

\* A history of the file is kept with it: grown says that it is a copy of what
\* tasks had added branches to in memory, or of such a file.
File == [tree : Conf, conf : Conf, entries : 0 .. MaxEntries, grown : BOOLEAN]

\* The chain: its input files, the branches that tasks added to its
\* Configuration in memory, the objects it shares with the output and those of
\* them that Finish deleted.
Chains == [main   : Files \cup {None}, friend : Files \cup {None},
           added  : SUBSET Names, shared : SUBSET {"config", "header"},
           dead   : SUBSET {"config", "header"}]

ASSUME TaskManagerAssumption ==
  /\ IsFiniteSet(Tasks)
  /\ DefaultFile \in Files
  /\ None \notin Files \cup File \cup Chains
  /\ {MaxEvents, MaxEntries, MaxSessions} \subseteq Nat

\* kNone is for sessions without output: there it does what the others do.
Modes == {"kCreateNewTree", "kCopyTree", "kNone"}

\* The manager's members have their types, and the loop of Run asks for an
\* event below the number of events it was started for.
TypeOK ==
  /\ man \in [init : BOOLEAN, failed : BOOLEAN, fill : BOOLEAN, read : BOOLEAN,
              update : BOOLEAN, mode : Modes, exclude : SUBSET Names,
              file : Files]
  /\ tasks \subseteq Tasks
  /\ chain \in {None} \cup Chains
  /\ out \in {None} \cup File
  /\ run # None => run.n \in 1 .. MaxEvents /\ run.event \in 0 .. run.n - 1
  /\ events \in 0 .. MaxEntries
  /\ disk \in [Files -> File \cup {None}]
  /\ sessions \in 0 .. MaxSessions

(***************************************************************************)
(* Configurations and chains                                               *)
(***************************************************************************)
\* RemoveBranchConfig for each name of ns: their matchings go too.
Without(c, ns) ==
  [branches |-> c.branches \ ns,
   matches  |-> {p \in c.matches : p \cap ns = {}}]

Joined(c, d) ==
  [branches |-> c.branches \cup d.branches, matches |-> c.matches \cup d.matches]

FriendTree(c) == IF c.friend = None THEN EmptyConf ELSE disk[c.friend].tree

\* InitConfiguration: the configuration of the main input, and what that of the
\* friend has in addition; and the branches that tasks added since (AddBranch).
ChainConf(c) ==
  Joined(Joined(disk[c.main].conf,
                IF c.friend = None THEN EmptyConf ELSE disk[c.friend].conf),
         [branches |-> c.added, matches |-> {}])

\* The Configuration of c holds branches that none of its files has, or a file
\* that came about that way.
Grown(c) ==
  \/ c.added # {}
  \/ disk[c.main].grown
  \/ c.friend # None /\ disk[c.friend].grown

Entries(c) == IF c.main = None THEN 0 ELSE disk[c.main].entries

\* InitPointersToBranches throws for a configured branch or matching that no
\* tree of the chain has.
Opens(c) ==
  LET tree == Joined(disk[c.main].tree, FriendTree(c))
  IN /\ ChainConf(c).branches \subseteq tree.branches
     /\ ChainConf(c).matches \subseteq tree.matches

\* Mutant of CloneConfiguration: the friends' branches stay in.
CloneWithFriends(c) == ChainConf(c)

CloneConfiguration(c) == Without(ChainConf(c), FriendTree(c).branches)

(***************************************************************************)
(* Init                                                                    *)
(***************************************************************************)
Init ==
  /\ man \in [init : {FALSE}, failed : {FALSE}, fill : {FALSE}, read : {FALSE},
              update : BOOLEAN, mode : {"kCreateNewTree"}, exclude : {{}},
              file : {DefaultFile}]
  /\ tasks = {}
  /\ chain = None
  /\ out = None
  /\ run = None
  /\ events = 0
  /\ disk = [f \in Files |-> None]
  /\ sessions = 0

\* Options and tasks are set by callers before Init, never during a session.
Idle == ~man.init /\ sessions < MaxSessions

SetOutputName(f) ==
  /\ Idle
  /\ man' = [man EXCEPT !.file = f, !.fill = TRUE]
  /\ UNCHANGED <<tasks, chain, out, run, events, disk, sessions>>

SetWriteMode(mode) ==
  /\ Idle
  /\ man' = [man EXCEPT !.mode = mode]
  /\ UNCHANGED <<tasks, chain, out, run, events, disk, sessions>>

SetBranchesExclude(names) ==
  /\ Idle
  /\ man' = [man EXCEPT !.exclude = names]
  /\ UNCHANGED <<tasks, chain, out, run, events, disk, sessions>>

AddTask(t) ==
  /\ Idle /\ t \notin tasks
  /\ tasks' = tasks \cup {t}
  /\ UNCHANGED <<man, chain, out, run, events, disk, sessions>>

ClearTasks ==
  /\ Idle
  /\ tasks' = {}
  /\ UNCHANGED <<man, chain, out, run, events, disk, sessions>>

NewOutput ==
  [tree |-> EmptyConf, conf |-> EmptyConf, entries |-> 0, grown |-> FALSE]

\* Mutant of CopiedOutput: the matchings of an excluded branch are looked up
\* after its configuration is removed, when there are none.
CopiedAfterRemoval(c) ==
  [NewOutput EXCEPT
     !.tree = [@ EXCEPT !.branches = disk[c.main].tree.branches \ man.exclude,
                        !.matches = disk[c.main].tree.matches],
     !.conf = Without(CloneConfiguration(c), man.exclude),
     !.grown = Grown(c)]

\* InitOutChain, kCopyTree: the cloned tree has the branches of the main chain
\* that are not excluded, and no matching of an excluded one.
CopiedOutput(c) ==
  LET conf == CloneConfiguration(c)
      gone == {p \in conf.matches : p \cap man.exclude # {}}
      tree == disk[c.main].tree
  IN [tree |-> [branches |-> tree.branches \ man.exclude,
                matches  |-> tree.matches \ gone],
      conf |-> Without(conf, man.exclude),
      entries |-> 0,
      grown   |-> Grown(c)]

\* CheckBranchExistence throws for an excluded branch that is in no tree.
CanExclude(c) ==
  man.exclude \subseteq disk[c.main].tree.branches \cup FriendTree(c).branches

\* What InitTasks may make of output o: the tasks' Init add branches by names
\* new to the output (AddBranch), and a matching of two branches that the
\* output's Configuration has (AddMatching throws for another).
Outputs(o) ==
  LET new == {ns \in SUBSET {Branch[t] : t \in tasks} :
                ns \cap (o.tree.branches \cup o.conf.branches) = {}}
      pairs(ns) == {p \in Pairs \ (o.tree.matches \cup o.conf.matches) :
                      p \subseteq o.conf.branches \cup ns}
      added(ns, ps) == [branches |-> ns, matches |-> ps]
  IN UNION {{[o EXCEPT !.tree = Joined(@, added(ns, ps)),
                       !.conf = Joined(@, added(ns, ps))] :
               ps \in SUBSET pairs(ns)} : ns \in new}

\* Mutant of NewChain: a chain_ that is already there is kept.
ChainKept(f, g, shared) ==
  IF chain # None THEN [chain EXCEPT !.main = f, !.friend = g]
  ELSE [main |-> f, friend |-> g, added |-> {}, shared |-> shared, dead |-> {}]

NewChain(f, g, shared) ==
  [main |-> f, friend |-> g, added |-> {}, shared |-> shared, dead |-> {}]

\* TFile::Open(.., "recreate")
Truncated == [disk EXCEPT ![man.file] = None]

\* Init with input f and maybe friend g.  is_init_ is set first and stays set
\* when a later step throws, or stops at the tree that kNone does not make.
\* Branches of a new tree go into the Configuration of chain_ as well (AddBranch).
\* Callers never write to a file they read.
InitRead(f, g) ==
  /\ Idle
  /\ disk[f] # None /\ f # g /\ (g # None => disk[g] # None)
  /\ man.fill => man.file \notin {f, g}
  /\ sessions' = sessions + 1
  /\ LET c == NewChain(f, g, {})
         copies == man.fill /\ man.mode = "kCopyTree"
         fails == \/ ~Opens(c)
                  \/ copies /\ ~CanExclude(c)
                  \/ man.fill /\ man.mode = "kNone"
     IN /\ man' = [man EXCEPT !.init = TRUE, !.read = TRUE, !.failed = fails]
        /\ disk' = IF man.fill /\ Opens(c) THEN Truncated ELSE disk
        /\ IF fails \/ ~man.fill THEN UNCHANGED out /\ chain' = c
           ELSE IF copies
           THEN /\ out' \in Outputs(CopiedOutput(c))
                /\ chain' = NewChain(f, g, {"header"})
           ELSE /\ out' \in Outputs(NewOutput)
                /\ chain' = [c EXCEPT !.added = out'.conf.branches]
  /\ UNCHANGED <<tasks, run, events>>

\* Init() stops without an output: no tree is made in kNone; in kCopyTree there
\* is no chain_ of input files to clone (the assert, or the Configuration that
\* Finish of a session without input deleted) or no such branch to exclude.
CannotCreate ==
  \/ man.mode = "kNone"
  \/ /\ man.mode = "kCopyTree"
     /\ \/ chain = None
        \/ chain.main = None
        \/ ~CanExclude(chain)

\* It may stop or go on: the DataHeader it copies is deleted, or the file it
\* has just truncated is one of the chain it clones.
MayNotCreate ==
  /\ man.mode = "kCopyTree"
  /\ chain.dead # {} \/ man.file \in {chain.main, chain.friend}

\* Init() makes the output its own input.  The write mode is what an earlier
\* session left it: in kCopyTree the output is a copy of that session's chain_,
\* whose DataHeader it takes over, deleted or not.
InitCreate ==
  /\ Idle
  /\ sessions' = sessions + 1
  /\ disk' = Truncated
  /\ \E stops \in {s \in BOOLEAN : /\ CannotCreate => s
                                   /\ s => CannotCreate \/ MayNotCreate} :
       /\ man' = [man EXCEPT !.init = TRUE, !.fill = TRUE, !.failed = stops]
       /\ IF stops THEN UNCHANGED <<chain, out>>
          ELSE IF man.mode = "kCopyTree"
          THEN /\ out' \in Outputs(CopiedOutput(chain))
               /\ chain' = [NewChain(None, None, {"config", "header"}) EXCEPT
                              !.dead = chain.dead]
          ELSE /\ out' \in Outputs(NewOutput)
               /\ chain' = NewChain(None, None, {"config", "header"})
  /\ UNCHANGED <<tasks, run, events>>

(***************************************************************************)
(* Run                                                                     *)
(***************************************************************************)
Ready == man.init /\ ~man.failed /\ run = None

\* The events the loop will run, out of nEvents.
Clamped(n) ==
  IF Entries(chain) > 0 /\ (n < 0 \/ n > Entries(chain))
  THEN Entries(chain) ELSE n

\* Run starts its loop; a loop of no events changes nothing.
Run(n) ==
  /\ Ready
  /\ Clamped(n) \in 1 .. MaxEvents
  /\ man.fill => events + Clamped(n) <= MaxEntries
  /\ run' = [n |-> Clamped(n), event |-> 0]
  /\ UNCHANGED <<man, tasks, chain, out, events, disk, sessions>>

\* Mutant of NextEvent: one event too many.
OneMoreEvent ==
  IF run.event < run.n THEN [run EXCEPT !.event = @ + 1] ELSE None

NextEvent ==
  IF run.event + 1 < run.n THEN [run EXCEPT !.event = @ + 1] ELSE None

\* Mutant of Fills: the tree is filled only when some task's cuts pass.
FillsWhenGood(good) == IF man.update THEN {IF good = {} THEN 0 ELSE 1}
                       ELSE 0 .. Cardinality(good)

\* How often FillOutput is called for an event whose cuts the tasks of good
\* pass: by the manager after them, or by a task itself in its Exec.
Fills(good) == IF man.update THEN {1} ELSE 0 .. Cardinality(good)

\* Exec for one event of the loop.
Exec ==
  /\ run # None
  /\ \E good \in SUBSET tasks :
       IF man.fill
       THEN \E k \in Fills(good) :
              /\ out.entries + k <= MaxEntries
              /\ out' = [out EXCEPT !.entries = @ + k]
              /\ events' = events + 1
       ELSE UNCHANGED <<out, events>>
  /\ run' = NextEvent
  /\ UNCHANGED <<man, tasks, chain, disk, sessions>>

(***************************************************************************)
(* Finish                                                                  *)
(***************************************************************************)
\* The output is written and its objects deleted, chain_ stays as it is.
Finish ==
  /\ Ready
  /\ IF man.fill
     THEN /\ disk' = [disk EXCEPT ![man.file] = out]
          /\ chain' = [chain EXCEPT !.dead = @ \cup chain.shared]
     ELSE UNCHANGED <<disk, chain>>
  /\ out' = None
  /\ man' = [man EXCEPT !.init = FALSE, !.fill = FALSE, !.read = FALSE,
                        !.file = DefaultFile]
  /\ events' = 0
  /\ UNCHANGED <<tasks, run, sessions>>

\* A DataHeader that is deleted already: to write it and to delete it again may
\* end the program, before the file is closed.
FinishStops ==
  /\ Ready /\ man.fill /\ chain.dead # {}
  /\ man' = [man EXCEPT !.failed = TRUE]
  /\ out' = None
  /\ UNCHANGED <<tasks, chain, run, events, disk, sessions>>

Next ==
  \/ \E f \in Files : SetOutputName(f)
  \/ \E m \in Modes : SetWriteMode(m)
  \/ \E ns \in SUBSET Names : SetBranchesExclude(ns)
  \/ \E t \in Tasks : AddTask(t)
  \/ ClearTasks
  \/ \E f \in Files, g \in Files \cup {None} : InitRead(f, g)
  \/ InitCreate
  \/ \E n \in -1 .. MaxEvents : Run(n)
  \/ Exec
  \/ Finish
  \/ FinishStops

Spec == Init /\ [][Next]_vars

(***************************************************************************)
(* Properties                                                              *)
(***************************************************************************)
\* Every file a session leaves can be read back: each branch and matching its
\* Configuration names is in its tree (InitPointersToBranches throws for one
\* that is not), however it was copied, joined with friends or cut down.  Grown
\* files are excepted: Init() copies the Configuration of a chain_ to which
\* tasks of an earlier session added branches, and the tree without them.
FilesReadable ==
  \A f \in Files : disk[f] # None /\ ~disk[f].grown =>
    /\ disk[f].conf.branches \subseteq disk[f].tree.branches
    /\ disk[f].conf.matches \subseteq disk[f].tree.matches
    /\ disk[f].conf.matches \subseteq SUBSET disk[f].conf.branches

\* Output o, made from chain c, has in its tree exactly what its Configuration
\* describes: always a new tree; a copy when the input's tree did and shares no
\* branch name with its friend, and it is not grown.
Described(o, c) ==
  \/ o.tree = o.conf
  \/ o.grown
  \/ /\ man.mode = "kCopyTree"
     /\ \/ disk[c.main].tree # disk[c.main].conf
        \/ disk[c.main].tree.branches \cap FriendTree(c).branches # {}

\* What a step may do to the output: make it from the chain it reads, or from
\* the chain_ it finds, and then keep its tree and its Configuration.
DescribedStep ==
  /\ out = None /\ out' # None =>
       Described(out', IF man'.read THEN chain' ELSE chain)
  /\ out # None /\ out' # None => out'.tree = out.tree /\ out'.conf = out.conf

\* An output is made with a tree that its Configuration describes, whichever
\* branches and matchings a copy excludes and whether Init was given the input
\* or found it in chain_; neither changes until the session ends.
OutputDescribed == [][DescribedStep]_vars

\* When the manager fills the tree itself, the output has one entry for every
\* event done, in every Run of the session, whatever the event cuts rejected.
EntriesCounted == out # None /\ man.update => out.entries = events

\* While a session is open, the Configuration and DataHeader that chain_ gives
\* to tasks exist, though Finish of an earlier session deleted shared ones:
\* with input in any mode, and without input when a new tree is created.
ChainUsable ==
  man.init /\ (man.read \/ man.mode = "kCreateNewTree") =>
    chain # None /\ chain.dead = {}

\* infra/TaskManager.cpp:74: assert(configuration_ && data_header_ && chain_),
\* "input should exist": a session that copies has an input it can read.
InputExists ==
  man.init /\ ~man.failed /\ man.mode = "kCopyTree" /\ chain # None =>
    chain.dead = {}
=============================================================================
