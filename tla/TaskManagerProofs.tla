------------------------- MODULE TaskManagerProofs -------------------------
(***************************************************************************)
(* Proofs about TaskManager, for any tasks, branches and files and any     *)
(* number of sessions, events and entries.                                 *)
(***************************************************************************)
EXTENDS TaskManager, FiniteSetTheorems, TLAPS

\* A file whose Configuration names only branches and matchings that its tree
\* has, and matchings only of branches that it names; unless it is grown.
Readable(o) ==
  /\ o \in File
  /\ ~o.grown => /\ o.conf.branches \subseteq o.tree.branches
                 /\ o.conf.matches \subseteq o.tree.matches
                 /\ o.conf.matches \subseteq SUBSET o.conf.branches

LEMMA PairFact == \A p \in Pairs : p # {}
BY FS_EmptySet DEF Pairs

LEMMA ConfClosed ==
  ASSUME NEW c \in Conf, NEW d \in Conf, NEW ns
  PROVE  Joined(c, d) \in Conf /\ Without(c, ns) \in Conf
BY DEF Conf, Joined, Without

LEMMA NewOutputReadable ==
  /\ Readable(NewOutput) /\ NewOutput.entries = 0
  /\ NewOutput.tree = NewOutput.conf /\ ~NewOutput.grown
BY TaskManagerAssumption DEF NewOutput, EmptyConf, Readable, File, Conf

\* Tasks extend the tree and the Configuration of an output alike.
LEMMA OutputsReadable ==
  ASSUME NEW o, Readable(o), tasks \subseteq Tasks, NEW x \in Outputs(o)
  PROVE  /\ Readable(x)
         /\ x.entries = o.entries /\ x.grown = o.grown
         /\ o.tree = o.conf => x.tree = x.conf
<1> DEFINE pairs(ns) == {p \in Pairs \ (o.tree.matches \cup o.conf.matches) :
                           p \subseteq o.conf.branches \cup ns}
           extended(ns, ps) ==
             [o EXCEPT !.tree = Joined(@, [branches |-> ns, matches |-> ps]),
                       !.conf = Joined(@, [branches |-> ns, matches |-> ps])]
<1>0. PICK ns \in SUBSET {Branch[t] : t \in tasks} :
        x \in {extended(ns, ps) : ps \in SUBSET pairs(ns)}
  BY Zenon DEF Outputs
<1>1. PICK ps \in SUBSET pairs(ns) : x = extended(ns, ps)
  BY <1>0
<1> DEFINE added == [branches |-> ns, matches |-> ps]
<1>2. added \in Conf
  BY <1>1 DEF Conf, Names
<1>3. o \in File /\ o.tree \in Conf /\ o.conf \in Conf
  BY DEF Readable, File
<1>4. x \in File /\ x.entries = o.entries /\ x.grown = o.grown
      /\ x.tree = Joined(o.tree, added) /\ x.conf = Joined(o.conf, added)
  BY <1>1, <1>2, <1>3, ConfClosed DEF File
<1>5. /\ x.tree.branches = o.tree.branches \cup ns
      /\ x.conf.branches = o.conf.branches \cup ns
      /\ x.tree.matches = o.tree.matches \cup ps
      /\ x.conf.matches = o.conf.matches \cup ps
  BY <1>4 DEF Joined
<1>6. o.tree = o.conf => x.tree = x.conf
  BY <1>4
<1>7. ~o.grown => \A p \in x.conf.matches : p \subseteq x.conf.branches
  BY <1>1, <1>5 DEF Readable
<1> QED
  BY <1>4, <1>5, <1>6, <1>7 DEF Readable

\* What CopiedOutput makes of a readable input and friend: readable again, and
\* as well described as the input was, if they share no branch name.
LEMMA CopiedReadable ==
  ASSUME NEW c, c.main \in Files, c.friend \in Files \cup {None},
         c.added \subseteq Names,
         Readable(disk[c.main]), c.friend # None => Readable(disk[c.friend])
  PROVE  /\ Readable(CopiedOutput(c))
         /\ CopiedOutput(c).entries = 0
         /\ \/ CopiedOutput(c).tree = CopiedOutput(c).conf
            \/ CopiedOutput(c).grown
            \/ disk[c.main].tree # disk[c.main].conf
            \/ disk[c.main].tree.branches \cap FriendTree(c).branches # {}
<1> DEFINE in   == disk[c.main]
           ft   == FriendTree(c)
           conf == CloneConfiguration(c)
           x    == CopiedOutput(c)
           ex   == man.exclude
<1>1. in.tree \in Conf /\ in.conf \in Conf /\ in.grown \in BOOLEAN
  BY DEF Readable, File
<1> DEFINE fc == IF c.friend = None THEN EmptyConf ELSE disk[c.friend].conf
<1>2. /\ ft \in Conf /\ fc \in Conf /\ ChainConf(c) \in Conf
      /\ Grown(c) \in BOOLEAN
  <2>1. ft \in Conf /\ fc \in Conf
    BY DEF FriendTree, EmptyConf, Conf, Readable, File
  <2>2. [branches |-> c.added, matches |-> {}] \in Conf
    BY DEF Conf
  <2> HIDE DEF in, fc
  <2>3. Joined(in.conf, fc) \in Conf
    BY <1>1, <2>1, ConfClosed
  <2>4. ChainConf(c)
          = Joined(Joined(in.conf, fc), [branches |-> c.added, matches |-> {}])
    BY DEF ChainConf, in, fc
  <2> QED
    BY <2>1, <2>2, <2>3, <2>4, ConfClosed DEF Grown
<1>3. /\ conf \in Conf
      /\ conf.branches = ChainConf(c).branches \ ft.branches
      /\ conf.matches = {p \in ChainConf(c).matches : p \cap ft.branches = {}}
  BY <1>2, ConfClosed DEF CloneConfiguration, Without
\* What the friend has beyond its own tree: nothing.
<1>4. ASSUME ~Grown(c)
      PROVE  /\ ChainConf(c).branches \ ft.branches = in.conf.branches \ ft.branches
             /\ \A p \in ChainConf(c).matches :
                  p \cap ft.branches = {} => p \in in.conf.matches
             /\ in.conf.matches \subseteq ChainConf(c).matches
  <2>1. /\ fc.branches \subseteq ft.branches
        /\ \A p \in fc.matches : p \subseteq fc.branches /\ p # {}
    <3>1. CASE c.friend = None
      BY <3>1 DEF FriendTree, EmptyConf
    <3>2. CASE c.friend # None
      BY <1>4, <1>2, <3>2, PairFact DEF Readable, FriendTree, Grown, Conf
    <3> QED
      BY <3>1, <3>2
  <2>2. /\ ChainConf(c).branches = in.conf.branches \cup fc.branches
        /\ ChainConf(c).matches = in.conf.matches \cup fc.matches
    BY <1>4 DEF ChainConf, Joined, Grown
  <2> HIDE DEF in, ft, fc
  <2> QED
    BY <2>1, <2>2
<1>5. /\ x.tree.branches = in.tree.branches \ ex
      /\ x.tree.matches = in.tree.matches \ {p \in conf.matches : p \cap ex # {}}
      /\ x.conf.branches = conf.branches \ ex
      /\ x.conf.matches = {p \in conf.matches : p \cap ex = {}}
      /\ x.entries = 0 /\ x.grown = Grown(c)
  BY DEF CopiedOutput, Without
<1>6. x.tree \in Conf /\ x.conf \in Conf
  BY <1>1, <1>3 DEF CopiedOutput, Without, Conf
<1>7. x \in File
  BY <1>2, <1>6, TaskManagerAssumption DEF CopiedOutput, File
<1> HIDE DEF fc
<1> SUFFICES ASSUME ~Grown(c)
             PROVE  /\ x.conf.branches \subseteq x.tree.branches
                    /\ x.conf.matches \subseteq x.tree.matches
                    /\ x.conf.matches \subseteq SUBSET x.conf.branches
                    /\ \/ x.tree = x.conf \/ in.tree # in.conf
                       \/ in.tree.branches \cap ft.branches # {}
  BY <1>5, <1>7 DEF Readable
<1>8. /\ in.conf.branches \subseteq in.tree.branches
      /\ in.conf.matches \subseteq in.tree.matches
      /\ \A p \in in.conf.matches : p \subseteq in.conf.branches
  BY DEF Readable, Grown
<1>9. x.tree = x.conf \/ in.tree # in.conf \/ in.tree.branches \cap ft.branches # {}
  <2> SUFFICES ASSUME in.tree = in.conf, in.tree.branches \cap ft.branches = {}
               PROVE  x.tree = x.conf
    OBVIOUS
  <2>1. x.tree.branches = x.conf.branches
    BY <1>3, <1>4, <1>5
  <2>2. x.tree.matches = x.conf.matches
    BY <1>3, <1>4, <1>5, <1>8
  <2> QED
    BY <1>6, <2>1, <2>2 DEF Conf
<1>10. x.conf.branches \subseteq x.tree.branches
  BY <1>3, <1>4, <1>5, <1>8
<1>11. x.conf.matches \subseteq x.tree.matches
  BY <1>3, <1>4, <1>5, <1>8
<1>12. \A p \in x.conf.matches : p \subseteq x.conf.branches
  BY <1>3, <1>4, <1>5, <1>8
<1> QED
  BY <1>9, <1>10, <1>11, <1>12

\* The output of a session that creates a new tree.
LEMMA CreatedMade ==
  ASSUME tasks \subseteq Tasks, NEW c, NEW x \in Outputs(NewOutput)
  PROVE  /\ Readable(x) /\ x.entries = 0 /\ x.conf.branches \subseteq Names
         /\ Described(x, c)
<1>1. Readable(x) /\ x.entries = 0 /\ x.tree = x.conf
  BY NewOutputReadable, OutputsReadable
<1> QED
  BY <1>1 DEF Described, Readable, File, Conf

\* The output of a session that copies the input of chain c.
LEMMA CopiedMade ==
  ASSUME tasks \subseteq Tasks, man.mode = "kCopyTree",
         NEW c, c.main \in Files, c.friend \in Files \cup {None},
         c.added \subseteq Names,
         Readable(disk[c.main]), c.friend # None => Readable(disk[c.friend]),
         NEW x \in Outputs(CopiedOutput(c))
  PROVE  Readable(x) /\ x.entries = 0 /\ Described(x, c)
<1>1. /\ Readable(x) /\ x.entries = 0 /\ x.grown = CopiedOutput(c).grown
      /\ CopiedOutput(c).tree = CopiedOutput(c).conf => x.tree = x.conf
  BY CopiedReadable, OutputsReadable
<1> QED
  BY <1>1, CopiedReadable DEF Described

(***************************************************************************)
(* The inductive invariant.  The properties of the runs do not imply each  *)
(* other's next step: that Finish leaves a readable file needs the output  *)
(* to be readable all along, that it was counted needs what an event may   *)
(* find between sessions, both need what a session that failed lacks, and  *)
(* a session without input copies the files of the chain_ it finds.        *)
(***************************************************************************)
\* The manager has an output tree it can fill and write.
Writing == man.init /\ man.fill /\ ~man.failed

DiskReadable == \A f \in Files : disk[f] # None => Readable(disk[f])

OutputWhole ==
  /\ out # None => Writing
  /\ Writing => Readable(out) /\ (man.update => out.entries = events)

BetweenSessions == ~man.init => events = 0 /\ ~man.failed /\ ~man.read

\* A session has a chain, and the files chain_ was made for are on disk, in the
\* session and after it.
InputThere ==
  ~man.failed =>
    /\ man.init => chain # None
    /\ chain # None /\ chain.main # None => disk[chain.main] # None
    /\ chain # None /\ chain.friend # None => disk[chain.friend] # None

\* The loop runs in a session that did not fail, and has room for its events.
LoopWithinBounds ==
  run # None =>
    /\ run \in [n : 1 .. MaxEvents, event : Nat]
    /\ run.event < run.n
    /\ man.init /\ ~man.failed
    /\ man.fill => events + run.n - run.event <= MaxEntries

IInv == TypeOK /\ DiskReadable /\ OutputWhole /\ BetweenSessions
        /\ LoopWithinBounds /\ InputThere /\ ChainUsable

LEMMA InitInvariant == Init => IInv
<1> SUFFICES ASSUME Init PROVE IInv
  OBVIOUS
<1>1. TypeOK
  <2>1. man \in [init : BOOLEAN, failed : BOOLEAN, fill : BOOLEAN,
                 read : BOOLEAN, update : BOOLEAN, mode : Modes,
                 exclude : SUBSET Names, file : Files]
    BY TaskManagerAssumption DEF Init, Modes
  <2>2. 0 \in 0 .. MaxEntries /\ 0 \in 0 .. MaxSessions
    BY TaskManagerAssumption
  <2>3. disk \in [Files -> File \cup {None}]
    BY DEF Init
  <2> QED
    BY <2>1, <2>2, <2>3 DEF Init, TypeOK
<1> QED
  BY <1>1 DEF Init, IInv, DiskReadable, OutputWhole, Writing, BetweenSessions,
              LoopWithinBounds, InputThere, ChainUsable

\* Options and tasks set between sessions: nothing is open then.
LEMMA OptionsPreserve ==
  ASSUME IInv, Idle, man'.init = FALSE, man'.failed = man.failed,
         man'.read = man.read,
         man' \in [init : BOOLEAN, failed : BOOLEAN, fill : BOOLEAN,
                   read : BOOLEAN, update : BOOLEAN, mode : Modes,
                   exclude : SUBSET Names, file : Files],
         tasks' \subseteq Tasks,
         UNCHANGED <<chain, out, run, events, disk, sessions>>
  PROVE  IInv' /\ DescribedStep
<1>1. out = None /\ run = None
  BY DEF IInv, OutputWhole, Writing, LoopWithinBounds, Idle
<1>2. TypeOK'
  BY <1>1 DEF IInv, TypeOK
<1>3. DiskReadable'
  BY DEF IInv, DiskReadable, Readable
<1> QED
  BY <1>1, <1>2, <1>3
     DEF IInv, OutputWhole, Writing, BetweenSessions, LoopWithinBounds,
         InputThere, ChainUsable, DescribedStep, Idle

LEMMA OptionsStep ==
  ASSUME IInv,
         \/ \E f \in Files : SetOutputName(f)
         \/ \E m \in Modes : SetWriteMode(m)
         \/ \E ns \in SUBSET Names : SetBranchesExclude(ns)
         \/ \E t \in Tasks : AddTask(t)
         \/ ClearTasks
  PROVE  IInv' /\ DescribedStep
<1>1. TypeOK
  BY DEF IInv
<1>2. /\ Idle
      /\ man'.init = FALSE /\ man'.failed = man.failed /\ man'.read = man.read
      /\ man' \in [init : BOOLEAN, failed : BOOLEAN, fill : BOOLEAN,
                   read : BOOLEAN, update : BOOLEAN, mode : Modes,
                   exclude : SUBSET Names, file : Files]
      /\ tasks' \subseteq Tasks
      /\ UNCHANGED <<chain, out, run, events, disk, sessions>>
  <2>1. ASSUME NEW f \in Files, SetOutputName(f) PROVE <1>2!:
    BY <1>1, <2>1 DEF SetOutputName, Idle, TypeOK
  <2>2. ASSUME NEW m \in Modes, SetWriteMode(m) PROVE <1>2!:
    BY <1>1, <2>2 DEF SetWriteMode, Idle, TypeOK
  <2>3. ASSUME NEW ns \in SUBSET Names, SetBranchesExclude(ns) PROVE <1>2!:
    BY <1>1, <2>3 DEF SetBranchesExclude, Idle, TypeOK
  <2>4. ASSUME NEW t \in Tasks, AddTask(t) PROVE <1>2!:
    BY <1>1, <2>4 DEF AddTask, Idle, TypeOK
  <2>5. ASSUME ClearTasks PROVE <1>2!:
    BY <1>1, <2>5 DEF ClearTasks, Idle, TypeOK
  <2> QED
    BY <2>1, <2>2, <2>3, <2>4, <2>5
<1> QED
  BY <1>2, OptionsPreserve

\* Before a session nothing is open, and no event is done.
LEMMA NothingOpen ==
  ASSUME IInv, Idle
  PROVE  /\ TypeOK /\ out = None /\ run = None /\ events = 0
         /\ ~man.failed /\ ~man.read
         /\ sessions + 1 \in 0 .. MaxSessions
BY TaskManagerAssumption
   DEF IInv, TypeOK, OutputWhole, Writing, LoopWithinBounds, BetweenSessions, Idle

\* Init with input: what it writes is readable because its input is.
LEMMA InitReadStep ==
  ASSUME IInv, NEW f \in Files, NEW g \in Files \cup {None}, InitRead(f, g)
  PROVE  IInv' /\ DescribedStep
<1> DEFINE c == NewChain(f, g, {})
           copies == man.fill /\ man.mode = "kCopyTree"
           fails == \/ ~Opens(c)
                    \/ copies /\ ~CanExclude(c)
                    \/ man.fill /\ man.mode = "kNone"
<1>1. /\ TypeOK /\ Idle /\ out = None /\ run = None /\ events = 0
      /\ ~man.failed /\ ~man.read
      /\ sessions + 1 \in 0 .. MaxSessions
  BY NothingOpen DEF InitRead
<1>2. /\ disk[f] # None /\ (g # None => disk[g] # None)
      /\ man.fill => man.file \notin {f, g}
      /\ sessions' = sessions + 1
      /\ man' = [man EXCEPT !.init = TRUE, !.read = TRUE, !.failed = fails]
      /\ disk' = IF man.fill /\ Opens(c) THEN Truncated ELSE disk
      /\ fails \/ ~man.fill => out' = None /\ chain' = c
      /\ ~fails /\ copies =>
           /\ out' \in Outputs(CopiedOutput(c))
           /\ chain' = NewChain(f, g, {"header"})
      /\ ~fails /\ man.fill /\ ~copies =>
           /\ out' \in Outputs(NewOutput)
           /\ chain' = [c EXCEPT !.added = out'.conf.branches]
      /\ UNCHANGED <<tasks, run, events>>
  BY <1>1, Zenon DEF InitRead
<1> HIDE DEF fails
<1>3. /\ man'.init /\ man'.read /\ man'.failed = fails /\ man'.fill = man.fill
      /\ man'.update = man.update
      /\ man' \in [init : BOOLEAN, failed : BOOLEAN, fill : BOOLEAN,
                   read : BOOLEAN, update : BOOLEAN, mode : Modes,
                   exclude : SUBSET Names, file : Files]
  <2>1. fails \in BOOLEAN
    BY DEF fails
  <2> QED
    BY <1>1, <1>2, <2>1 DEF TypeOK
<1>4. /\ c \in Chains /\ c.main = f /\ c.friend = g /\ c.added = {}
      /\ c.dead = {}
  BY DEF NewChain, Chains
\* The files it reads are not the one it truncates.
<1>5. /\ disk' \in [Files -> File \cup {None}]
      /\ \A h \in Files : disk'[h] \in {disk[h], None}
      /\ disk'[f] # None /\ (g # None => disk'[g] # None)
  BY <1>1, <1>2 DEF Truncated, TypeOK
<1>6. DiskReadable'
  BY <1>5 DEF IInv, DiskReadable, Readable
<1>7. Readable(disk[f]) /\ (g # None => Readable(disk[g]))
  BY <1>2 DEF IInv, DiskReadable
<1>8. /\ man.fill /\ ~fails => Readable(out') /\ out'.entries = 0
                               /\ Described(out', chain')
      /\ chain' \in Chains /\ chain'.dead = {}
      /\ chain'.main = f /\ chain'.friend = g
  <2>1. CASE fails \/ ~man.fill
    BY <1>2, <1>4, <2>1
  <2>2. CASE ~fails /\ copies
    <3>1. chain' = NewChain(f, g, {"header"})
      BY <1>2, <2>2
    <3>2. /\ chain' \in Chains /\ chain'.main = f /\ chain'.friend = g
          /\ chain'.dead = {}
      BY <3>1 DEF NewChain, Chains
    <3>3. Described(out', chain') <=> Described(out', c)
      BY <1>4, <3>2 DEF Described, FriendTree
    <3>4. tasks \subseteq Tasks /\ out' \in Outputs(CopiedOutput(c))
      BY <1>1, <1>2, <2>2 DEF TypeOK
    <3>6. man.mode = "kCopyTree"
      BY <2>2
    <3> HIDE DEF c
    <3>5. Readable(out') /\ out'.entries = 0 /\ Described(out', c)
      BY <1>4, <1>7, <3>4, <3>6, CopiedMade
    <3> QED
      BY <3>2, <3>3, <3>5
  <2>3. CASE ~fails /\ man.fill /\ ~copies
    <3>1. /\ out' \in Outputs(NewOutput) /\ tasks \subseteq Tasks
          /\ chain' = [c EXCEPT !.added = out'.conf.branches]
      BY <1>1, <1>2, <2>3 DEF TypeOK
    <3>2. /\ Readable(out') /\ out'.entries = 0
          /\ out'.conf.branches \subseteq Names /\ Described(out', chain')
      BY <3>1, CreatedMade
    <3> HIDE DEF c
    <3>3. /\ chain' \in Chains /\ chain'.main = f /\ chain'.friend = g
          /\ chain'.dead = {}
      BY <1>4, <3>1, <3>2 DEF Chains
    <3> QED
      BY <3>2, <3>3
  <2> QED
    BY <2>1, <2>2, <2>3
<1>9. chain' # None
  BY <1>8, TaskManagerAssumption
<1>10. TypeOK'
  <2>1. out' \in {None} \cup File
    BY <1>2, <1>8 DEF Readable
  <2> QED
    BY <1>1, <1>2, <1>3, <1>5, <1>8, <2>1 DEF TypeOK
<1>11. OutputWhole'
  <2>1. out' # None => man.fill /\ ~fails
    BY <1>2
  <2>2. Readable(out)' <=> Readable(out')
    BY DEF Readable
  <2> QED
    BY <1>1, <1>2, <1>3, <1>8, <2>1, <2>2 DEF OutputWhole, Writing
<1>12. InputThere'
  BY <1>5, <1>8, <1>9 DEF InputThere
<1>13. DescribedStep
  BY <1>1, <1>2, <1>3, <1>8 DEF DescribedStep
<1> QED
  BY <1>1, <1>2, <1>3, <1>6, <1>8, <1>9, <1>10, <1>11, <1>12, <1>13
     DEF IInv, BetweenSessions, LoopWithinBounds, ChainUsable

\* Init without input: in copy mode the input is what chain_ still has, and the
\* output is readable because its files are.
LEMMA InitCreateStep ==
  ASSUME IInv, InitCreate
  PROVE  IInv' /\ DescribedStep
<1>1. /\ TypeOK /\ Idle /\ out = None /\ run = None /\ events = 0
      /\ ~man.failed /\ ~man.read
      /\ sessions + 1 \in 0 .. MaxSessions
  BY NothingOpen DEF InitCreate
<1>2. PICK stops \in BOOLEAN :
        /\ CannotCreate => stops
        /\ stops => CannotCreate \/ MayNotCreate
        /\ man' = [man EXCEPT !.init = TRUE, !.fill = TRUE, !.failed = stops]
        /\ stops => UNCHANGED <<chain, out>>
        /\ ~stops /\ man.mode = "kCopyTree" =>
             /\ out' \in Outputs(CopiedOutput(chain))
             /\ chain' = [NewChain(None, None, {"config", "header"}) EXCEPT
                            !.dead = chain.dead]
        /\ ~stops /\ man.mode # "kCopyTree" =>
             /\ out' \in Outputs(NewOutput)
             /\ chain' = NewChain(None, None, {"config", "header"})
  BY Zenon DEF InitCreate
<1>3. disk' = Truncated /\ sessions' = sessions + 1
      /\ UNCHANGED <<tasks, run, events>>
  BY DEF InitCreate
<1>4. /\ man'.init /\ man'.fill /\ man'.failed = stops /\ ~man'.read
      /\ man'.mode = man.mode /\ man'.update = man.update
      /\ man' \in [init : BOOLEAN, failed : BOOLEAN, fill : BOOLEAN,
                   read : BOOLEAN, update : BOOLEAN, mode : Modes,
                   exclude : SUBSET Names, file : Files]
  BY <1>1, <1>2 DEF TypeOK
<1>5. /\ disk' \in [Files -> File \cup {None}]
      /\ \A h \in Files : disk'[h] \in {disk[h], None}
  BY <1>1, <1>3 DEF Truncated, TypeOK
<1>6. DiskReadable'
  BY <1>5 DEF IInv, DiskReadable, Readable
<1>7. stops => man.mode # "kCreateNewTree"
  BY <1>2 DEF CannotCreate, MayNotCreate
<1>8. ASSUME ~stops
      PROVE  /\ Readable(out') /\ out'.entries = 0 /\ Described(out', chain)
             /\ chain' \in Chains /\ chain'.main = None /\ chain'.friend = None
             /\ man.mode = "kCreateNewTree" => chain'.dead = {}
  <2>1. tasks \subseteq Tasks
    BY <1>1 DEF TypeOK
  <2>2. CASE man.mode = "kCopyTree"
    <3>1. chain # None /\ chain.main # None
      BY <1>2, <1>8, <2>2 DEF CannotCreate
    <3>2. /\ chain \in Chains /\ chain.main \in Files
          /\ chain.friend \in Files \cup {None} /\ chain.added \subseteq Names
          /\ chain.dead \subseteq {"config", "header"}
      BY <1>1, <3>1 DEF TypeOK, Chains
    <3>3. /\ Readable(disk[chain.main])
          /\ chain.friend # None => Readable(disk[chain.friend])
      BY <1>1, <3>1, <3>2 DEF IInv, InputThere, DiskReadable
    <3>4. Readable(out') /\ out'.entries = 0 /\ Described(out', chain)
      BY <1>2, <1>8, <2>1, <2>2, <3>2, <3>3, CopiedMade
    <3>5. chain' = [NewChain(None, None, {"config", "header"}) EXCEPT
                     !.dead = chain.dead]
      BY <1>2, <1>8, <2>2
    <3>6. chain' \in Chains /\ chain'.main = None /\ chain'.friend = None
      BY <3>2, <3>5 DEF NewChain, Chains
    <3> QED
      BY <2>2, <3>4, <3>6
  <2>3. CASE man.mode # "kCopyTree"
    <3>1. /\ out' \in Outputs(NewOutput)
          /\ chain' = NewChain(None, None, {"config", "header"})
      BY <1>2, <1>8, <2>3
    <3>2. Readable(out') /\ out'.entries = 0 /\ Described(out', chain)
      BY <2>1, <3>1, CreatedMade
    <3> QED
      BY <3>1, <3>2 DEF NewChain, Chains
  <2> QED
    BY <2>2, <2>3
<1>9. chain' # None \/ stops
  BY <1>8, TaskManagerAssumption
<1>10. TypeOK'
  <2>1. out' \in {None} \cup File /\ chain' \in {None} \cup Chains
    BY <1>1, <1>2, <1>8 DEF Readable, TypeOK
  <2> QED
    BY <1>1, <1>3, <1>4, <1>5, <2>1 DEF TypeOK
<1>11. OutputWhole'
  <2>1. Readable(out)' <=> Readable(out')
    BY DEF Readable
  <2> QED
    BY <1>1, <1>2, <1>3, <1>4, <1>8, <2>1 DEF OutputWhole, Writing
<1>12. InputThere'
  BY <1>4, <1>8, <1>9 DEF InputThere
<1>13. ChainUsable'
  BY <1>4, <1>7, <1>8, <1>9 DEF ChainUsable
<1>14. DescribedStep
  BY <1>1, <1>2, <1>4, <1>8 DEF DescribedStep
<1> QED
  BY <1>1, <1>3, <1>4, <1>6, <1>10, <1>11, <1>12, <1>13, <1>14
     DEF IInv, BetweenSessions, LoopWithinBounds

\* Run starts a loop that fits.
LEMMA RunStep ==
  ASSUME IInv, NEW n \in -1 .. MaxEvents, Run(n)
  PROVE  IInv' /\ DescribedStep
<1>1. /\ Ready
      /\ Clamped(n) \in 1 .. MaxEvents
      /\ man.fill => events + Clamped(n) <= MaxEntries
      /\ run' = [n |-> Clamped(n), event |-> 0]
      /\ UNCHANGED <<man, tasks, chain, out, events, disk, sessions>>
  BY DEF Run
<1> DEFINE m == Clamped(n)
<1> HIDE DEF m
<1>2. m \in 1 .. MaxEvents /\ run' = [n |-> m, event |-> 0]
      /\ (man.fill => events + m <= MaxEntries)
  BY <1>1 DEF m
<1>3. /\ run'.n = m /\ run'.event = 0 /\ m \in Nat /\ m >= 1
      /\ run' \in [n : 1 .. MaxEvents, event : Nat]
      /\ events \in Nat /\ events + m - 0 = events + m
  BY <1>2, TaskManagerAssumption DEF IInv, TypeOK
<1>4. TypeOK'
  BY <1>1, <1>2, <1>3, TaskManagerAssumption DEF IInv, TypeOK
<1>5. LoopWithinBounds'
  BY <1>1, <1>2, <1>3 DEF LoopWithinBounds, Ready
<1> QED
  BY <1>1, <1>4, <1>5
     DEF IInv, DiskReadable, Readable, OutputWhole, Writing, BetweenSessions,
         InputThere, ChainUsable, DescribedStep, Ready

\* One event: the output and the count grow together when the manager fills.
LEMMA ExecStep ==
  ASSUME IInv, Exec
  PROVE  IInv' /\ DescribedStep
<1>1. /\ run # None
      /\ run' = NextEvent
      /\ UNCHANGED <<man, tasks, chain, disk, sessions>>
  BY DEF Exec
<1>2. /\ run \in [n : 1 .. MaxEvents, event : Nat] /\ run.event < run.n
      /\ man.init /\ ~man.failed
      /\ man.fill => events + run.n - run.event <= MaxEntries
      /\ events \in Nat
  BY <1>1, TaskManagerAssumption DEF IInv, LoopWithinBounds, TypeOK
<1>3. run' # None => /\ run'.n = run.n /\ run'.event = run.event + 1
                     /\ run'.event < run'.n
                     /\ run' \in [n : 1 .. MaxEvents, event : Nat]
  BY <1>1, <1>2, TaskManagerAssumption DEF NextEvent
<1>4. CASE man.fill
  <2>0. PICK good \in SUBSET tasks : \E k \in Fills(good) :
          /\ out.entries + k <= MaxEntries
          /\ out' = [out EXCEPT !.entries = @ + k]
          /\ events' = events + 1
    BY <1>4 DEF Exec
  <2>1. PICK k \in Fills(good) :
          /\ out.entries + k <= MaxEntries
          /\ out' = [out EXCEPT !.entries = @ + k]
          /\ events' = events + 1
    BY <2>0
  <2>2. k \in Nat /\ (man.update => k = 1)
    <3>1. IsFiniteSet(good) /\ Cardinality(good) \in Nat
      BY TaskManagerAssumption, FS_Subset, FS_CardinalityType DEF IInv, TypeOK
    <3> QED
      BY <3>1 DEF Fills
  <2>3. Readable(out) /\ (man.update => out.entries = events)
    BY <1>2, <1>4 DEF IInv, OutputWhole, Writing
  <2>4. /\ out' \in File /\ out'.tree = out.tree /\ out'.conf = out.conf
        /\ out'.entries = out.entries + k
    BY <2>1, <2>2, <2>3, TaskManagerAssumption DEF Readable, File
  <2>5. Readable(out)' /\ (man'.update => out'.entries = events')
    BY <1>1, <2>1, <2>2, <2>3, <2>4 DEF Readable
  <2>6. events' \in 0 .. MaxEntries
    BY <1>2, <1>4, <2>1, TaskManagerAssumption
  <2>7. TypeOK'
    BY <1>1, <1>2, <1>3, <2>4, <2>6, TaskManagerAssumption DEF IInv, TypeOK
  <2>8. LoopWithinBounds'
    BY <1>1, <1>2, <1>3, <1>4, <2>1, TaskManagerAssumption DEF LoopWithinBounds
  <2>9. DescribedStep
    <3>1. out # None
      BY <2>3, TaskManagerAssumption DEF Readable
    <3> QED
      BY <2>4, <3>1 DEF DescribedStep
  <2> QED
    BY <1>1, <1>2, <1>4, <2>5, <2>7, <2>8, <2>9
       DEF IInv, DiskReadable, Readable, OutputWhole, Writing, BetweenSessions,
           InputThere, ChainUsable
<1>5. CASE ~man.fill
  <2>1. UNCHANGED <<out, events>> /\ out = None
    BY <1>5 DEF Exec, IInv, OutputWhole, Writing
  <2>2. TypeOK'
    BY <1>1, <1>2, <1>3, <2>1, TaskManagerAssumption DEF IInv, TypeOK
  <2>3. LoopWithinBounds'
    BY <1>1, <1>2, <1>3, <1>5 DEF LoopWithinBounds
  <2> QED
    BY <1>1, <1>2, <1>5, <2>1, <2>2, <2>3
       DEF IInv, DiskReadable, Readable, OutputWhole, Writing, BetweenSessions,
           InputThere, ChainUsable, DescribedStep
<1> QED
  BY <1>4, <1>5

\* Finish closes the session: a file it leaves is the readable output.
LEMMA FinishStep ==
  ASSUME IInv, Finish
  PROVE  IInv' /\ DescribedStep
<1>1. TypeOK /\ man.init /\ ~man.failed /\ run = None /\ run' = None
  BY DEF IInv, Finish, Ready
<1>2. /\ ~man'.init /\ ~man'.fill /\ ~man'.failed /\ ~man'.read
      /\ man' \in [init : BOOLEAN, failed : BOOLEAN, fill : BOOLEAN,
                   read : BOOLEAN, update : BOOLEAN, mode : Modes,
                   exclude : SUBSET Names, file : Files]
  BY <1>1, TaskManagerAssumption DEF Finish, TypeOK
<1>3. out' = None /\ events' = 0 /\ UNCHANGED <<tasks, sessions>>
  BY DEF Finish
<1>4. /\ disk' \in [Files -> File \cup {None}]
      /\ chain' \in {None} \cup Chains
      /\ \A h \in Files : disk'[h] # None =>
           Readable(disk'[h])
      /\ \A h \in Files : disk[h] # None => disk'[h] # None
      /\ chain' # None /\ chain'.main = chain.main /\ chain'.friend = chain.friend
  <2>0. chain \in Chains
    BY <1>1 DEF IInv, TypeOK, InputThere
  <2>1. CASE man.fill
    <3>1. Readable(out)
      BY <1>1, <2>1 DEF IInv, OutputWhole, Writing
    <3>2. disk' = [disk EXCEPT ![man.file] = out]
          /\ chain' = [chain EXCEPT !.dead = @ \cup chain.shared]
      BY <2>1 DEF Finish
    <3>4. /\ chain' \in Chains /\ chain' # None
          /\ chain'.main = chain.main /\ chain'.friend = chain.friend
      BY <2>0, <3>2, TaskManagerAssumption DEF Chains
    <3>5. \A h \in Files : disk'[h] \in {disk[h], out}
      BY <1>1, <3>2 DEF TypeOK
    <3>6. \A h \in Files : disk[h] # None => Readable(disk[h])
      BY DEF IInv, DiskReadable
    <3>7. disk' \in [Files -> File \cup {None}]
      BY <1>1, <3>1, <3>2 DEF TypeOK, Readable
    <3>8. out # None
      BY <3>1, TaskManagerAssumption DEF Readable
    <3> QED
      BY <3>1, <3>4, <3>5, <3>6, <3>7, <3>8
  <2>2. CASE ~man.fill
    BY <1>1, <2>0, <2>2, TaskManagerAssumption
       DEF Finish, TypeOK, IInv, DiskReadable
  <2> QED
    BY <2>1, <2>2
<1>5. TypeOK'
  BY <1>1, <1>2, <1>3, <1>4, TaskManagerAssumption DEF TypeOK
<1>6. DiskReadable'
  BY <1>4 DEF DiskReadable, Readable
<1>7. InputThere'
  <2>1. chain # None => chain \in Chains
    BY <1>1 DEF TypeOK
  <2> QED
    BY <1>1, <1>2, <1>4, <2>1 DEF IInv, InputThere, Chains
<1> QED
  BY <1>1, <1>2, <1>3, <1>5, <1>6, <1>7
     DEF IInv, OutputWhole, Writing, BetweenSessions, LoopWithinBounds,
         ChainUsable, DescribedStep

\* A Finish that the deleted DataHeader stops leaves no output and no file.
LEMMA FinishStopsStep ==
  ASSUME IInv, FinishStops
  PROVE  IInv' /\ DescribedStep
<1>1. /\ TypeOK /\ man.init /\ run = None
      /\ man'.init /\ man'.failed /\ man'.read = man.read
      /\ man'.mode = man.mode
      /\ man' \in [init : BOOLEAN, failed : BOOLEAN, fill : BOOLEAN,
                   read : BOOLEAN, update : BOOLEAN, mode : Modes,
                   exclude : SUBSET Names, file : Files]
      /\ out' = None
      /\ UNCHANGED <<tasks, chain, run, events, disk, sessions>>
  BY DEF FinishStops, Ready, IInv, TypeOK
<1> QED
  BY <1>1
     DEF IInv, TypeOK, DiskReadable, Readable, OutputWhole, Writing, InputThere,
         BetweenSessions, LoopWithinBounds, ChainUsable, DescribedStep

LEMMA NextInvariant == IInv /\ [Next]_vars => IInv' /\ [DescribedStep]_vars
<1> SUFFICES ASSUME IInv, [Next]_vars PROVE IInv' /\ [DescribedStep]_vars
  OBVIOUS
<1>1. CASE UNCHANGED vars
  BY <1>1 DEF vars, IInv, TypeOK, DiskReadable, Readable, OutputWhole, Writing,
     BetweenSessions, LoopWithinBounds, InputThere, ChainUsable
<1>2. ASSUME NEW f \in Files, NEW g \in Files \cup {None}, InitRead(f, g)
      PROVE  IInv' /\ DescribedStep
  BY <1>2, InitReadStep
<1>3. ASSUME NEW n \in -1 .. MaxEvents, Run(n) PROVE IInv' /\ DescribedStep
  BY <1>3, RunStep
<1> QED
  BY <1>1, <1>2, <1>3, OptionsStep, InitCreateStep, ExecStep, FinishStep,
     FinishStopsStep, Zenon
     DEF Next

THEOREM InductiveInvariant == Spec => []IInv
<1>1. IInv /\ [Next]_vars => IInv'
  BY NextInvariant
<1> QED
  BY <1>1, InitInvariant, PTL DEF Spec

(***************************************************************************)
(* The properties of the runs                                              *)
(***************************************************************************)
\* Type correctness: a session's flags, its loop, its chain and every file.
THEOREM TypeCorrect == Spec => []TypeOK
<1>1. IInv => TypeOK
  BY DEF IInv
<1> QED
  BY <1>1, InductiveInvariant, PTL

\* Whatever the tasks add, the copy excludes and the friends contribute, the
\* next session can open every file an earlier one left.
THEOREM FilesStayReadable == Spec => []FilesReadable
<1>1. IInv => FilesReadable
  BY DEF IInv, DiskReadable, FilesReadable, Readable
<1> QED
  BY <1>1, InductiveInvariant, PTL

\* An output's tree and Configuration agree when it is made, from the input
\* given to Init or from what chain_ still has, and stay as they are.
THEOREM OutputStaysDescribed == Spec => OutputDescribed
<1>1. IInv /\ [Next]_vars => [DescribedStep]_vars
  BY NextInvariant
<1> QED
  BY <1>1, InductiveInvariant, PTL DEF Spec, OutputDescribed

\* One entry for each event, over every Run of the session.
THEOREM EntriesStayCounted == Spec => []EntriesCounted
<1>1. IInv => EntriesCounted
  BY DEF IInv, OutputWhole, EntriesCounted
<1> QED
  BY <1>1, InductiveInvariant, PTL

\* A session with input, in any mode, or one that creates a new tree never sees
\* an object that the Finish of an earlier session deleted.
THEOREM ChainStaysUsable == Spec => []ChainUsable
<1>1. IInv => ChainUsable
  BY DEF IInv
<1> QED
  BY <1>1, InductiveInvariant, PTL
=============================================================================
