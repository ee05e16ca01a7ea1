----------------------- MODULE GenericContainerFiller -----------------------
(***************************************************************************)
(* GenericContainerFiller (infra/GenericContainerFiller.hpp, .cpp): turns  *)
(* the rows of a flat tree into channels of one branch and groups          *)
(* consecutive rows into entries, a new entry starting when the trigger    *)
(* variable changes or after n rows.  A row is its number; of its leaves   *)
(* only the trigger variable matters.  The values of a leaf are counted in *)
(* halves, so that a float leaf has values that are not integers.          *)
(***************************************************************************)
EXTENDS Integers, SequencesExt

CONSTANTS
  Leaves,     \* the leaf types the trigger variable may have
  Values(_),  \* Values(l): its values, in halves, for a leaf of type l
  Counts,     \* the arguments of SetNChannelsPerEntry
  Limits,     \* the arguments of Run
  MaxRows,    \* bound on the rows of the input
  MaxRuns     \* bound on the calls of Run on one object

ASSUME FillerAssumption ==
  /\ Leaves \subseteq {"TLeafF", "TLeafI", "TLeafB", "TLeafS"}
  /\ \A l \in Leaves : /\ Values(l) \subseteq Int
                       /\ l # "TLeafF" => \A v \in Values(l) : v % 2 = 0
  /\ Counts \subseteq Int /\ Limits \subseteq Int
  /\ MaxRows \in Nat /\ MaxRuns \in Nat

VARIABLES
  leaf,        \* type of the trigger variable's leaf
  rows,        \* the input: the trigger variable's value in each row
  trigger,     \* entry_switch_trigger_var_name_ is set
  n,           \* n_channels_per_entry_, negative when not set
  phase,       \* "idle", "running", "done", "thrown" or "trapped"
  runs,        \* the calls of Run so far
  nRun,        \* nRunEntries of the current or last run
  iEntry,      \* the rows done in it
  previous,    \* previousTriggerVar
  slot,        \* value in the first element of branch_values_ named as the
               \* trigger
  channels,    \* rows in generic_detector_
  written      \* entries of tree_out_

vars == <<leaf, rows, trigger, n, phase, runs, nRun, iEntry, previous, slot,
          channels, written>>

input == <<leaf, rows>>
options == <<trigger, n>>

\* The value of a FICS member nobody wrote: -199, which as a char is 57.
Unwritten(l) == IF l = "TLeafB" THEN 2 * 57 ELSE 2 * (-199)

Init ==
  /\ leaf \in Leaves
  /\ rows \in BoundedSeq(Values(leaf), MaxRows)
  /\ trigger = FALSE /\ n = -1
  /\ phase = "idle" /\ runs = 0
  /\ nRun = 0 /\ iEntry = 0 /\ previous = -799
  /\ slot = Unwritten(leaf)
  /\ channels = <<>> /\ written = <<>>

(***************************************************************************)
(* The value the trigger is compared by: FICS::get returns the first       *)
(* member that differs from its initial value as a float, and throws when  *)
(* none does; Exec stores it in an int.                                    *)
(***************************************************************************)
\* Nearest float of an integer below 2^25: beyond 2^24 odd ones are halfway.
NearestFloat(i) ==
  IF (-2^24 <= i /\ i <= 2^24) \/ i % 2 = 0 THEN i
  ELSE IF (i + 1) % 4 = 0 THEN i + 1 ELSE i - 1

Truncated(v) == IF v >= 0 THEN v \div 2 ELSE -((-v) \div 2)

GetThrows(v) == v = Unwritten(leaf)

AsInt(v) == IF v % 2 = 0 THEN NearestFloat(v \div 2) ELSE Truncated(v)

(***************************************************************************)
(* The steps                                                               *)
(***************************************************************************)
\* SetEntrySwitchTriggerVarName and SetNChannelsPerEntry.
SetOptions(t, k) ==
  /\ phase \in {"idle", "done"} /\ phase' = "idle"
  /\ trigger' = t /\ n' = k
  /\ UNCHANGED <<input, runs, nRun, iEntry, previous, slot, channels, written>>

\* Run up to its loop.  Init appends the leaves to branch_map_ once more, and
\* DetermineFieldIdByName returns the first element of the trigger's name.
\* Mutant of StartRun: the limit is not compared with the rows there are.
StartRunUnclamped(limit) ==
  /\ phase \in {"idle", "done"} /\ runs < MaxRuns
  /\ phase' = "running" /\ runs' = runs + 1
  /\ nRun' = IF limit < 0 THEN Len(rows) ELSE limit
  /\ iEntry' = 0 /\ previous' = -799
  /\ channels' = <<>> /\ written' = <<>>
  /\ UNCHANGED <<input, options, slot>>

StartRun(limit) ==
  /\ phase \in {"idle", "done"} /\ runs < MaxRuns
  /\ phase' = "running" /\ runs' = runs + 1
  /\ nRun' = IF limit < 0 \/ limit > Len(rows) THEN Len(rows) ELSE limit
  /\ iEntry' = 0 /\ previous' = -799
  /\ channels' = <<>> /\ written' = <<>>
  /\ UNCHANGED <<input, options, slot>>

\* GetEntry writes to the last element of branch_values_ with a leaf's name.
SlotRead == IF runs = 1 THEN rows[iEntry + 1] ELSE slot

Current == IF trigger THEN AsInt(SlotRead) ELSE previous

\* n = 0 divides by zero unless an earlier alternative already decides.
DividesByZero == iEntry # 0 /\ Current = previous /\ n = 0

\* Mutant of IsNewATEntry: counts the row to come, too.
IsNewATEntryOneEarly ==
  \/ iEntry = 0
  \/ Current # previous
  \/ n >= 0 /\ (iEntry + 1) % n = 0

\* Mutant of IsNewATEntry: the trigger is taken to grow (and a count of 0 to
\* mean none).
IsNewATEntryWhenGreater ==
  \/ iEntry = 0
  \/ Current > previous
  \/ n > 0 /\ iEntry % n = 0

IsNewATEntry ==
  \/ iEntry = 0
  \/ Current # previous
  \/ n >= 0 /\ iEntry % n = 0

Exec ==
  /\ phase = "running" /\ iEntry < nRun
  /\ slot' = SlotRead
  /\ IF trigger /\ GetThrows(SlotRead)
     THEN phase' = "thrown" /\ UNCHANGED <<iEntry, previous, channels, written>>
     ELSE IF DividesByZero
     THEN phase' = "trapped" /\ UNCHANGED <<iEntry, previous, channels, written>>
     ELSE /\ written' = IF IsNewATEntry /\ iEntry # 0
                        THEN Append(written, channels) ELSE written
          /\ channels' = IF IsNewATEntry THEN <<iEntry + 1>>
                         ELSE Append(channels, iEntry + 1)
          /\ previous' = Current
          /\ iEntry' = iEntry + 1
          /\ UNCHANGED phase
  /\ UNCHANGED <<input, options, runs, nRun>>

\* Run after its loop: the last Fill, Finish.
\* Mutant of EndRun: the last Fill is forgotten.
EndRunNoFill ==
  /\ phase = "running" /\ iEntry = nRun
  /\ phase' = "done"
  /\ UNCHANGED <<input, options, runs, nRun, iEntry, previous, slot, channels,
                 written>>

\* Mutant of EndRun: waits for a channel to write.
EndRunIfChannels ==
  /\ phase = "running" /\ iEntry = nRun /\ channels # <<>>
  /\ written' = Append(written, channels)
  /\ phase' = "done"
  /\ UNCHANGED <<input, options, runs, nRun, iEntry, previous, slot, channels>>

EndRun ==
  /\ phase = "running" /\ iEntry = nRun
  /\ written' = Append(written, channels)
  /\ phase' = "done"
  /\ UNCHANGED <<input, options, runs, nRun, iEntry, previous, slot, channels>>

Next ==
  \/ \E t \in BOOLEAN, k \in Counts : SetOptions(t, k)
  \/ \E limit \in Limits : StartRun(limit)
  \/ Exec
  \/ EndRun

\* The loop of Run is one thread that nothing blocks.
Spec == Init /\ [][Next]_vars /\ WF_vars(Exec) /\ WF_vars(EndRun)

(***************************************************************************)
(* Properties                                                              *)
(***************************************************************************)
\* The members have their types; no run does more rows than the input has.
TypeOK ==
  /\ phase \in {"idle", "running", "done", "thrown", "trapped"}
  /\ trigger \in BOOLEAN /\ n \in Counts \cup {-1}
  /\ runs \in 0 .. MaxRuns /\ nRun \in 0 .. Len(rows) /\ iEntry \in 0 .. nRun
  /\ previous \in Int /\ slot \in Int
  /\ channels \in Seq(1 .. MaxRows) /\ written \in Seq(Seq(1 .. MaxRows))

Done == phase = "done"

\* The first row of each written entry but the first: where the output splits.
Splits == {written[k][1] : k \in 2 .. Len(written)}

Changes == {r \in 2 .. nRun : rows[r] # rows[r - 1]}

IntChanges == {r \in 2 .. nRun : AsInt(rows[r]) # AsInt(rows[r - 1])}

\* No row is lost, repeated or moved, whatever ends an entry: the entries
\* written and the channels not yet written are the rows read, in order.
RowsKept ==
  LET all == FlattenSeq(written)
  IN IF phase = "running"
     THEN all \o channels = [r \in 1 .. iEntry |-> r]
     ELSE Done => all = [r \in 1 .. nRun |-> r]

\* Without a trigger, every entry has n channels and the last at most n, and
\* none is empty, except the one entry that is written for an input of no rows.
FullEntries ==
  Done /\ nRun > 0 /\ ~trigger /\ n > 0 =>
    /\ \A k \in 1 .. Len(written) - 1 : Len(written[k]) = n
    /\ Len(Last(written)) \in 1 .. n

\* With a trigger, the first run of a filler ends an entry wherever the integer
\* value of the trigger changes, up or down, and nowhere without a reason: at a
\* change of the value, or after a multiple of n rows when n was set as well.
SplitsFollowTrigger ==
  Done /\ runs = 1 /\ trigger =>
    /\ IntChanges \subseteq Splits
    /\ \A r \in Splits : \/ rows[r] # rows[r - 1]
                         \/ n > 0 /\ (r - 1) % n = 0

\* infra/GenericContainerFiller.hpp:85 says of the trigger "variable, change of
\* value of which triggers switch to a new AT event", and line 90 of the number
\* of channels "if entry_switch_trigger_var_name_ is not empty, this field does
\* not matter": each change ends an entry, and nothing else does.  Said here is
\* the least that follows, that no run breaks both rules.
DocumentedTrigger ==
  Done /\ runs = 1 /\ trigger =>
    Changes \subseteq Splits \/ Splits \subseteq Changes

\* A run that is not stopped by an exception writes its last entry: the loop
\* ends for every input and every setting.
RunEnds == phase = "running" ~> phase # "running"
=============================================================================
