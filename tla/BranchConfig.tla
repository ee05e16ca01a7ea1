---------------------------- MODULE BranchConfig ----------------------------
(***************************************************************************)
(* The life of the BranchConfig objects of a program: construction, adding *)
(* and removing fields, Clone and CloneAndMerge, each call with the        *)
(* exception it may throw.                                                 *)
(***************************************************************************)
EXTENDS BranchConfigOps, Functions

CONSTANTS
  Handles,     \* the C++ variables that may hold a BranchConfig
  NoConfig,    \* a handle whose object does not exist
  UserNames,   \* the field names callers pass
  CallerIds,   \* the ids callers pass to AddField(name, id, title)
  MaxSlots     \* bound on the slots of all objects together, one whose id
               \* a caller chose counting for two more

ASSUME HandlesAssumption ==
  /\ NoConfig \notin Config /\ NoConfig \notin Names
  /\ NoConfig \notin [Types -> Seq(Names \cup {NoConfig})]
  /\ UserNames \subseteq Names
  /\ CallerIds \subseteq Nat

VARIABLES
  cfg,      \* the object each handle holds
  chosen    \* the handles whose object holds an id its caller chose

vars == <<cfg, chosen>>

Live == {h \in Handles : cfg[h] # NoConfig}

\* Each handle holds a BranchConfig (integer ids, sizes of 0 or more) or none.
TypeOK ==
  /\ cfg \in [Handles -> Config \cup {NoConfig}]
  /\ chosen \in SUBSET Handles

Init ==
  /\ cfg = [h \in Handles |-> NoConfig]
  /\ chosen = {}

Slots(c) ==
  IF c = NoConfig THEN 0 ELSE c.size["float"] + c.size["int"] + c.size["bool"]

Bounded ==
  FoldFunction(+, 2 * Cardinality(chosen), [h \in Handles |-> Slots(cfg[h])])
    <= MaxSlots

\* The call returns and leaves c in handle h.  A call that throws leaves every
\* object as it was (a step that changes nothing), except RemoveFields.
Returns(h, c, callerChose) ==
  /\ cfg' = [cfg EXCEPT ![h] = c]
  /\ chosen' = IF callerChose THEN chosen \cup {h} ELSE chosen \ {h}
  /\ Bounded'

Construct(h, b, d) ==
  /\ h \notin Live
  /\ Returns(h, NewConfig(b, d), FALSE)

Destroy(h) ==
  /\ h \in Live
  /\ cfg' = [cfg EXCEPT ![h] = NoConfig]
  /\ chosen' = chosen \ {h}

AddAField(h, t, n) ==
  /\ h \in Live /\ ~HasField(cfg[h], n)
  /\ Returns(h, AddField(cfg[h], t, n), h \in chosen)

AddTwoFields(h, t, ns) ==
  /\ h \in Live /\ AddFieldsOk(cfg[h], ns)
  /\ Returns(h, AddFields(cfg[h], t, ns), h \in chosen)

AddAFieldWithId(h, t, n, i) ==
  /\ h \in Live /\ ~HasField(cfg[h], n)
  /\ Returns(h, AddFieldWithId(cfg[h], t, n, i), TRUE)

RemoveOne(h, n) ==
  /\ h \in Live /\ RemoveFieldOk(cfg[h], n)
  /\ Returns(h, RemoveField(cfg[h], n), h \in chosen)

\* RemoveFields({n, m}) throws at the first name it cannot remove: the fields
\* before it are gone then.
RemoveTwo(h, n, m) ==
  /\ h \in Live /\ RemoveFieldOk(cfg[h], n)
  /\ LET once == RemoveField(cfg[h], n)
     IN Returns(h, IF RemoveFieldOk(once, m) THEN RemoveField(once, m) ELSE once,
                h \in chosen)

\* The result initialises a new variable, or replaces the object it was made
\* from (assigning it to a third one is destroying that first).
CloneInto(h, k, b, d) ==
  /\ h \in Live /\ k \notin Live \ {h} /\ CloneOk(cfg[h], d)
  /\ Returns(k, Clone(cfg[h], b, d), h \in chosen)

\* The merged branch is named name1_name2, abstracted to any branch name.  The
\* names a merge produces must be among Names (a bound on repeated merging).
MergeInto(g, h, k, b) ==
  /\ {g, h} \subseteq Live /\ k \notin Live \ {g}
  /\ "matching_case" \in Names
  /\ \A t \in Types : \A n \in Fields(cfg[h], t) :
       Prefixed(cfg[h].name, n) \in Names
  /\ MergeOk(cfg[g], cfg[h])
  /\ Returns(k, CloneAndMerge(cfg[g], cfg[h], b), g \in chosen)

Next ==
  \E h \in Handles :
    \/ Destroy(h)
    \/ \E b \in BranchNames, d \in DetTypes : Construct(h, b, d)
    \/ \E t \in Types, n \in UserNames : AddAField(h, t, n)
    \/ \E t \in Types, n, m \in UserNames : AddTwoFields(h, t, <<n, m>>)
    \/ \E t \in Types, n \in UserNames, i \in CallerIds :
         AddAFieldWithId(h, t, n, i)
    \/ \E n \in UserNames : RemoveOne(h, n)
    \/ \E n, m \in UserNames : RemoveTwo(h, n, m)
    \/ \E k \in Handles, b \in BranchNames, d \in DetTypes :
         CloneInto(h, k, b, d)
    \/ \E g, k \in Handles, b \in BranchNames : MergeInto(g, h, k, b)

Spec == Init /\ [][Next]_vars

(***************************************************************************)
(* Properties                                                              *)
(***************************************************************************)
DistinctIds(c) ==
  \A t \in Types : \A m, n \in Fields(c, t) :
    c.id[t][m] = c.id[t][n] => m = n

HasSlots(c) ==
  \A t \in Types : \A n \in UserFields(c, t) : c.id[t][n] < c.size[t]

OneTypePerName(c) ==
  \A n \in Names : \A t, u \in Types : Has(c, t, n) /\ Has(c, u, n) => t = u

KeepsDefaults(c) ==
  \A t \in Types, n \in Names :
    IF DefaultId(c.type, t, n) # Undef
    THEN c.id[t][n] = DefaultId(c.type, t, n)
    ELSE Has(c, t, n) => c.id[t][n] >= 0

\* Within an elementary type no two fields of a branch share an id, whatever
\* fields were added, removed, cloned or merged before: a shared id would make
\* two names read and write the same slot of every Container.
FieldIdsUnique == \A h \in Live \ chosen : DistinctIds(cfg[h])

\* Every user field has a slot: Container(config) reserves size_ slots for
\* each elementary type, so an id at or above size_ makes GetField and SetField
\* throw out_of_range on every channel.
SlotsReserved == \A h \in Live \ chosen : HasSlots(cfg[h])

\* A name is a field of one elementary type only; otherwise the order int,
\* float, bool of the searches in GetFieldType and GetFieldId hides a field
\* that is stored and hashed.
OneElementaryType == \A h \in Live : OneTypePerName(cfg[h])

\* The default fields of the branch's own type keep their negative ids, and
\* every other field has an id of 0 or more: getters and setters dispatch on
\* the sign, so a shifted default id would read another default field.
DefaultFieldsKept == \A h \in Live : KeepsDefaults(cfg[h])

\* The rows of slots the ids describe.
RowsOf(c) ==
  [t \in Types |-> [i \in 1 .. c.size[t] |->
     IF \E n \in Names : c.id[t][n] = i - 1
     THEN CHOOSE n \in Names : c.id[t][n] = i - 1 ELSE NoConfig]]

LayoutRows ==
  [h \in Handles |-> IF h \in Live \ chosen THEN RowsOf(cfg[h]) ELSE NoConfig]

Layout == INSTANCE RecordLayout WITH Free <- NoConfig, rows <- LayoutRows

\* The ids implement the rows of slots of RecordLayout, for the objects whose
\* ids the class chose itself.
ImplementsLayout == Layout!RSpec
=============================================================================
