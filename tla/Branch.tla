------------------------------- MODULE Branch -------------------------------
(***************************************************************************)
(* Branch and BranchChannel (infra/Branch.cpp, BranchChannel.cpp) over the *)
(* records they read and write (core/Container.hpp, Detector.hpp, Module,  *)
(* EventHeader).  A Branch couples a BranchConfig with its records, the    *)
(* flags is_mutable_ and is_frozen_, the hash of the config and the cache  *)
(* of field mappings from other branches.  Calls that throw before they    *)
(* change anything are not steps.                                          *)
(***************************************************************************)
EXTENDS BranchConfigOps

CONSTANTS
  Branches,      \* the C++ variables that may hold a Branch
  NoBranch,      \* ... and do not
  NoMapping,     \* no mapping cached
  NewFields,     \* the fields tasks declare, <<name, type>>
  Values,        \* field values, in halves: 2 is 1.0
  MutableArgs,   \* the arguments tasks pass to SetMutable
  Inputs,        \* the values tasks pass to SetValue
  Flows,         \* the pairs <<target, source>> tasks copy between
  Prefixes,      \* the prefixes tasks pass to CopyContent, "" for none
  MaxRecords,    \* bound on the records of a branch
  MaxFields      \* bound on the user fields of all branches together

ASSUME BranchAssumption ==
  /\ Inputs \subseteq Values /\ Values \subseteq Nat /\ 0 \in Values
  /\ NewFields \subseteq Names \X Types
  /\ Flows \subseteq Branches \X Branches
  /\ MutableArgs \subseteq BOOLEAN
  /\ MaxRecords \in Nat /\ MaxFields \in Nat

VARIABLES
  br,        \* the Branch in each variable
  late,      \* fields the branch's records may have come too early for
  reopened,  \* branches Freeze(false) was called on
  mixed      \* branches with slots of another branch's fields in a record

vars == <<br, late, reopened, mixed>>

Live == {b \in Branches : br[b] # NoBranch}

(***************************************************************************)
(* Records.  User fields live in slots; default fields are members of the  *)
(* record's class, kept here under their (negative) id.  A derived default *)
(* field has no member: its setter does nothing and its getter computes.   *)
(***************************************************************************)
Derived == {"id", "phi", "pT", "eta", "p", "rapidity", "E", "T"}

\* A member is one field's: the default ids of a type differ.
ASSUME MembersAssumption ==
  \A d \in DetTypes : \A t, u \in Types : \A m, n \in Names :
    DefaultId(d, t, m) = DefaultId(d, u, n) /\ DefaultId(d, t, m) # Undef =>
      t = u /\ m = n

\* What nobody has written yet: 0 in a slot, and whatever its class starts a
\* member with.
Blank == 0

\* What a field of type t keeps of a double: int truncates, bool is 0 or 1.
Convert(t, v) ==
  CASE t = "float" -> v
    [] t = "int"   -> 2 * (v \div 2)
    [] t = "bool"  -> IF v = 0 THEN 0 ELSE 2

\* The values are closed under these conversions.
ASSUME ValuesAssumption ==
  \A t \in Types, v \in Values : Convert(t, v) \in Values

MemberIds(d) ==
  {DefaultId(d, t, n) : t \in Types, n \in Names \ Derived} \ {Undef}

Members(d) == [i \in MemberIds(d) |-> Blank]

\* Container::Init: the slots that exist keep their values.
Resized(slots, size) ==
  [t \in Types |-> [k \in 1 .. size[t] |->
                      IF k <= Len(slots[t]) THEN slots[t][k] ELSE Blank]]

WithSlots(r, size) == [r EXCEPT !.slots = Resized(@, size)]

NewRecord(c) ==
  [slots   |-> Resized([t \in Types |-> <<>>], c.size),
   members |-> Members(c.type)]

FieldOf(c, n) ==
  [name |-> n, type |-> GetFieldType(c, n), id |-> GetFieldId(c, n)]

\* Container::GetField and SetField throw out_of_range without the slot.
Holds(r, f) == f.id >= 0 => f.id < Len(r.slots[f.type])

Value(r, f) ==
  IF f.id >= 0 THEN r.slots[f.type][f.id + 1]
  ELSE IF f.id \in DOMAIN r.members THEN r.members[f.id] ELSE Blank

\* Mutant of Written: the values are stored as they come.
WrittenUnconverted(r, fs, v) ==
  [r EXCEPT !.slots = [t \in Types |-> [k \in DOMAIN r.slots[t] |->
     IF \E f \in fs : f.type = t /\ f.id = k - 1
     THEN v[CHOOSE f \in fs : f.type = t /\ f.id = k - 1]
     ELSE r.slots[t][k]]]]

TypeRank == [float |-> 0, int |-> 1, bool |-> 2]

\* Mutant of Written: the cases of the switch over the types fall through.
WrittenFallsThrough(r, fs, v) ==
  LET at(t, k) == {f \in fs : f.id = k - 1 /\ TypeRank[f.type] <= TypeRank[t]}
  IN [r EXCEPT !.slots = [t \in Types |-> [k \in DOMAIN r.slots[t] |->
        IF at(t, k) # {} THEN Convert(t, v[CHOOSE f \in at(t, k) : TRUE])
        ELSE r.slots[t][k]]]]

\* Each field f of fs gets v[f].
Written(r, fs, v) ==
  [slots |-> [t \in Types |-> [k \in DOMAIN r.slots[t] |->
     IF \E f \in fs : f.type = t /\ f.id = k - 1
     THEN Convert(t, v[CHOOSE f \in fs : f.type = t /\ f.id = k - 1])
     ELSE r.slots[t][k]]],
   members |-> [i \in DOMAIN r.members |->
     IF \E f \in fs : f.id = i
     THEN LET f == CHOOSE f \in fs : f.id = i IN Convert(f.type, v[f])
     ELSE r.members[i]]]

(***************************************************************************)
(* The mapping from the fields of a source config to those of a target.    *)
(***************************************************************************)
NoPrefix == ""

Target(p, n) == IF p = NoPrefix THEN n ELSE Prefixed(p, n)

\* Mutant of Pairs: the source field is looked up in the target's config.
PairsOneConfig(s, d, p) ==
  {<<FieldOf(d, n), FieldOf(d, Target(p, n))>> :
     n \in {m \in Names : /\ HasField(s, m) /\ HasField(d, m)
                          /\ Target(p, m) \in Names
                          /\ HasField(d, Target(p, m))}}

Pairs(s, d, p) ==
  {<<FieldOf(s, n), FieldOf(d, Target(p, n))>> :
     n \in {m \in Names : /\ HasField(s, m)
                          /\ Target(p, m) \in Names
                          /\ HasField(d, Target(p, m))}}

\* The order of GetFieldNames: float, int, bool, by name within a type.
Before(f, g) ==
  \/ TypeRank[f.type] < TypeRank[g.type]
  \/ f.type = g.type /\ Rank[f.name] < Rank[g.name]

\* The loop of CopyContent ends with an exception at the first pair one of
\* the records has no slot for.
CopiedPairs(r, q, pairs) ==
  {p \in pairs : \A o \in pairs :
     o = p \/ Before(o[1], p[1]) => Holds(q, o[1]) /\ Holds(r, o[2])}

Copied(r, q, pairs) ==
  LET done == CopiedPairs(r, q, pairs)
      targets == {p[2] : p \in done}
  IN Written(r, targets,
       [f \in targets |-> Value(q, (CHOOSE p \in done : p[2] = f)[1])])

(***************************************************************************)
(* Branches                                                                *)
(***************************************************************************)
\* BranchConfigHasher covers the type and the ids of all fields, not size_
\* (collisions are left out).
HashOf(c) == [type |-> c.type, id |-> c.id]

IsHeader(c) == c.type = "kEventHeader"

\* Branch(config, data) with k records in data; an EventHeader is one record.
NewBranch(c, k) ==
  [config   |-> c,
   mutable  |-> FALSE,
   frozen   |-> FALSE,
   hash     |-> HashOf(c),
   records  |-> [i \in 1 .. IF IsHeader(c) THEN 1 ELSE k |-> NewRecord(c)],
   mapping  |-> [s \in Branches |-> NoMapping]]

\* Mutant of Extended: the hash is not updated.
ExtendedOldHash(b, c) ==
  [b EXCEPT !.config = c,
            !.records =
              IF IsHeader(c) THEN <<WithSlots(@[1], c.size)>> ELSE @]

\* The config gets new fields: the hash follows, and an EventHeader its slots.
Extended(b, c) ==
  [b EXCEPT !.config = c,
            !.hash = HashOf(c),
            !.records =
              IF IsHeader(c) THEN <<WithSlots(@[1], c.size)>> ELSE @]

Field == [name : Names, type : Types, id : Int]

Slots == [Types -> Seq(Values)]

Record(d) == [slots : Slots, members : [MemberIds(d) -> Values]]

AnyRecord ==
  [slots   : Slots,
   members : UNION {[MemberIds(d) -> Values] : d \in DetTypes}]

Branch ==
  [config  : Config,
   mutable : BOOLEAN,
   frozen  : BOOLEAN,
   hash    : [type : DetTypes, id : [Types -> [Names -> Int]]],
   records : Seq(AnyRecord),
   mapping : [Branches -> (SUBSET (Field \X Field)) \cup {NoMapping}]]

ASSUME NoBranchAssumption == NoBranch \notin Branch

\* Every stored value is one its elementary type can hold, a record has the
\* members of its branch's type, and an EventHeader is always one record.
TypeOK ==
  /\ br \in [Branches -> Branch \cup {NoBranch}]
  /\ late \in [Branches -> SUBSET Names]
  /\ reopened \in SUBSET Branches
  /\ mixed \in SUBSET Branches
  /\ \A b \in Live :
       /\ IsHeader(br[b].config) => Len(br[b].records) = 1
       /\ \A i \in DOMAIN br[b].records :
            LET r == br[b].records[i]
            IN /\ r \in Record(br[b].config.type)
               /\ \A t \in Types : \A k \in DOMAIN r.slots[t] :
                    Convert(t, r.slots[t][k]) = r.slots[t][k]

Init ==
  /\ br = [b \in Branches |-> NoBranch]
  /\ late = [b \in Branches |-> {}]
  /\ reopened = {}
  /\ mixed = {}

\* A Branch is made from a fresh config or from a clone of another branch's.
Construct(b, c, k) ==
  /\ b \notin Live
  /\ br' = [br EXCEPT ![b] = NewBranch(c, k)]
  /\ UNCHANGED <<late, reopened, mixed>>

\* A branch goes out of scope, or is about to be assigned a new one: its
\* address stays, and with it the cache entries of others, so tasks assign in
\* Init, before anything was mapped from the old one.
Destroy(b) ==
  /\ \A d \in Live \ {b} : br[d].mapping[b] = NoMapping
  /\ br' = [br EXCEPT ![b] = NoBranch]
  /\ late' = [late EXCEPT ![b] = {}]
  /\ reopened' = reopened \ {b}
  /\ mixed' = mixed \ {b}

SetMutable(b, is) ==
  /\ br' = [br EXCEPT ![b].mutable = is]
  /\ UNCHANGED <<late, reopened, mixed>>

Freeze(b, is) ==
  /\ br' = [br EXCEPT ![b].frozen = is]
  /\ reopened' = IF br[b].frozen /\ ~is THEN reopened \cup {b} ELSE reopened
  /\ UNCHANGED <<late, mixed>>

MayDeclare(b) == br[b].mutable /\ ~br[b].frozen

\* The new fields of c are late when records exist that do not get their slots.
Declares(b, c, ns) ==
  /\ br' = [br EXCEPT ![b] = Extended(@, c)]
  /\ late' = IF br[b].records = <<>> \/ IsHeader(c) THEN late
             ELSE [late EXCEPT ![b] = @ \cup ns]
  /\ UNCHANGED <<reopened, mixed>>

NewVariable(b, n, t) ==
  /\ ~HasField(br[b].config, n)
  /\ MayDeclare(b)
  /\ Declares(b, AddField(br[b].config, t, n), {n})

\* New fields of each type, added in the order of their names.
WithFields(c, new) ==
  [c EXCEPT
     !.id = [t \in Types |-> [n \in Names |->
               IF n \in new[t]
               THEN c.size[t] + Cardinality({m \in new[t] : Rank[m] < Rank[n]})
               ELSE c.id[t][n]]],
     !.size = [t \in Types |-> c.size[t] + Cardinality(new[t])]]

\* The fields of another config whose names are free, as NewVariable adds them.
Missing(c, o, t) == {n \in Fields(o, t) : ~HasField(c, n)}

WithFieldsOf(c, o) == WithFields(c, [t \in Types |-> Missing(c, o, t)])

CloneVariables(b, s) ==
  LET c == br[b].config
      new == UNION {Missing(c, br[s].config, t) : t \in Types}
  IN /\ new # {} /\ MayDeclare(b)
     /\ Declares(b, WithFieldsOf(c, br[s].config), new)

\* NewChannel freezes the branch; an EventHeader has no AddChannel and throws.
NewChannel(b) ==
  /\ br[b].mutable /\ ~IsHeader(br[b].config)
  /\ br' = [br EXCEPT ![b].records = Append(@, NewRecord(br[b].config)),
                      ![b].frozen = TRUE]
  /\ UNCHANGED <<late, reopened, mixed>>

ClearChannels(b) ==
  /\ br[b].mutable /\ ~IsHeader(br[b].config)
  /\ br' = [br EXCEPT ![b].records = <<>>]
  /\ late' = [late EXCEPT ![b] = {}]
  /\ mixed' = mixed \ {b}
  /\ UNCHANGED reopened

\* SetValue checks neither flag.
SetValue(b, i, n, v) ==
  LET f == FieldOf(br[b].config, n)
  IN /\ HasField(br[b].config, n) /\ Holds(br[b].records[i], f)
     /\ br' = [br EXCEPT ![b].records[i] = Written(@, {f}, [g \in {f} |-> v])]
     /\ UNCHANGED <<late, reopened, mixed>>

\* Mutant of MayMap: the source need not be frozen.
MayMapOpenSource(d, s) == br[d].mapping[s] # NoMapping \/ br[d].frozen

\* A cached mapping is used whatever the prefix; a new one needs both frozen.
MayMap(d, s) ==
  br[d].mapping[s] # NoMapping \/ (br[d].frozen /\ br[s].frozen)

MappingOf(d, s, p) ==
  IF br[d].mapping[s] # NoMapping THEN br[d].mapping[s]
  ELSE Pairs(br[s].config, br[d].config, p)

CreateMapping(d, s, p) ==
  /\ MayMap(d, s)
  /\ br' = [br EXCEPT ![d].mapping[s] = MappingOf(d, s, p)]
  /\ UNCHANGED <<late, reopened, mixed>>

CopyContent(d, i, s, j, p) ==
  /\ br[d].mutable /\ MayMap(d, s)
  /\ LET pairs == MappingOf(d, s, p)
     IN br' = [br EXCEPT
                 ![d].mapping[s] = pairs,
                 ![d].records[i] = Copied(@, br[s].records[j], pairs)]
  /\ UNCHANGED <<late, reopened, mixed>>

MayCopyRaw(d, s) ==
  /\ d # s /\ br[d].mutable
  /\ br[d].hash = br[s].hash
  /\ br[d].config.type = br[s].config.type

\* The switch of CopyContentsRaw has no case for kGeneric, whatever Branch.hpp
\* says ("Copies contents from other branch 'as-is'").
RawCopy(d, s) ==
  IF br[d].config.type = "kGeneric" THEN br[d].records ELSE br[s].records

CopyContentsRaw(d, s) ==
  /\ MayCopyRaw(d, s)
  /\ br' = [br EXCEPT ![d].records = RawCopy(d, s)]
  /\ late' = IF br[d].config.type = "kGeneric" THEN late
             ELSE [late EXCEPT ![d] = late[s]]
  /\ mixed' = IF br[d].config.type = "kGeneric" THEN mixed
              ELSE IF s \in mixed THEN mixed \cup {d} ELSE mixed \ {d}
  /\ UNCHANGED reopened

\* T1(Container(record)) has the members of a new T1; Particle(Track) takes
\* those of the Track over, whatever ids they have there.
RawMembers(d, s, r) ==
  [i \in MemberIds(d) |->
     LET same == {DefaultId(s, f[1], f[2]) :
                    f \in {g \in Types \X Names : DefaultId(d, g[1], g[2]) = i}}
                 \cap DOMAIN r.members
     IN IF d = "kParticle" /\ s = "kTrack" /\ same # {}
        THEN r.members[CHOOSE j \in same : TRUE] ELSE Blank]

\* BranchChannel::CopyContentRaw assigns the other record, of whatever branch
\* and type, through Container: slots and id come from there, wherever the two
\* branches keep their fields.
CopyContentRaw(d, i, s, j) ==
  /\ br' = [br EXCEPT ![d].records[i] =
              [slots   |-> br[s].records[j].slots,
               members |-> RawMembers(br[d].config.type, br[s].config.type,
                                      br[s].records[j])]]
  /\ IF HashOf(br[d].config) = HashOf(br[s].config) /\ s \notin mixed
     THEN late' = [late EXCEPT ![d] = @ \cup late[s]] /\ UNCHANGED mixed
     ELSE late' = [late EXCEPT ![d] = Names] /\ mixed' = mixed \cup {d}
  /\ UNCHANGED reopened

Records(b) == DOMAIN br[b].records

\* The names tasks write: those they declare, of user or default fields.
UserNames == {f[1] : f \in NewFields}

Configs ==
  {NewConfig(n, d) : n \in BranchNames, d \in DetTypes} \cup
  {Clone(br[b].config, br[b].config.name, br[b].config.type) : b \in Live}

UserFieldsOf(b) ==
  IF b \notin Live THEN {}
  ELSE UNION {UserFields(br[b].config, t) : t \in Types}

Bounded ==
  /\ \A b \in Live : Len(br[b].records) <= MaxRecords
  /\ Cardinality(UNION {{b} \X UserFieldsOf(b) : b \in Branches}) <= MaxFields

Next ==
  /\ \/ \E b \in Branches, c \in Configs, k \in 0 .. 1 : Construct(b, c, k)
     \/ \E b \in Live :
          \/ Destroy(b)
          \/ \E is \in MutableArgs : SetMutable(b, is)
          \/ \E is \in BOOLEAN : Freeze(b, is)
          \/ \E f \in NewFields : NewVariable(b, f[1], f[2])
          \/ \E s \in Live : CloneVariables(b, s)
          \/ NewChannel(b)
          \/ ClearChannels(b)
          \/ \E i \in Records(b), n \in UserNames, v \in Inputs :
               SetValue(b, i, n, v)
     \/ \E d, s \in Live :
          /\ <<d, s>> \in Flows
          /\ \/ \E p \in Prefixes : CreateMapping(d, s, p)
             \/ CopyContentsRaw(d, s)
             \/ \E i \in Records(d), j \in Records(s) :
                  \/ \E p \in Prefixes : CopyContent(d, i, s, j, p)
                  \/ CopyContentRaw(d, i, s, j)
  /\ Bounded'
  /\ vars' # vars   \* a call that changes nothing is no step

Spec == Init /\ [][Next]_vars

(***************************************************************************)
(* Properties                                                              *)
(***************************************************************************)
\* Every record has a slot for every field of its branch, except for fields
\* declared after it was made (Freeze(false) and the raw copies allow that).
\* Without the slot Value and SetValue throw in the middle of an event.  All
\* fields are excepted once BranchChannel::CopyContentRaw gave a record of the
\* branch the slots of a branch with other fields, until its records are
\* replaced or cleared: that call checks nothing.
RecordsComplete ==
  \A b \in Live : \A i \in Records(b), n \in Names \ late[b] :
    HasField(br[b].config, n) =>
      Holds(br[b].records[i], FieldOf(br[b].config, n))

\* The field pairs of a cached mapping are those of the two configs as they
\* are now, however long ago CreateMapping stored their ids and types.
MappingsCurrent ==
  \A d \in Live, s \in Live : br[d].mapping[s] # NoMapping =>
    \A p \in br[d].mapping[s] :
      /\ p[1] = FieldOf(br[s].config, p[1].name)
      /\ p[2] = FieldOf(br[d].config, p[2].name)

\* A cached mapping misses no field: it is what CreateMapping would make now
\* for some prefix, unless one of the branches was opened again by its owner.
MappingsWhole ==
  \A d, s \in Live \ reopened : br[d].mapping[s] # NoMapping =>
    \E p \in Prefixes :
      br[d].mapping[s] = Pairs(br[s].config, br[d].config, p)

(***************************************************************************)
(* The records by the names of their fields.                               *)
(***************************************************************************)
\* The fields that hold a value.
StoredFields(c) ==
  {n \in Names : \E t \in Types :
     c.id[t][n] >= 0 \/ (Has(c, t, n) /\ n \notin Derived)}

\* The types with a slot or member of record r for the field n.
HeldAs(c, r, n) ==
  {t \in Types : \/ c.id[t][n] \in DOMAIN r.members
                 \/ c.id[t][n] + 1 \in DOMAIN r.slots[t]}

\* Value(r, FieldOf(c, n)) for each field n that r holds.
NamedRow(c, r) ==
  [n \in {m \in Names : HeldAs(c, r, m) # {}} |->
     LET t == GetFieldType(c, n)
     IN IF c.id[t][n] >= 0 THEN r.slots[t][c.id[t][n] + 1]
        ELSE r.members[c.id[t][n]]]

TableOf(x) ==
  [types |-> [n \in StoredFields(x.config) |-> GetFieldType(x.config, n)],
   rows  |-> [i \in DOMAIN x.records |-> NamedRow(x.config, x.records[i])]]

NamedTables ==
  [b \in Branches |-> IF b \in Live THEN TableOf(br[b]) ELSE NoBranch]

\* The absent branch is no table.
ASSUME NoTableAssumption ==
  LET Maps(T) == UNION {[S -> T] : S \in SUBSET Names}
  IN NoBranch \notin [types : Maps(Types), rows : Seq(Maps(Values))]

Renamed(m, n) == \E p \in Prefixes : n = Target(p, m)

Tables == INSTANCE NamedRecords WITH
  Nothing <- NoBranch, Stored <- Convert, Computed <- Derived,
  table <- NamedTables, mixed <- mixed

\* Slots, ids and mappings implement the tables of NamedRecords: no write ends
\* up under another name, in another record or in another branch.  The one
\* exception is CopyContentRaw from a branch with other fields, which may leave
\* anything in the record it is called on, but changes no other.
ImplementsNamedRecords == Tables!NSpec
=============================================================================
