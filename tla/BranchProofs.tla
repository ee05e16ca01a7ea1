---------------------------- MODULE BranchProofs ----------------------------
(***************************************************************************)
(* The invariants of Branch hold for every set of branches, names, values  *)
(* and prefixes and every default field, and its calls are steps of        *)
(* NamedRecords; records BranchMerge fills hold what both channels do.     *)
(***************************************************************************)
EXTENDS BranchMerge, FiniteSetTheorems, TLAPS

(***************************************************************************)
(* Configs                                                                 *)
(***************************************************************************)
\* The ids of each elementary type lie below its size_ (those of absent and
\* default fields are negative).
HasSlots(c) == \A t \in Types, n \in Names : c.id[t][n] < c.size[t]

\* Config e has the fields of c under their ids, and no others but those of ns.
Extends(c, e, ns) ==
  /\ e.type = c.type
  /\ \A n \in Names : HasField(c, n) => FieldOf(e, n) = FieldOf(c, n)
  /\ \A n \in Names \ ns : HasField(e, n) => HasField(c, n)

LEMMA TypesFact == Types = {"float", "int", "bool"} /\ Undef = -999
BY DEF Types, Undef

\* A field is present exactly if it has an id in one of the elementary types,
\* and FieldOf is then a field with an id of its type.
LEMMA FieldFacts ==
  ASSUME NEW c \in Config, NEW n \in Names
  PROVE  /\ HasField(c, n) <=> \E t \in Types : c.id[t][n] # Undef
         /\ HasField(c, n) => /\ FieldOf(c, n) \in Field
                              /\ FieldOf(c, n).id = c.id[FieldOf(c, n).type][n]
         /\ FieldOf(c, n).name = n
<1> DEFINE t == GetFieldType(c, n)
<1>1. t \in Types \cup {"none"}
  BY TypesFact DEF GetFieldType
<1>2. t = "none" <=> \A u \in Types : c.id[u][n] = Undef
  BY TypesFact DEF GetFieldType, Has
<1>3. t # "none" => c.id[t][n] # Undef
  BY TypesFact DEF GetFieldType, Has
<1>4. "none" \notin Types
  BY TypesFact
<1>5. \A u \in Types : c.id[u][n] \in Int
  BY DEF Config
<1> HIDE DEF t
<1>6. GetFieldId(c, n) = IF t = "none" THEN Undef ELSE c.id[t][n]
  BY DEF GetFieldId, t
<1>7. HasField(c, n) <=> t # "none"
  BY <1>3, <1>6 DEF HasField
<1>8. FieldOf(c, n) = [name |-> n, type |-> t, id |-> GetFieldId(c, n)]
  BY DEF FieldOf, t
<1> QED
  BY <1>1, <1>2, <1>4, <1>5, <1>6, <1>7, <1>8 DEF Field

\* What a config says of a name depends on the ids of that name alone.
LEMMA SameIds ==
  ASSUME NEW c, NEW e, NEW n,
         \A t \in Types : e.id[t][n] = c.id[t][n]
  PROVE  FieldOf(e, n) = FieldOf(c, n) /\ (HasField(e, n) <=> HasField(c, n))
BY TypesFact DEF FieldOf, HasField, GetFieldId, GetFieldType, Has

LEMMA NewConfigSound ==
  ASSUME NEW b \in BranchNames, NEW d \in DetTypes
  PROVE  NewConfig(b, d) \in Config /\ HasSlots(NewConfig(b, d))
BY DefaultsAssumption DEF NewConfig, Config, HasSlots

LEMMA CloneSound ==
  ASSUME NEW c \in Config, HasSlots(c)
  PROVE  Clone(c, c.name, c.type) \in Config /\ HasSlots(Clone(c, c.name, c.type))
<1> DEFINE e == Clone(c, c.name, c.type)
<1>1. /\ c.name \in BranchNames /\ c.type \in DetTypes
      /\ c.id \in [Types -> [Names -> Int]] /\ c.size \in [Types -> Nat]
  BY DEF Config
<1>2. e.size = c.size
  BY DEF Clone
<1>3. \A t \in Types, n \in Names :
        e.id[t][n] = IF c.id[t][n] >= 0 THEN c.id[t][n] ELSE DefaultId(c.type, t, n)
  BY DEF Clone
<1>4. e \in Config
  BY <1>1, DefaultsAssumption DEF Clone, Config
<1> HIDE DEF e
<1>5. HasSlots(e)
  BY <1>1, <1>2, <1>3, DefaultsAssumption DEF HasSlots
<1> QED
  BY <1>4, <1>5 DEF e

\* AddField of a new name.
LEMMA AddFieldSound ==
  ASSUME NEW c \in Config, HasSlots(c), NEW t \in Types, NEW n \in Names,
         ~HasField(c, n)
  PROVE  /\ AddField(c, t, n) \in Config /\ HasSlots(AddField(c, t, n))
         /\ Extends(c, AddField(c, t, n), {n})
<1> DEFINE e == AddField(c, t, n)
<1>1. /\ c.id \in [Types -> [Names -> Int]] /\ c.size \in [Types -> Nat]
      /\ DOMAIN c = {"name", "type", "id", "size"}
  BY DEF Config
<1>2. /\ e.id = [c.id EXCEPT ![t] = [@ EXCEPT ![n] = c.size[t]]]
      /\ e.size = [c.size EXCEPT ![t] = @ + 1]
      /\ e.name = c.name /\ e.type = c.type
      /\ e = [c EXCEPT !.id = e.id, !.size = e.size]
  BY <1>1 DEF AddField
<1>3. /\ \A u \in Types, m \in Names :
           e.id[u][m] = IF u = t /\ m = n THEN c.size[t] ELSE c.id[u][m]
      /\ \A u \in Types : e.size[u] = IF u = t THEN c.size[t] + 1 ELSE c.size[u]
      /\ e.id \in [Types -> [Names -> Int]] /\ e.size \in [Types -> Nat]
  BY <1>1, <1>2
<1>4. e \in Config
  BY <1>2, <1>3 DEF Config
<1> HIDE DEF e
<1>5. HasSlots(e)
  BY <1>1, <1>3 DEF HasSlots
<1>6. \A m \in Names \ {n} : /\ FieldOf(e, m) = FieldOf(c, m)
                             /\ HasField(e, m) <=> HasField(c, m)
  BY <1>3, SameIds
<1> QED
  BY <1>2, <1>4, <1>5, <1>6 DEF Extends, e

\* New fields of all types: their ids follow size_, one each.
LEMMA WithFieldsSound ==
  ASSUME NEW c \in Config, HasSlots(c), NEW fs,
         \A t \in Types : fs[t] \in SUBSET Names,
         \A t \in Types : \A n \in fs[t] : ~HasField(c, n)
  PROVE  /\ WithFields(c, fs) \in Config /\ HasSlots(WithFields(c, fs))
         /\ Extends(c, WithFields(c, fs), UNION {fs[t] : t \in Types})
<1> DEFINE e == WithFields(c, fs)
           M(t) == fs[t]
           below(t, n) == {m \in M(t) : Rank[m] < Rank[n]}
           new == UNION {M(t) : t \in Types}
<1>1. /\ c.id \in [Types -> [Names -> Int]] /\ c.size \in [Types -> Nat]
      /\ DOMAIN c = {"name", "type", "id", "size"}
  BY DEF Config
<1>2. \A t \in Types : M(t) \subseteq Names /\ IsFiniteSet(M(t))
  <2>1. \A t \in Types : M(t) \subseteq Names
    OBVIOUS
  <2> QED
    BY <2>1, NamesAssumption, FS_Subset
<1>3. \A t \in Types : Cardinality(M(t)) \in Nat
  BY <1>2, FS_CardinalityType
<1>4. ASSUME NEW t \in Types, NEW n \in M(t)
      PROVE  /\ Cardinality(below(t, n)) \in Nat
             /\ Cardinality(below(t, n)) < Cardinality(M(t))
  <2>1. below(t, n) \subseteq M(t) /\ n \notin below(t, n)
    BY <1>2, NamesAssumption
  <2>2. IsFiniteSet(below(t, n)) /\ Cardinality(below(t, n)) \in Nat
    BY <1>2, <2>1, FS_Subset, FS_CardinalityType
  <2>3. below(t, n) # M(t)
    BY <2>1
  <2> HIDE DEF below, M
  <2>4. Cardinality(below(t, n)) <= Cardinality(M(t))
    BY <1>2, <2>1, FS_Subset
  <2>5. Cardinality(below(t, n)) # Cardinality(M(t))
    BY <1>2, <2>1, <2>3, FS_Subset
  <2> QED
    BY <1>3, <2>2, <2>4, <2>5
<1>5. /\ e.type = c.type /\ e.name = c.name
      /\ DOMAIN e = {"name", "type", "id", "size"}
      /\ e.id = [t \in Types |-> [n \in Names |->
                   IF n \in M(t) THEN c.size[t] + Cardinality(below(t, n))
                   ELSE c.id[t][n]]]
      /\ e.size = [t \in Types |-> c.size[t] + Cardinality(M(t))]
      /\ e = [c EXCEPT !.id = e.id, !.size = e.size]
  BY <1>1 DEF WithFields
<1> HIDE DEF e, M, below
<1>6. /\ \A t \in Types, n \in Names :
           e.id[t][n] = IF n \in M(t) THEN c.size[t] + Cardinality(below(t, n))
                        ELSE c.id[t][n]
      /\ \A t \in Types : e.size[t] = c.size[t] + Cardinality(M(t))
  BY <1>5
<1>7. e.id \in [Types -> [Names -> Int]] /\ e.size \in [Types -> Nat]
  <2>1. \A t \in Types, n \in Names :
          (IF n \in M(t) THEN c.size[t] + Cardinality(below(t, n))
           ELSE c.id[t][n]) \in Int
    BY <1>1, <1>4
  <2>2. \A t \in Types : c.size[t] + Cardinality(M(t)) \in Nat
    BY <1>1, <1>3
  <2> QED
    BY <1>5, <2>1, <2>2
<1>8. e \in Config
  BY <1>5, <1>7 DEF Config
<1>9. HasSlots(e)
  <2> SUFFICES ASSUME NEW t \in Types, NEW n \in Names
               PROVE  e.id[t][n] < e.size[t]
    BY DEF HasSlots
  <2>1. c.id[t][n] \in Int /\ c.size[t] \in Nat /\ c.id[t][n] < c.size[t]
    BY <1>1 DEF HasSlots
  <2> QED
    BY <1>3, <1>4, <1>6, <2>1
<1>10. ASSUME NEW n \in Names, n \notin new
       PROVE  FieldOf(e, n) = FieldOf(c, n) /\ (HasField(e, n) <=> HasField(c, n))
  BY <1>6, <1>10, SameIds
<1>11. \A n \in new : ~HasField(c, n)
  BY DEF M
<1> HIDE DEF new
<1>12. Extends(c, e, new)
  BY <1>5, <1>10, <1>11 DEF Extends
<1> QED
  BY <1>8, <1>9, <1>12 DEF e, new, M

\* The fields of another config, as CloneVariables adds them.
LEMMA MissingNames ==
  ASSUME NEW c, NEW o, NEW t
  PROVE  /\ Missing(c, o, t) \in SUBSET Names
         /\ \A n \in Missing(c, o, t) : ~HasField(c, n)
BY DEF Missing, Fields

LEMMA WithFieldsOfSound ==
  ASSUME NEW c \in Config, HasSlots(c), NEW o \in Config
  PROVE  /\ WithFieldsOf(c, o) \in Config /\ HasSlots(WithFieldsOf(c, o))
         /\ Extends(c, WithFieldsOf(c, o), UNION {Missing(c, o, t) : t \in Types})
<1> DEFINE fs == [t \in Types |-> Missing(c, o, t)]
<1>1. \A t \in Types : fs[t] = Missing(c, o, t)
  OBVIOUS
<1>2. WithFieldsOf(c, o) = WithFields(c, fs)
  BY DEF WithFieldsOf
<1>3. UNION {fs[t] : t \in Types} = UNION {Missing(c, o, t) : t \in Types}
  BY <1>1
<1>4. /\ \A t \in Types : fs[t] \in SUBSET Names
      /\ \A t \in Types : \A n \in fs[t] : ~HasField(c, n)
  BY <1>1, MissingNames
<1> HIDE DEF fs
<1> QED
  BY <1>2, <1>3, <1>4, WithFieldsSound

(***************************************************************************)
(* Records                                                                 *)
(***************************************************************************)
\* A record of type d whose slots hold what their elementary types can.
Sound(d, r) ==
  /\ r \in Record(d)
  /\ \A t \in Types : \A k \in DOMAIN r.slots[t] :
       Convert(t, r.slots[t][k]) = r.slots[t][k]

\* Record r has the slots of the fields of c but those in ns.
Complete(c, r, ns) ==
  \A n \in Names \ ns : HasField(c, n) => Holds(r, FieldOf(c, n))

\* Converting a value yields a value, and converting that again changes nothing.
LEMMA ConvertTwice ==
  ASSUME NEW t \in Types, NEW v \in Values
  PROVE  /\ Convert(t, v) \in Values
         /\ Convert(t, Convert(t, v)) = Convert(t, v)
<1>1. v \in Nat /\ Convert(t, v) \in Values
  BY BranchAssumption, ValuesAssumption
<1>2. CASE t = "float"
  BY <1>2 DEF Convert
<1>3. CASE t = "int"
  <2> DEFINE h == v \div 2
  <2>1. h \in Nat /\ (2 * h) \div 2 = h
    BY <1>1
  <2>2. Convert(t, v) = 2 * h
    BY <1>3 DEF Convert
  <2>3. Convert(t, 2 * h) = 2 * ((2 * h) \div 2)
    BY <1>3 DEF Convert
  <2> HIDE DEF h
  <2> QED
    BY <1>1, <2>1, <2>2, <2>3
<1>4. CASE t = "bool"
  BY <1>1, <1>4 DEF Convert
<1> QED
  BY <1>1, <1>2, <1>3, <1>4, TypesFact

\* Blank is a value every elementary type can hold.
LEMMA BlankFits ==
  Blank \in Values /\ \A t \in Types : Convert(t, Blank) = Blank
<1>1. Convert("float", 0) = 0 /\ Convert("int", 0) = 0 /\ Convert("bool", 0) = 0
  BY DEF Convert
<1> QED
  BY <1>1, BranchAssumption, TypesFact DEF Blank

\* Container::Init gives a record as many slots as the config says.
LEMMA ResizedSlots ==
  ASSUME NEW slots \in [Types -> Seq(Values)], NEW size \in [Types -> Nat],
         \A t \in Types : \A k \in DOMAIN slots[t] :
           Convert(t, slots[t][k]) = slots[t][k]
  PROVE  /\ Resized(slots, size) \in Slots
         /\ \A t \in Types : /\ Len(Resized(slots, size)[t]) = size[t]
                             /\ \A k \in DOMAIN Resized(slots, size)[t] :
                                  Convert(t, Resized(slots, size)[t][k])
                                    = Resized(slots, size)[t][k]
<1> DEFINE s == Resized(slots, size)
<1>1. ASSUME NEW t \in Types
      PROVE  /\ s[t] \in Seq(Values) /\ Len(s[t]) = size[t]
             /\ \A k \in DOMAIN s[t] : Convert(t, s[t][k]) = s[t][k]
  <2>1. s[t] = [k \in 1 .. size[t] |-> IF k <= Len(slots[t]) THEN slots[t][k]
                                       ELSE Blank]
    BY DEF Resized
  <2>2. slots[t] \in Seq(Values) /\ size[t] \in Nat
    OBVIOUS
  <2>3. \A k \in 1 .. size[t] :
          /\ (IF k <= Len(slots[t]) THEN slots[t][k] ELSE Blank) \in Values
          /\ k <= Len(slots[t]) => k \in DOMAIN slots[t]
    BY <2>2, BlankFits
  <2> HIDE DEF s
  <2>4. s[t] \in Seq(Values) /\ Len(s[t]) = size[t] /\ DOMAIN s[t] = 1 .. size[t]
    BY <2>1, <2>2, <2>3
  <2>5. ASSUME NEW k \in 1 .. size[t]
        PROVE  Convert(t, s[t][k]) = s[t][k]
    BY <2>1, <2>3, BlankFits
  <2> QED
    BY <2>4, <2>5
<1>2. s = [t \in Types |-> s[t]]
  BY DEF Resized
<1> HIDE DEF s
<1> QED
  BY <1>1, <1>2 DEF s, Slots

\* Slots as many as the config says are enough for its fields.
LEMMA SlotsSuffice ==
  ASSUME NEW c \in Config, HasSlots(c), NEW r,
         \A t \in Types : Len(r.slots[t]) = c.size[t]
  PROVE  Complete(c, r, {})
<1> SUFFICES ASSUME NEW n \in Names, HasField(c, n), FieldOf(c, n).id >= 0
             PROVE  FieldOf(c, n).id < Len(r.slots[FieldOf(c, n).type])
  BY DEF Complete, Holds
<1>1. FieldOf(c, n).type \in Types /\ FieldOf(c, n).id = c.id[FieldOf(c, n).type][n]
  BY FieldFacts DEF Field
<1> QED
  BY <1>1 DEF HasSlots

\* The members of a new record are values.
LEMMA MembersTyped ==
  ASSUME NEW d PROVE Members(d) \in [MemberIds(d) -> Values]
BY BlankFits DEF Members

\* A new record is sound and complete.
LEMMA NewRecordSound ==
  ASSUME NEW c \in Config, HasSlots(c)
  PROVE  Sound(c.type, NewRecord(c)) /\ Complete(c, NewRecord(c), {})
<1> DEFINE none == [t \in Types |-> <<>>]
           r == NewRecord(c)
<1>1. none \in [Types -> Seq(Values)] /\ \A t \in Types : DOMAIN none[t] = {}
  OBVIOUS
<1>2. c.size \in [Types -> Nat]
  BY DEF Config
<1>3. r = [slots |-> Resized(none, c.size), members |-> Members(c.type)]
  BY DEF NewRecord
<1> HIDE DEF none
<1>4. /\ Resized(none, c.size) \in Slots
      /\ \A t \in Types : /\ Len(Resized(none, c.size)[t]) = c.size[t]
                          /\ \A k \in DOMAIN Resized(none, c.size)[t] :
                               Convert(t, Resized(none, c.size)[t][k])
                                 = Resized(none, c.size)[t][k]
  BY <1>1, <1>2, ResizedSlots
<1>5. r \in Record(c.type) /\ r.slots = Resized(none, c.size)
  BY <1>3, <1>4, MembersTyped DEF Record
<1> HIDE DEF r
<1>6. Sound(c.type, r)
  BY <1>4, <1>5 DEF Sound
<1>7. Complete(c, r, {})
  BY <1>4, <1>5, SlotsSuffice
<1> QED
  BY <1>6, <1>7 DEF r

\* The record of an EventHeader gets the slots of a config's new fields.
LEMMA ResizedSound ==
  ASSUME NEW c \in Config, HasSlots(c), NEW r, Sound(c.type, r)
  PROVE  /\ Sound(c.type, WithSlots(r, c.size))
         /\ Complete(c, WithSlots(r, c.size), {})
<1> DEFINE s == Resized(r.slots, c.size)
           e == WithSlots(r, c.size)
<1>1. /\ r \in Record(c.type) /\ r.slots \in [Types -> Seq(Values)]
      /\ \A t \in Types : \A k \in DOMAIN r.slots[t] :
           Convert(t, r.slots[t][k]) = r.slots[t][k]
  BY DEF Sound, Record, Slots
<1>2. c.size \in [Types -> Nat]
  BY DEF Config
<1>3. /\ s \in Slots
      /\ \A t \in Types : /\ Len(s[t]) = c.size[t]
                          /\ \A k \in DOMAIN s[t] : Convert(t, s[t][k]) = s[t][k]
  BY <1>1, <1>2, ResizedSlots
<1>4. e = [r EXCEPT !.slots = s]
  BY DEF WithSlots
<1> HIDE DEF s, e
<1>5. e \in Record(c.type) /\ e.slots = s
  BY <1>1, <1>3, <1>4 DEF Record
<1>6. Sound(c.type, e)
  BY <1>3, <1>5 DEF Sound
<1>7. Complete(c, e, {})
  BY <1>3, <1>5, SlotsSuffice
<1> QED
  BY <1>6, <1>7 DEF e

\* Writing values under some fields leaves a record sound and its slots as many.
LEMMA WrittenSound ==
  ASSUME NEW d, NEW r, Sound(d, r), NEW fs \in SUBSET Field, NEW v,
         \A f \in fs : v[f] \in Values
  PROVE  /\ Sound(d, Written(r, fs, v))
         /\ \A t \in Types : Len(Written(r, fs, v).slots[t]) = Len(r.slots[t])
<1> DEFINE w == Written(r, fs, v)
           at(t, k) == CHOOSE f \in fs : f.type = t /\ f.id = k - 1
           of(i) == CHOOSE f \in fs : f.id = i
           written(t, k) == \E f \in fs : f.type = t /\ f.id = k - 1
           has(i) == \E f \in fs : f.id = i
<1>1. /\ DOMAIN r = {"slots", "members"}
      /\ r.slots \in [Types -> Seq(Values)]
      /\ r.members \in [MemberIds(d) -> Values]
      /\ \A t \in Types : \A k \in DOMAIN r.slots[t] :
           Convert(t, r.slots[t][k]) = r.slots[t][k]
  BY DEF Sound, Record, Slots
<1>2. \A t, k : written(t, k) => at(t, k) \in fs
  OBVIOUS
<1>3. \A i : has(i) => of(i) \in fs
  OBVIOUS
<1>4. w = [slots |-> [t \in Types |-> [k \in DOMAIN r.slots[t] |->
             IF written(t, k) THEN Convert(t, v[at(t, k)]) ELSE r.slots[t][k]]],
           members |-> [i \in DOMAIN r.members |->
             IF has(i) THEN Convert(of(i).type, v[of(i)]) ELSE r.members[i]]]
  BY DEF Written
<1> HIDE DEF at, of, written, has, w
<1>5. \A f \in fs : f.type \in Types /\ v[f] \in Values
  BY DEF Field
<1>6. ASSUME NEW t \in Types
      PROVE  /\ w.slots[t] \in Seq(Values) /\ Len(w.slots[t]) = Len(r.slots[t])
             /\ \A k \in DOMAIN w.slots[t] :
                  Convert(t, w.slots[t][k]) = w.slots[t][k]
  <2>1. w.slots[t] = [k \in DOMAIN r.slots[t] |->
                        IF written(t, k) THEN Convert(t, v[at(t, k)]) ELSE r.slots[t][k]]
    BY <1>4
  <2>2. r.slots[t] \in Seq(Values)
    BY <1>1
  <2>3. ASSUME NEW k \in DOMAIN r.slots[t]
        PROVE  /\ w.slots[t][k] \in Values
               /\ Convert(t, w.slots[t][k]) = w.slots[t][k]
    <3>1. CASE written(t, k)
      <4>1. w.slots[t][k] = Convert(t, v[at(t, k)])
        BY <2>1, <3>1
      <4> QED
        BY <1>2, <1>5, <3>1, <4>1, ConvertTwice
    <3>2. CASE ~written(t, k)
      BY <1>1, <2>1, <2>2, <3>2
    <3> QED
      BY <3>1, <3>2
  <2>4. DOMAIN w.slots[t] = DOMAIN r.slots[t]
    BY <2>1
  <2>5. PICK m \in Nat : DOMAIN r.slots[t] = 1 .. m /\ Len(r.slots[t]) = m
    BY <2>2
  <2>6. w.slots[t] = [k \in 1 .. m |-> w.slots[t][k]]
    BY <2>1, <2>5
  <2>7. w.slots[t] \in Seq(Values) /\ Len(w.slots[t]) = m
    BY <2>3, <2>5, <2>6
  <2> QED
    BY <2>3, <2>4, <2>5, <2>7
<1>7. w.slots \in Slots
  <2>1. w.slots = [t \in Types |-> w.slots[t]]
    BY <1>4
  <2> QED
    BY <1>6, <2>1 DEF Slots
<1>8. w.members \in [MemberIds(d) -> Values]
  <2>1. w.members = [i \in MemberIds(d) |->
             IF has(i) THEN Convert(of(i).type, v[of(i)]) ELSE r.members[i]]
    BY <1>1, <1>4
  <2>2. \A i \in MemberIds(d) :
          (IF has(i) THEN Convert(of(i).type, v[of(i)]) ELSE r.members[i]) \in Values
    BY <1>1, <1>3, <1>5, ConvertTwice
  <2> QED
    BY <2>1, <2>2
<1>9. w \in Record(d)
  <2>1. w = [slots |-> w.slots, members |-> w.members]
    BY <1>4
  <2> QED
    BY <1>7, <1>8, <2>1 DEF Record
<1> QED
  BY <1>6, <1>9 DEF Sound, w

\* A field that a sound record holds has a value.
LEMMA ValueTyped ==
  ASSUME NEW d, NEW r, Sound(d, r), NEW f \in Field, Holds(r, f)
  PROVE  Value(r, f) \in Values
<1>1. /\ r.slots \in [Types -> Seq(Values)] /\ r.members \in [MemberIds(d) -> Values]
      /\ f.type \in Types /\ f.id \in Int
  BY DEF Sound, Record, Slots, Field
<1>2. CASE f.id >= 0
  <2>1. r.slots[f.type] \in Seq(Values) /\ f.id + 1 \in 1 .. Len(r.slots[f.type])
    BY <1>1, <1>2 DEF Holds
  <2>2. r.slots[f.type][f.id + 1] \in Values
    BY <2>1
  <2> QED
    BY <1>2, <2>2 DEF Value
<1>3. CASE ~(f.id >= 0)
  BY <1>1, <1>3, BlankFits DEF Value
<1> QED
  BY <1>2, <1>3

\* So does copying the fields of a mapping from another sound record.
LEMMA CopiedSound ==
  ASSUME NEW d, NEW r, Sound(d, r), NEW e, NEW q, Sound(e, q),
         NEW pairs \in SUBSET (Field \X Field)
  PROVE  /\ Sound(d, Copied(r, q, pairs))
         /\ \A t \in Types : Len(Copied(r, q, pairs).slots[t]) = Len(r.slots[t])
<1> DEFINE done == CopiedPairs(r, q, pairs)
           targets == {p[2] : p \in done}
           src(f) == CHOOSE p \in done : p[2] = f
           v == [f \in targets |-> Value(q, src(f)[1])]
<1>1. \A p \in done : p[1] \in Field /\ p[2] \in Field /\ Holds(q, p[1])
  BY DEF CopiedPairs
<1>2. \A f \in targets : src(f) \in done
  OBVIOUS
<1>3. Copied(r, q, pairs) = Written(r, targets, v)
  BY DEF Copied
<1>4. targets \in SUBSET Field
  BY <1>1
<1>5. \A f \in targets : v[f] = Value(q, src(f)[1])
  OBVIOUS
<1> HIDE DEF done, src, targets, v
<1>6. \A f \in targets : v[f] \in Values
  BY <1>1, <1>2, <1>5, ValueTyped
<1> QED
  BY <1>3, <1>4, <1>6, WrittenSound

(***************************************************************************)
(* The inductive invariant                                                 *)
(***************************************************************************)
\* The hash is the config's, whose ids are below the sizes: two branches of one
\* hash have the same fields.
ConfigsHashed ==
  \A b \in Live : br[b].hash = HashOf(br[b].config) /\ HasSlots(br[b].config)

\* A mapping is cached from branches that exist
MappingsOfLive ==
  \A d \in Live, s \in Branches : br[d].mapping[s] # NoMapping => s \in Live

\* and was frozen on both sides: what is not any more was opened again.
MappingsClosed ==
  \A d \in Live, s \in Live : br[d].mapping[s] # NoMapping =>
    \A b \in {d, s} : br[b].frozen \/ b \in reopened

Inv ==
  /\ TypeOK /\ ConfigsHashed
  /\ RecordsComplete
  /\ MappingsCurrent /\ MappingsOfLive /\ MappingsClosed /\ MappingsWhole

\* What the invariant says of one branch and of its records.
SoundBranch(x) ==
  /\ x \in Branch /\ x # NoBranch
  /\ x.hash = HashOf(x.config) /\ HasSlots(x.config)
  /\ IsHeader(x.config) => Len(x.records) = 1
  /\ \A i \in DOMAIN x.records : Sound(x.config.type, x.records[i])

CompleteBranch(x, ns) == \A i \in DOMAIN x.records : Complete(x.config, x.records[i], ns)

LEMMA InvOfOne ==
  ASSUME Inv, NEW b \in Live
  PROVE  /\ b \in Branches /\ SoundBranch(br[b]) /\ CompleteBranch(br[b], late[b])
         /\ late[b] \in SUBSET Names
<1>1. b \in Branches /\ br[b] # NoBranch
  BY DEF Live
<1>2. br[b] \in Branch /\ late[b] \in SUBSET Names
  BY <1>1 DEF Inv, TypeOK
<1>3. /\ IsHeader(br[b].config) => Len(br[b].records) = 1
      /\ \A i \in DOMAIN br[b].records :
           Sound(br[b].config.type, br[b].records[i])
  BY DEF Inv, TypeOK, Sound
<1>4. br[b].hash = HashOf(br[b].config) /\ HasSlots(br[b].config)
  BY DEF Inv, ConfigsHashed
<1>5. CompleteBranch(br[b], late[b])
  BY DEF Inv, RecordsComplete, CompleteBranch, Complete, Records
<1> QED
  BY <1>1, <1>2, <1>3, <1>4, <1>5 DEF SoundBranch

\* ... and the other way round.
AllSound ==
  /\ br = [b \in Branches |-> br[b]]
  /\ late \in [Branches -> SUBSET Names] /\ reopened \in SUBSET Branches
  /\ mixed \in SUBSET Branches
  /\ \A b \in Live : SoundBranch(br[b]) /\ CompleteBranch(br[b], late[b])

LEMMA AllSoundOK == AllSound => TypeOK /\ ConfigsHashed /\ RecordsComplete
<1> SUFFICES ASSUME AllSound PROVE TypeOK /\ ConfigsHashed /\ RecordsComplete
  OBVIOUS
<1>1. \A b \in Branches : br[b] \in Branch \cup {NoBranch}
  BY DEF AllSound, Live, SoundBranch
<1>2. \A b \in Live :
        /\ IsHeader(br[b].config) => Len(br[b].records) = 1
        /\ \A i \in DOMAIN br[b].records :
             Sound(br[b].config.type, br[b].records[i])
        /\ br[b].hash = HashOf(br[b].config) /\ HasSlots(br[b].config)
        /\ CompleteBranch(br[b], late[b])
  BY DEF AllSound, SoundBranch
<1>3. TypeOK
  BY <1>1, <1>2 DEF AllSound, TypeOK, Sound
<1>4. ConfigsHashed
  BY <1>2 DEF ConfigsHashed
<1>5. RecordsComplete
  BY <1>2 DEF RecordsComplete, CompleteBranch, Complete, Records
<1> QED
  BY <1>3, <1>4, <1>5

LEMMA AllSoundNextOK == AllSound' => TypeOK' /\ ConfigsHashed' /\ RecordsComplete'
BY AllSoundOK, PTL

\* There are no branches at first.
LEMMA InitInv == Init => Inv
<1> SUFFICES ASSUME Init PROVE Inv
  OBVIOUS
<1>1. /\ br = [b \in Branches |-> NoBranch] /\ late = [b \in Branches |-> {}]
      /\ reopened = {} /\ mixed = {}
  BY DEF Init
<1>2. Live = {}
  BY <1>1 DEF Live
<1>3. TypeOK /\ ConfigsHashed /\ RecordsComplete
  BY <1>1, <1>2, AllSoundOK DEF AllSound
<1> QED
  BY <1>2, <1>3
  DEF Inv, MappingsCurrent, MappingsOfLive, MappingsClosed, MappingsWhole

(***************************************************************************)
(* The steps                                                               *)
(***************************************************************************)
\* What CreateMapping stores for branch d when it maps from s.
MapsNow(d, s, m) ==
  /\ s \in Live /\ br[d].frozen /\ br[s].frozen
  /\ \E p \in Prefixes : m = Pairs(br[s].config, br[d].config, p)

\* A pair of a mapping relates fields the two branches have.
LEMMA PairsTyped ==
  ASSUME NEW c \in Config, NEW e \in Config, NEW p
  PROVE  /\ Pairs(c, e, p) \in SUBSET (Field \X Field)
         /\ \A x \in Pairs(c, e, p) : /\ x[1] = FieldOf(c, x[1].name)
                                      /\ x[2] = FieldOf(e, x[2].name)
<1> SUFFICES ASSUME NEW n \in Names, HasField(c, n),
                    Target(p, n) \in Names, HasField(e, Target(p, n))
             PROVE  /\ FieldOf(c, n) \in Field /\ FieldOf(e, Target(p, n)) \in Field
                    /\ FieldOf(c, n).name = n
                    /\ FieldOf(e, Target(p, n)).name = Target(p, n)
  BY DEF Pairs
<1> QED
  BY FieldFacts

\* What a cached pair of the invariant is: fields the two branches have.
LEMMA MappingTyped ==
  ASSUME Inv, NEW d \in Live, NEW s \in Branches, br[d].mapping[s] # NoMapping,
         NEW x \in br[d].mapping[s]
  PROVE  /\ s \in Live
         /\ x[1].name \in Names /\ HasField(br[s].config, x[1].name)
         /\ x[2].name \in Names /\ HasField(br[d].config, x[2].name)
         /\ x[1] = FieldOf(br[s].config, x[1].name)
         /\ x[2] = FieldOf(br[d].config, x[2].name)
<1>1. s \in Live
  BY DEF Inv, MappingsOfLive
<1>2. br[d] \in Branch /\ br[s] \in Branch
  BY <1>1, InvOfOne DEF SoundBranch
<1>3. x[1] \in Field /\ x[2] \in Field
  <2>1. br[d].mapping \in [Branches -> (SUBSET (Field \X Field)) \cup {NoMapping}]
    BY <1>2 DEF Branch
  <2>2. br[d].mapping[s] \in SUBSET (Field \X Field)
    BY <2>1
  <2>3. x \in Field \X Field
    BY <2>2
  <2> QED
    BY <2>3
<1>4. /\ x[1] = FieldOf(br[s].config, x[1].name)
      /\ x[2] = FieldOf(br[d].config, x[2].name)
  BY <1>1 DEF Inv, MappingsCurrent
<1>5. ASSUME NEW c \in Config, NEW f \in Field, f = FieldOf(c, f.name)
      PROVE  f.name \in Names /\ HasField(c, f.name)
  <2>1. f.name \in Names /\ f.type \in Types
    BY DEF Field
  <2>2. GetFieldType(c, f.name) = f.type
    BY <1>5 DEF FieldOf
  <2>3. c.id[f.type][f.name] # Undef
    BY <2>1, <2>2, TypesFact DEF GetFieldType, Has
  <2> QED
    BY <2>1, <2>3, FieldFacts
<1> QED
  BY <1>1, <1>2, <1>3, <1>4, <1>5 DEF Branch

\* A call that changes one branch and keeps its fields where they are, and all
\* fields there are when the branch is frozen.
LEMMA ChangeInv ==
  ASSUME Inv, NEW b \in Live, NEW x, br' = [br EXCEPT ![b] = x],
         SoundBranch(x), CompleteBranch(x, late'[b]),
         late' \in [Branches -> SUBSET Names],
         \A q \in Branches : q # b => late'[q] = late[q],
         reopened \subseteq reopened', reopened' \subseteq reopened \cup {b},
         mixed' \in SUBSET Branches,
         br[b].frozen => x.frozen \/ b \in reopened',
         \A n \in Names : HasField(br[b].config, n) =>
           FieldOf(x.config, n) = FieldOf(br[b].config, n),
         x.config = br[b].config \/ ~br[b].frozen,
         \A s \in Branches : x.mapping[s] # NoMapping =>
           x.mapping[s] = br[b].mapping[s] \/ MapsNow(b, s, x.mapping[s])
  PROVE  Inv' /\ Live' = Live
<1>1. /\ br = [q \in Branches |-> br[q]] /\ reopened \subseteq Branches
      /\ b \in Branches /\ br[b] # NoBranch /\ x # NoBranch
  BY DEF Inv, TypeOK, Live, SoundBranch
<1>2. /\ br' = [q \in Branches |-> br'[q]]
      /\ br'[b] = x /\ \A q \in Branches : q # b => br'[q] = br[q]
  BY <1>1
<1>3. Live' = Live
  BY <1>1, <1>2 DEF Live
<1>4. \A q \in Live' : SoundBranch(br'[q]) /\ CompleteBranch(br'[q], late'[q])
  <2> SUFFICES ASSUME NEW q \in Live
               PROVE  SoundBranch(br'[q]) /\ CompleteBranch(br'[q], late'[q])
    BY <1>3
  <2>1. CASE q = b
    BY <1>2, <2>1
  <2>2. CASE q # b
    BY <1>2, <2>2, InvOfOne
  <2> QED
    BY <2>1, <2>2
<1>5. TypeOK' /\ ConfigsHashed' /\ RecordsComplete'
  <2>1. reopened' \subseteq Branches
    BY <1>1
  <2>2. AllSound'
    BY <1>2, <1>4, <2>1 DEF AllSound
  <2> QED
    BY <2>2, AllSoundNextOK
<1>6. ASSUME NEW d \in Live, NEW s \in Branches, br'[d].mapping[s] # NoMapping
      PROVE  /\ s \in Live
             /\ \/ br'[d].mapping[s] = br[d].mapping[s]
                \/ d = b /\ MapsNow(b, s, br'[b].mapping[s])
  <2>1. \/ br'[d].mapping[s] = br[d].mapping[s]
        \/ d = b /\ MapsNow(b, s, br'[b].mapping[s])
    BY <1>2, <1>6 DEF Live
  <2> QED
    BY <1>6, <2>1 DEF Inv, MappingsOfLive, MapsNow
<1>7. MappingsOfLive'
  BY <1>3, <1>6 DEF MappingsOfLive
<1>8. ASSUME NEW q \in Live, NEW n \in Names, HasField(br[q].config, n)
      PROVE  FieldOf(br'[q].config, n) = FieldOf(br[q].config, n)
  <2>1. CASE q = b
    BY <1>2, <1>8, <2>1
  <2>2. CASE q # b
    BY <1>2, <2>2 DEF Live
  <2> QED
    BY <2>1, <2>2
<1>9. ASSUME NEW q \in Live, br[q].frozen
      PROVE  br'[q].config = br[q].config /\ (br'[q].frozen \/ q \in reopened')
  <2>1. CASE q = b
    BY <1>2, <1>9, <2>1
  <2>2. CASE q # b
    BY <1>2, <1>9, <2>2 DEF Live
  <2> QED
    BY <2>1, <2>2
<1>10. MappingsCurrent'
  <2> SUFFICES ASSUME NEW d \in Live, NEW s \in Live, br'[d].mapping[s] # NoMapping,
                      NEW p \in br'[d].mapping[s]
               PROVE  /\ p[1] = FieldOf(br'[s].config, p[1].name)
                      /\ p[2] = FieldOf(br'[d].config, p[2].name)
    BY <1>3 DEF MappingsCurrent
  <2>1. s \in Branches
    BY DEF Live
  <2>2. CASE br'[d].mapping[s] = br[d].mapping[s]
    BY <1>8, <2>1, <2>2, MappingTyped
  <2>3. CASE d = b /\ MapsNow(b, s, br'[b].mapping[s])
    <3>1. PICK y \in Prefixes :
            br'[d].mapping[s] = Pairs(br[s].config, br[d].config, y)
      BY <2>3 DEF MapsNow
    <3>2. br[s].config \in Config /\ br[d].config \in Config
      BY InvOfOne DEF SoundBranch, Branch
    <3>3. br'[s].config = br[s].config /\ br'[d].config = br[d].config
      BY <1>9, <2>3 DEF MapsNow
    <3>4. /\ p[1] = FieldOf(br[s].config, p[1].name)
          /\ p[2] = FieldOf(br[d].config, p[2].name)
      BY <3>1, <3>2, PairsTyped
    <3> QED
      BY <3>3, <3>4
  <2> QED
    BY <1>6, <2>1, <2>2, <2>3
<1>11. MappingsClosed'
  <2> SUFFICES ASSUME NEW d \in Live, NEW s \in Live, br'[d].mapping[s] # NoMapping,
                      NEW q \in {d, s}
               PROVE  br'[q].frozen \/ q \in reopened'
    BY <1>3 DEF MappingsClosed
  <2>1. s \in Branches
    BY DEF Live
  <2>2. br[q].frozen \/ q \in reopened
    <3>1. CASE br'[d].mapping[s] = br[d].mapping[s]
      BY <3>1 DEF Inv, MappingsClosed
    <3>2. CASE d = b /\ MapsNow(b, s, br'[b].mapping[s])
      BY <3>2 DEF MapsNow
    <3> QED
      BY <1>6, <2>1, <3>1, <3>2
  <2> QED
    BY <1>9, <2>2
<1>12. MappingsWhole'
  <2> SUFFICES ASSUME NEW d \in Live \ reopened', NEW s \in Live \ reopened',
                      br'[d].mapping[s] # NoMapping
               PROVE  \E p \in Prefixes :
                        br'[d].mapping[s] = Pairs(br'[s].config, br'[d].config, p)
    BY <1>3 DEF MappingsWhole
  <2>1. s \in Branches /\ d \in Live \ reopened /\ s \in Live \ reopened
    BY DEF Live
  <2>2. CASE br'[d].mapping[s] = br[d].mapping[s]
    <3>1. br[d].frozen /\ br[s].frozen
      BY <2>1, <2>2 DEF Inv, MappingsClosed
    <3>2. br'[d].config = br[d].config /\ br'[s].config = br[s].config
      BY <1>9, <3>1
    <3> QED
      BY <2>1, <2>2, <3>2 DEF Inv, MappingsWhole
  <2>3. CASE d = b /\ MapsNow(b, s, br'[b].mapping[s])
    <3>1. br'[d].config = br[d].config /\ br'[s].config = br[s].config
      BY <1>9, <2>3 DEF MapsNow
    <3> QED
      BY <2>3, <3>1 DEF MapsNow
  <2> QED
    BY <1>6, <2>1, <2>2, <2>3
<1> QED
  BY <1>3, <1>5, <1>7, <1>10, <1>11, <1>12 DEF Inv

\* A Branch that is made is sound: its records are as its config says.
LEMMA NewBranchSound ==
  ASSUME NEW c \in Config, HasSlots(c), NEW k \in Nat
  PROVE  /\ NewBranch(c, k) \in Branch
         /\ SoundBranch(NewBranch(c, k)) /\ CompleteBranch(NewBranch(c, k), {})
         /\ \A s \in Branches : NewBranch(c, k).mapping[s] = NoMapping
<1> DEFINE x == NewBranch(c, k)
           r == NewRecord(c)
           m == IF IsHeader(c) THEN 1 ELSE k
<1>1. Sound(c.type, r) /\ Complete(c, r, {})
  BY NewRecordSound
<1>2. /\ c.type \in DetTypes /\ c.id \in [Types -> [Names -> Int]]
  BY DEF Config
<1>3. r \in AnyRecord
  BY <1>1, <1>2 DEF Sound, Record, AnyRecord
<1>4. m \in Nat
  OBVIOUS
<1>5. x = [config |-> c, mutable |-> FALSE, frozen |-> FALSE, hash |-> HashOf(c),
           records |-> [i \in 1 .. m |-> r],
           mapping |-> [s \in Branches |-> NoMapping]]
  BY DEF NewBranch
<1> HIDE DEF r, m, x
<1>6. /\ [i \in 1 .. m |-> r] \in Seq(AnyRecord)
      /\ Len([i \in 1 .. m |-> r]) = m
  BY <1>3, <1>4
<1>7. HashOf(c) \in [type : DetTypes, id : [Types -> [Names -> Int]]]
  BY <1>2 DEF HashOf
<1>8. x \in Branch
  <2>1. [s \in Branches |-> NoMapping]
          \in [Branches -> (SUBSET (Field \X Field)) \cup {NoMapping}]
    OBVIOUS
  <2> QED
    BY <1>5, <1>6, <1>7, <2>1 DEF Branch
<1>9. x # NoBranch
  BY <1>8, NoBranchAssumption
<1>10. /\ x.config = c /\ x.hash = HashOf(c) /\ Len(x.records) = m
       /\ \A i \in DOMAIN x.records : x.records[i] = r
       /\ \A s \in Branches : x.mapping[s] = NoMapping
  BY <1>5, <1>6
<1>11. IsHeader(c) => m = 1
  BY DEF m
<1>12. SoundBranch(x)
  BY <1>1, <1>8, <1>9, <1>10, <1>11 DEF SoundBranch
<1>13. CompleteBranch(x, {})
  BY <1>1, <1>10 DEF CompleteBranch
<1> QED
  BY <1>8, <1>10, <1>12, <1>13 DEF x

\* The configs tasks make branches of.
LEMMA ConfigsSound ==
  ASSUME Inv, NEW c \in Configs
  PROVE  c \in Config /\ HasSlots(c)
<1>1. CASE \E n \in BranchNames, d \in DetTypes : c = NewConfig(n, d)
  BY <1>1, NewConfigSound
<1>2. CASE \E b \in Live :
             c = Clone(br[b].config, br[b].config.name, br[b].config.type)
  <2>1. PICK b \in Live :
          c = Clone(br[b].config, br[b].config.name, br[b].config.type)
    BY <1>2
  <2>2. br[b].config \in Config /\ HasSlots(br[b].config)
    BY InvOfOne DEF SoundBranch, Branch
  <2> QED
    BY <2>1, <2>2, CloneSound
<1> QED
  BY <1>1, <1>2 DEF Configs

\* A branch that was not there or is no more leaves the others as they were.
LEMMA OthersInv ==
  ASSUME Inv, NEW b \in Branches, NEW x, br' = [br EXCEPT ![b] = x],
         x = NoBranch \/ (SoundBranch(x) /\ CompleteBranch(x, {})),
         x # NoBranch => b \notin Live,
         x # NoBranch => \A s \in Branches : x.mapping[s] = NoMapping,
         \A d \in Live \ {b} : br[d].mapping[b] = NoMapping,
         late' \in [Branches -> SUBSET Names],
         \A q \in Branches : q # b => late'[q] = late[q],
         reopened' \in SUBSET Branches,
         \A q \in Branches : q # b => (q \in reopened' <=> q \in reopened),
         mixed' \in SUBSET Branches
  PROVE  Inv'
<1>1. /\ br = [q \in Branches |-> br[q]]
      /\ br' = [q \in Branches |-> br'[q]]
      /\ br'[b] = x /\ \A q \in Branches : q # b => br'[q] = br[q]
  BY DEF Inv, TypeOK
<1>2. ASSUME NEW q \in Live'
      PROVE  /\ q \in Branches
             /\ q = b => x # NoBranch
             /\ q # b => q \in Live /\ br'[q] = br[q] /\ late'[q] = late[q]
                         /\ (q \in reopened' <=> q \in reopened)
  BY <1>1, <1>2 DEF Live
<1>3. ASSUME NEW q \in Live'
      PROVE  SoundBranch(br'[q]) /\ CompleteBranch(br'[q], late'[q])
  <2>1. CASE q = b
    <3>1. CompleteBranch(x, late'[b])
      BY <1>2, <2>1 DEF CompleteBranch, Complete
    <3> QED
      BY <1>1, <1>2, <2>1, <3>1
  <2>2. CASE q # b
    BY <1>2, <2>2, InvOfOne
  <2> QED
    BY <2>1, <2>2
<1>4. TypeOK' /\ ConfigsHashed' /\ RecordsComplete'
  <2>1. AllSound'
    BY <1>1, <1>3 DEF AllSound
  <2> QED
    BY <2>1, AllSoundNextOK
<1>5. ASSUME NEW d \in Live', NEW s \in Branches, br'[d].mapping[s] # NoMapping
      PROVE  /\ d # b /\ s # b /\ d \in Live /\ s \in Live /\ s \in Live'
             /\ br'[d] = br[d] /\ br'[s] = br[s]
  <2>1. d # b
    BY <1>1, <1>2, <1>5
  <2>2. d \in Live /\ br'[d] = br[d]
    BY <1>2, <2>1
  <2>3. s # b
    BY <1>5, <2>1, <2>2
  <2>4. s \in Live
    BY <1>5, <2>2 DEF Inv, MappingsOfLive
  <2> QED
    BY <1>1, <2>1, <2>2, <2>3, <2>4 DEF Live
<1>6. \A s \in Live' : s \in Branches
  BY <1>2
<1>7. MappingsOfLive'
  BY <1>5 DEF MappingsOfLive
<1>8. MappingsCurrent'
  BY <1>5, <1>6 DEF Inv, MappingsCurrent
<1>9. MappingsClosed'
  <2> SUFFICES ASSUME NEW d \in Live', NEW s \in Live', br'[d].mapping[s] # NoMapping,
                      NEW q \in {d, s}
               PROVE  br'[q].frozen \/ q \in reopened'
    BY DEF MappingsClosed
  <2>1. /\ d \in Live /\ s \in Live /\ br'[d] = br[d] /\ br'[s] = br[s]
        /\ d # b /\ s # b
    BY <1>5, <1>6
  <2>2. br[q].frozen \/ q \in reopened
    BY <2>1 DEF Inv, MappingsClosed
  <2> QED
    BY <1>2, <2>1, <2>2
<1>10. MappingsWhole'
  <2> SUFFICES ASSUME NEW d \in Live' \ reopened', NEW s \in Live' \ reopened',
                      br'[d].mapping[s] # NoMapping
               PROVE  \E p \in Prefixes :
                        br'[d].mapping[s] = Pairs(br'[s].config, br'[d].config, p)
    BY DEF MappingsWhole
  <2>1. /\ d \in Live /\ s \in Live /\ br'[d] = br[d] /\ br'[s] = br[s]
        /\ d # b /\ s # b
    BY <1>5, <1>6
  <2>2. d \notin reopened /\ s \notin reopened
    BY <1>2, <2>1
  <2> QED
    BY <2>1, <2>2 DEF Inv, MappingsWhole
<1> QED
  BY <1>4, <1>7, <1>8, <1>9, <1>10 DEF Inv

\* The fields of a Branch, and what makes one sound.
LEMMA BranchParts ==
  ASSUME NEW y, SoundBranch(y)
  PROVE  /\ y = [config |-> y.config, mutable |-> y.mutable, frozen |-> y.frozen,
                 hash |-> y.hash, records |-> y.records, mapping |-> y.mapping]
         /\ y.config \in Config /\ y.config.type \in DetTypes
         /\ y.mutable \in BOOLEAN /\ y.frozen \in BOOLEAN
         /\ HasSlots(y.config) /\ y.hash = HashOf(y.config)
         /\ y.records \in Seq(AnyRecord)
         /\ IsHeader(y.config) => Len(y.records) = 1
         /\ \A i \in DOMAIN y.records : Sound(y.config.type, y.records[i])
         /\ y.mapping \in [Branches -> (SUBSET (Field \X Field)) \cup {NoMapping}]
BY DEF SoundBranch, Branch, Config

\* A sound record is a record of one of the types.
LEMMA SoundTyped ==
  ASSUME NEW d \in DetTypes, NEW r, Sound(d, r)
  PROVE  r \in AnyRecord
BY DEF Sound, Record, AnyRecord

LEMMA PartsSound ==
  ASSUME NEW x,
         x = [config |-> x.config, mutable |-> x.mutable, frozen |-> x.frozen,
              hash |-> x.hash, records |-> x.records, mapping |-> x.mapping],
         x.config \in Config, HasSlots(x.config), x.hash = HashOf(x.config),
         x.mutable \in BOOLEAN, x.frozen \in BOOLEAN,
         x.records \in Seq(AnyRecord),
         IsHeader(x.config) => Len(x.records) = 1,
         \A i \in DOMAIN x.records : Sound(x.config.type, x.records[i]),
         x.mapping \in [Branches -> (SUBSET (Field \X Field)) \cup {NoMapping}]
  PROVE  SoundBranch(x)
<1>1. x.config.type \in DetTypes /\ x.config.id \in [Types -> [Names -> Int]]
  BY DEF Config
<1>2. x.hash \in [type : DetTypes, id : [Types -> [Names -> Int]]]
  BY <1>1 DEF HashOf
<1>3. x \in Branch
  BY <1>2 DEF Branch
<1> QED
  BY <1>3, NoBranchAssumption DEF SoundBranch

\* Construct: a Branch is made where there is none.
LEMMA ConstructInv ==
  ASSUME Inv, NEW b \in Branches, NEW c \in Configs, NEW k \in 0 .. 1,
         Construct(b, c, k)
  PROVE  Inv'
<1> DEFINE x == NewBranch(c, k)
<1>1. /\ b \notin Live /\ br' = [br EXCEPT ![b] = x]
      /\ late' = late /\ reopened' = reopened /\ mixed' = mixed
  BY DEF Construct
<1>2. /\ SoundBranch(x) /\ CompleteBranch(x, {})
      /\ \A s \in Branches : x.mapping[s] = NoMapping
  BY ConfigsSound, NewBranchSound
<1>3. \A d \in Live \ {b} : br[d].mapping[b] = NoMapping
  BY <1>1 DEF Inv, MappingsOfLive
<1>4. /\ late \in [Branches -> SUBSET Names] /\ reopened \in SUBSET Branches
      /\ mixed \in SUBSET Branches
  BY DEF Inv, TypeOK
<1> HIDE DEF x
<1> QED
  BY <1>1, <1>2, <1>3, <1>4, OthersInv

\* Destroy: nothing maps from the branch that goes.
LEMMA DestroyInv ==
  ASSUME Inv, NEW b \in Live, Destroy(b)
  PROVE  Inv'
<1>1. /\ \A d \in Live \ {b} : br[d].mapping[b] = NoMapping
      /\ br' = [br EXCEPT ![b] = NoBranch]
      /\ late' = [late EXCEPT ![b] = {}] /\ reopened' = reopened \ {b}
      /\ mixed' = mixed \ {b}
  BY DEF Destroy
<1>2. /\ late \in [Branches -> SUBSET Names] /\ reopened \in SUBSET Branches
      /\ mixed \in SUBSET Branches
  BY DEF Inv, TypeOK
<1>3. /\ late' \in [Branches -> SUBSET Names] /\ reopened' \in SUBSET Branches
      /\ mixed' \in SUBSET Branches
      /\ \A q \in Branches : q # b => late'[q] = late[q]
      /\ \A q \in Branches : q # b => (q \in reopened' <=> q \in reopened)
  BY <1>1, <1>2
<1>4. b \in Branches
  BY DEF Live
<1> DEFINE x == NoBranch
<1>5. x = NoBranch
  OBVIOUS
<1>6. br' = [br EXCEPT ![b] = x]
  BY <1>1
<1> HIDE DEF x
<1> QED
  BY <1>1, <1>3, <1>4, <1>5, <1>6, OthersInv

\* The facts the actions below share: the branch is sound, late is unchanged.
LEMMA LiveFacts ==
  ASSUME Inv, NEW b \in Live
  PROVE  /\ b \in Branches /\ SoundBranch(br[b]) /\ CompleteBranch(br[b], late[b])
         /\ late \in [Branches -> SUBSET Names] /\ reopened \in SUBSET Branches
         /\ mixed \in SUBSET Branches
BY InvOfOne DEF Inv, TypeOK

LEMMA SetMutableInv ==
  ASSUME Inv, NEW b \in Live, NEW is \in MutableArgs, SetMutable(b, is)
  PROVE  Inv' /\ Live' = Live
<1> DEFINE y == br[b]
           x == [y EXCEPT !.mutable = is]
<1>1. br' = [br EXCEPT ![b] = x] /\ late' = late /\ reopened' = reopened /\ mixed' = mixed
  BY DEF SetMutable
<1>2. /\ SoundBranch(y) /\ CompleteBranch(y, late[b])
      /\ late \in [Branches -> SUBSET Names] /\ mixed \in SUBSET Branches
  BY LiveFacts
<1>3. is \in BOOLEAN
  BY BranchAssumption
<1>4. /\ x = [config |-> y.config, mutable |-> is, frozen |-> y.frozen,
              hash |-> y.hash, records |-> y.records, mapping |-> y.mapping]
      /\ x.config = y.config /\ x.mutable = is /\ x.frozen = y.frozen
      /\ x.hash = y.hash /\ x.records = y.records /\ x.mapping = y.mapping
  BY <1>2, BranchParts
<1> HIDE DEF x
<1>5. SoundBranch(x)
  BY <1>2, <1>3, <1>4, BranchParts, PartsSound
<1>6. CompleteBranch(x, late'[b])
  BY <1>1, <1>2, <1>4 DEF CompleteBranch
<1> QED
  BY <1>1, <1>2, <1>4, <1>5, <1>6, ChangeInv

LEMMA FreezeInv ==
  ASSUME Inv, NEW b \in Live, NEW is \in BOOLEAN, Freeze(b, is)
  PROVE  Inv' /\ Live' = Live
<1> DEFINE y == br[b]
           x == [y EXCEPT !.frozen = is]
<1>1. /\ br' = [br EXCEPT ![b] = x] /\ late' = late /\ mixed' = mixed
      /\ reopened' = IF y.frozen /\ ~is THEN reopened \cup {b} ELSE reopened
  BY DEF Freeze
<1>2. /\ SoundBranch(y) /\ CompleteBranch(y, late[b])
      /\ late \in [Branches -> SUBSET Names] /\ mixed \in SUBSET Branches
  BY LiveFacts
<1>3. /\ x = [config |-> y.config, mutable |-> y.mutable, frozen |-> is,
              hash |-> y.hash, records |-> y.records, mapping |-> y.mapping]
      /\ x.config = y.config /\ x.mutable = y.mutable /\ x.frozen = is
      /\ x.hash = y.hash /\ x.records = y.records /\ x.mapping = y.mapping
  BY <1>2, BranchParts
<1>4. y.frozen => is \/ b \in reopened'
  BY <1>1
<1>5. reopened \subseteq reopened' /\ reopened' \subseteq reopened \cup {b}
  BY <1>1
<1> HIDE DEF x
<1>6. SoundBranch(x)
  BY <1>2, <1>3, BranchParts, PartsSound
<1>7. CompleteBranch(x, late'[b])
  BY <1>1, <1>2, <1>3 DEF CompleteBranch
<1> QED
  BY <1>1, <1>2, <1>3, <1>4, <1>5, <1>6, <1>7, ChangeInv

\* An open branch gets a config with more fields: a header gets their slots,
\* any other record lacks them.
LEMMA DeclaresInv ==
  ASSUME Inv, NEW b \in Live, NEW c \in Config, HasSlots(c),
         NEW ns \in SUBSET Names, Extends(br[b].config, c, ns),
         MayDeclare(b), Declares(b, c, ns)
  PROVE  Inv' /\ Live' = Live
<1> DEFINE y == br[b]
           x == Extended(y, c)
           r == WithSlots(y.records[1], c.size)
           rs == IF IsHeader(c) THEN <<r>> ELSE y.records
<1>1. /\ br' = [br EXCEPT ![b] = x] /\ reopened' = reopened /\ mixed' = mixed
      /\ late' = IF y.records = <<>> \/ IsHeader(c) THEN late
                 ELSE [late EXCEPT ![b] = @ \cup ns]
  BY DEF Declares
<1>2. /\ SoundBranch(y) /\ CompleteBranch(y, late[b])
      /\ late \in [Branches -> SUBSET Names] /\ b \in Branches
      /\ mixed \in SUBSET Branches
  BY LiveFacts
<1>3. /\ c.type = y.config.type /\ ~y.frozen
      /\ \A n \in Names : HasField(y.config, n) => FieldOf(c, n) = FieldOf(y.config, n)
      /\ \A n \in Names \ ns : HasField(c, n) => HasField(y.config, n)
  BY DEF Extends, MayDeclare
<1>4. /\ y = [config |-> y.config, mutable |-> y.mutable, frozen |-> y.frozen,
              hash |-> y.hash, records |-> y.records, mapping |-> y.mapping]
      /\ c.type \in DetTypes /\ y.records \in Seq(AnyRecord)
      /\ IsHeader(c) => Len(y.records) = 1
      /\ \A i \in DOMAIN y.records : Sound(c.type, y.records[i])
  BY <1>2, <1>3, BranchParts DEF IsHeader
<1>5. x = [y EXCEPT !.config = c, !.hash = HashOf(c), !.records = rs]
  BY DEF Extended
<1> HIDE DEF x, rs
<1>6. /\ x = [config |-> c, mutable |-> y.mutable, frozen |-> y.frozen,
              hash |-> HashOf(c), records |-> rs, mapping |-> y.mapping]
      /\ x.config = c /\ x.mutable = y.mutable /\ x.frozen = y.frozen
      /\ x.hash = HashOf(c) /\ x.records = rs /\ x.mapping = y.mapping
  BY <1>4, <1>5
<1>7. late' \in [Branches -> SUBSET Names] /\ \A q \in Branches : q # b => late'[q] = late[q]
  BY <1>1, <1>2
<1>10. /\ mixed' \in SUBSET Branches
       /\ reopened \subseteq reopened' /\ reopened' \subseteq reopened \cup {b}
  BY <1>1, <1>2
<1>11. /\ br[b].frozen => x.frozen \/ b \in reopened'
       /\ \A n \in Names : HasField(br[b].config, n) =>
            FieldOf(x.config, n) = FieldOf(br[b].config, n)
       /\ x.config = br[b].config \/ ~br[b].frozen
       /\ x.mapping = br[b].mapping
  BY <1>3, <1>6
<1>12. br' = [br EXCEPT ![b] = x]
  BY <1>1
<1>8. CASE IsHeader(c)
  <2>1. Sound(c.type, r) /\ Complete(c, r, {})
    BY <1>4, <1>8, ResizedSound
  <2>2. r \in AnyRecord
    BY <1>4, <2>1, SoundTyped
  <2> HIDE DEF r
  <2>3. rs = <<r>>
    BY <1>8 DEF rs
  <2>4. rs \in Seq(AnyRecord) /\ Len(rs) = 1 /\ \A i \in DOMAIN rs : rs[i] = r
    BY <2>2, <2>3
  <2>5. SoundBranch(x)
    BY <1>2, <1>6, <2>1, <2>4, BranchParts, PartsSound
  <2>6. CompleteBranch(x, late'[b])
    BY <1>6, <2>1, <2>4 DEF CompleteBranch, Complete
  <2> QED
    BY <1>7, <1>10, <1>11, <1>12, <2>5, <2>6, ChangeInv
<1>9. CASE ~IsHeader(c)
  <2>1. rs = y.records
    BY <1>9 DEF rs
  <2>2. SoundBranch(x)
    BY <1>2, <1>4, <1>6, <1>9, <2>1, BranchParts, PartsSound
  <2>3. ASSUME NEW i \in DOMAIN rs
        PROVE  Complete(c, rs[i], late'[b])
    <3>1. late'[b] = late[b] \cup ns
      BY <1>1, <1>2, <1>4, <1>9, <2>1, <2>3
    <3>2. Complete(y.config, rs[i], late[b])
      BY <1>2, <2>1 DEF CompleteBranch
    <3> QED
      BY <1>3, <3>1, <3>2 DEF Complete
  <2>4. CompleteBranch(x, late'[b])
    BY <1>6, <2>3 DEF CompleteBranch
  <2> QED
    BY <1>7, <1>10, <1>11, <1>12, <2>2, <2>4, ChangeInv
<1> QED
  BY <1>8, <1>9

LEMMA NewVariableInv ==
  ASSUME Inv, NEW b \in Live, NEW f \in NewFields, NewVariable(b, f[1], f[2])
  PROVE  Inv' /\ Live' = Live
<1>1. f[1] \in Names /\ f[2] \in Types
  BY BranchAssumption
<1>2. br[b].config \in Config /\ HasSlots(br[b].config)
  BY LiveFacts, BranchParts
<1> DEFINE c == AddField(br[b].config, f[2], f[1])
<1>3. ~HasField(br[b].config, f[1]) /\ MayDeclare(b) /\ Declares(b, c, {f[1]})
  BY DEF NewVariable
<1>4. c \in Config /\ HasSlots(c) /\ Extends(br[b].config, c, {f[1]})
  BY <1>1, <1>2, <1>3, AddFieldSound
<1>5. {f[1]} \in SUBSET Names
  BY <1>1
<1> HIDE DEF c
<1> QED
  BY <1>3, <1>4, <1>5, DeclaresInv

LEMMA CloneVariablesInv ==
  ASSUME Inv, NEW b \in Live, NEW s \in Live, CloneVariables(b, s)
  PROVE  Inv' /\ Live' = Live
<1> DEFINE o == br[s].config
           new == UNION {Missing(br[b].config, o, t) : t \in Types}
           c == WithFieldsOf(br[b].config, o)
<1>1. /\ br[b].config \in Config /\ HasSlots(br[b].config) /\ o \in Config
  BY LiveFacts, BranchParts
<1>2. MayDeclare(b) /\ Declares(b, c, new)
  BY DEF CloneVariables
<1>3. c \in Config /\ HasSlots(c) /\ Extends(br[b].config, c, new)
  BY <1>1, WithFieldsOfSound
<1>4. new \in SUBSET Names
  BY DEF Missing, Fields
<1> HIDE DEF c, new
<1> QED
  BY <1>2, <1>3, <1>4, DeclaresInv

\* A call that changes the records of a branch, freezes it or caches a mapping.
LEMMA RecordsInv ==
  ASSUME Inv, NEW b \in Live, NEW x, br' = [br EXCEPT ![b] = x],
         x = [config |-> br[b].config, mutable |-> br[b].mutable,
              frozen |-> x.frozen, hash |-> br[b].hash,
              records |-> x.records, mapping |-> x.mapping],
         x.frozen \in BOOLEAN, br[b].frozen => x.frozen,
         x.records \in Seq(AnyRecord),
         IsHeader(br[b].config) => Len(x.records) = 1,
         \A i \in DOMAIN x.records : /\ Sound(br[b].config.type, x.records[i])
                                     /\ Complete(br[b].config, x.records[i], late'[b]),
         x.mapping \in [Branches -> (SUBSET (Field \X Field)) \cup {NoMapping}],
         \A s \in Branches : x.mapping[s] # NoMapping =>
           x.mapping[s] = br[b].mapping[s] \/ MapsNow(b, s, x.mapping[s]),
         late' \in [Branches -> SUBSET Names],
         \A q \in Branches : q # b => late'[q] = late[q],
         reopened' = reopened, mixed' \in SUBSET Branches
  PROVE  Inv' /\ Live' = Live
<1>1. /\ x.config = br[b].config /\ x.mutable = br[b].mutable /\ x.hash = br[b].hash
  OBVIOUS
<1>2. SoundBranch(br[b])
  BY LiveFacts
<1>3. SoundBranch(x)
  <2>1. x = [config |-> x.config, mutable |-> x.mutable, frozen |-> x.frozen,
             hash |-> x.hash, records |-> x.records, mapping |-> x.mapping]
    BY <1>1
  <2>2. /\ x.config \in Config /\ HasSlots(x.config) /\ x.hash = HashOf(x.config)
        /\ x.mutable \in BOOLEAN
    BY <1>1, <1>2, BranchParts
  <2>3. /\ IsHeader(x.config) => Len(x.records) = 1
        /\ \A i \in DOMAIN x.records : Sound(x.config.type, x.records[i])
    BY <1>1
  <2> QED
    BY <2>1, <2>2, <2>3, PartsSound
<1>4. CompleteBranch(x, late'[b])
  BY <1>1 DEF CompleteBranch
<1> QED
  BY <1>1, <1>3, <1>4, ChangeInv

\* One record of a sequence is replaced.
LEMMA Replaced ==
  ASSUME NEW rs \in Seq(AnyRecord), NEW i \in DOMAIN rs, NEW r \in AnyRecord
  PROVE  /\ [rs EXCEPT ![i] = r] \in Seq(AnyRecord)
         /\ Len([rs EXCEPT ![i] = r]) = Len(rs)
         /\ DOMAIN [rs EXCEPT ![i] = r] = DOMAIN rs
         /\ \A j \in DOMAIN rs :
              [rs EXCEPT ![i] = r][j] = IF j = i THEN r ELSE rs[j]
OBVIOUS

\* What the calls that replace one record need of the new one.
LEMMA OneRecordInv ==
  ASSUME Inv, NEW b \in Live, NEW i \in Records(b), NEW r, NEW m,
         NEW rs, rs = [br[b].records EXCEPT ![i] = r], NEW x,
         br' = [br EXCEPT ![b] = x],
         x = [config |-> br[b].config, mutable |-> br[b].mutable,
              frozen |-> x.frozen, hash |-> br[b].hash,
              records |-> x.records, mapping |-> x.mapping],
         x.frozen = br[b].frozen, x.records = rs, x.mapping = m,
         Sound(br[b].config.type, r), Complete(br[b].config, r, late'[b]),
         late' \in [Branches -> SUBSET Names],
         \A q \in Branches : q # b => late'[q] = late[q],
         late[b] \subseteq late'[b],
         m \in [Branches -> (SUBSET (Field \X Field)) \cup {NoMapping}],
         \A s \in Branches : m[s] # NoMapping =>
           m[s] = br[b].mapping[s] \/ MapsNow(b, s, m[s]),
         reopened' = reopened, mixed' \in SUBSET Branches
  PROVE  Inv' /\ Live' = Live
<1> DEFINE y == br[b]
<1>1. SoundBranch(y) /\ CompleteBranch(y, late[b])
  BY LiveFacts
<1>2. /\ y.config \in Config /\ y.config.type \in DetTypes /\ y.frozen \in BOOLEAN
      /\ y.records \in Seq(AnyRecord)
      /\ IsHeader(y.config) => Len(y.records) = 1
      /\ \A j \in DOMAIN y.records : Sound(y.config.type, y.records[j])
  BY <1>1, BranchParts
<1>3. r \in AnyRecord /\ i \in DOMAIN y.records
  BY <1>2, SoundTyped DEF Records
<1>4. /\ rs \in Seq(AnyRecord) /\ Len(rs) = Len(y.records)
      /\ DOMAIN rs = DOMAIN y.records
      /\ \A j \in DOMAIN rs : rs[j] = IF j = i THEN r ELSE y.records[j]
  BY <1>2, <1>3, Replaced
<1>5. ASSUME NEW j \in DOMAIN x.records
      PROVE  /\ Sound(y.config.type, x.records[j])
             /\ Complete(y.config, x.records[j], late'[b])
  <2>1. CASE j = i
    BY <1>4, <2>1
  <2>2. CASE j # i
    <3>1. x.records[j] = y.records[j] /\ j \in DOMAIN y.records
      BY <1>4, <2>2
    <3>2. Complete(y.config, y.records[j], late[b])
      BY <1>1, <3>1 DEF CompleteBranch
    <3> QED
      BY <1>2, <3>1, <3>2 DEF Complete
  <2> QED
    BY <2>1, <2>2
<1> QED
  BY <1>2, <1>4, <1>5, RecordsInv

\* NewChannel: the new record has the slots of all fields there are.
LEMMA NewChannelInv ==
  ASSUME Inv, NEW b \in Live, NewChannel(b)
  PROVE  Inv' /\ Live' = Live
<1> DEFINE y == br[b]
           r == NewRecord(y.config)
           rs == Append(y.records, r)
           x == [y EXCEPT !.records = rs, !.frozen = TRUE]
<1>1. /\ SoundBranch(y) /\ CompleteBranch(y, late[b])
      /\ late \in [Branches -> SUBSET Names] /\ b \in Branches
      /\ mixed \in SUBSET Branches
  BY LiveFacts
<1>2. /\ y = [config |-> y.config, mutable |-> y.mutable, frozen |-> y.frozen,
              hash |-> y.hash, records |-> y.records, mapping |-> y.mapping]
      /\ y.config \in Config /\ y.config.type \in DetTypes /\ HasSlots(y.config)
      /\ y.records \in Seq(AnyRecord)
      /\ \A j \in DOMAIN y.records : Sound(y.config.type, y.records[j])
      /\ y.mapping \in [Branches -> (SUBSET (Field \X Field)) \cup {NoMapping}]
  BY <1>1, BranchParts
<1>3. Sound(y.config.type, r) /\ Complete(y.config, r, {})
  BY <1>2, NewRecordSound
<1>4. r \in AnyRecord
  BY <1>2, <1>3, SoundTyped
<1>5. /\ ~IsHeader(y.config)
      /\ br' = [br EXCEPT ![b] = x] /\ late' = late /\ reopened' = reopened /\ mixed' = mixed
  BY DEF NewChannel
<1> HIDE DEF r
<1>6. /\ rs \in Seq(AnyRecord)
      /\ \A j \in DOMAIN rs :
           rs[j] = r \/ (j \in DOMAIN y.records /\ rs[j] = y.records[j])
  BY <1>2, <1>4
<1> HIDE DEF rs, x
<1>7. /\ x = [config |-> y.config, mutable |-> y.mutable, frozen |-> x.frozen,
              hash |-> y.hash, records |-> x.records, mapping |-> x.mapping]
      /\ x.frozen = TRUE /\ x.records = rs /\ x.mapping = y.mapping
  <2>1. x = [y EXCEPT !.records = rs, !.frozen = TRUE]
    BY DEF x
  <2>2. x = [config |-> y.config, mutable |-> y.mutable, frozen |-> TRUE,
             hash |-> y.hash, records |-> rs, mapping |-> y.mapping]
    BY <1>2, <2>1
  <2> QED
    BY <2>2
<1>8. ASSUME NEW j \in DOMAIN x.records
      PROVE  /\ Sound(y.config.type, x.records[j])
             /\ Complete(y.config, x.records[j], late'[b])
  <2>1. CASE x.records[j] = r
    BY <1>3, <2>1 DEF Complete
  <2>2. CASE j \in DOMAIN y.records /\ x.records[j] = y.records[j]
    BY <1>1, <1>2, <1>5, <2>2 DEF CompleteBranch
  <2> QED
    BY <1>6, <1>7, <2>1, <2>2
<1> QED
  BY <1>1, <1>2, <1>5, <1>6, <1>7, <1>8, RecordsInv

LEMMA ClearChannelsInv ==
  ASSUME Inv, NEW b \in Live, ClearChannels(b)
  PROVE  Inv' /\ Live' = Live
<1> DEFINE y == br[b]
           x == [y EXCEPT !.records = <<>>]
<1>1. late \in [Branches -> SUBSET Names] /\ b \in Branches /\ mixed \in SUBSET Branches
  BY LiveFacts
<1>2. /\ y = [config |-> y.config, mutable |-> y.mutable, frozen |-> y.frozen,
              hash |-> y.hash, records |-> y.records, mapping |-> y.mapping]
      /\ y.frozen \in BOOLEAN
      /\ y.mapping \in [Branches -> (SUBSET (Field \X Field)) \cup {NoMapping}]
  BY LiveFacts, BranchParts
<1>3. /\ ~IsHeader(y.config)
      /\ br' = [br EXCEPT ![b] = x] /\ late' = [late EXCEPT ![b] = {}]
      /\ reopened' = reopened /\ mixed' = mixed \ {b}
  BY DEF ClearChannels
<1> HIDE DEF x
<1>4. /\ x = [config |-> y.config, mutable |-> y.mutable, frozen |-> x.frozen,
              hash |-> y.hash, records |-> x.records, mapping |-> x.mapping]
      /\ x.frozen = y.frozen /\ x.records = <<>> /\ x.mapping = y.mapping
  BY <1>2 DEF x
<1>5. x.records \in Seq(AnyRecord) /\ DOMAIN x.records = {}
  <2>1. <<>> \in Seq(AnyRecord)
    OBVIOUS
  <2> QED
    BY <1>4, <2>1
<1>6. /\ late' \in [Branches -> SUBSET Names] /\ mixed' \in SUBSET Branches
      /\ \A q \in Branches : q # b => late'[q] = late[q]
  BY <1>1, <1>3
<1> QED
  BY <1>2, <1>3, <1>4, <1>5, <1>6, RecordsInv

\* As many slots hold the same fields.
LEMMA SameSlots ==
  ASSUME NEW c \in Config, NEW ns, NEW r, Complete(c, r, ns), NEW w,
         \A t \in Types : Len(w.slots[t]) = Len(r.slots[t])
  PROVE  Complete(c, w, ns)
<1> SUFFICES ASSUME NEW n \in Names \ ns, HasField(c, n) PROVE Holds(w, FieldOf(c, n))
  BY DEF Complete
<1>1. FieldOf(c, n).type \in Types
  BY FieldFacts DEF Field
<1>2. Holds(r, FieldOf(c, n))
  BY DEF Complete
<1> QED
  BY <1>1, <1>2 DEF Holds

\* A record replaced where no mapping is stored.
LEMMA RecordAloneInv ==
  ASSUME Inv, NEW b \in Live, NEW i \in Records(b), NEW r,
         NEW rs, rs = [br[b].records EXCEPT ![i] = r], NEW x,
         br' = [br EXCEPT ![b] = x], x = [br[b] EXCEPT !.records = rs],
         Sound(br[b].config.type, r), Complete(br[b].config, r, late'[b]),
         late' \in [Branches -> SUBSET Names],
         \A q \in Branches : q # b => late'[q] = late[q],
         late[b] \subseteq late'[b],
         reopened' = reopened, mixed' \in SUBSET Branches
  PROVE  Inv' /\ Live' = Live
<1> DEFINE y == br[b]
           m == y.mapping
<1>1. /\ m \in [Branches -> (SUBSET (Field \X Field)) \cup {NoMapping}]
      /\ \A s \in Branches : m[s] = br[b].mapping[s]
  BY LiveFacts, BranchParts
<1>2. x = [config |-> y.config, mutable |-> y.mutable, frozen |-> y.frozen,
           hash |-> y.hash, records |-> rs, mapping |-> y.mapping]
  <2>1. y = [config |-> y.config, mutable |-> y.mutable, frozen |-> y.frozen,
             hash |-> y.hash, records |-> y.records, mapping |-> y.mapping]
    BY LiveFacts, BranchParts
  <2> QED
    BY <2>1
<1>3. /\ x = [config |-> y.config, mutable |-> y.mutable, frozen |-> x.frozen,
              hash |-> y.hash, records |-> x.records, mapping |-> x.mapping]
      /\ x.frozen = y.frozen /\ x.records = rs /\ x.mapping = m
  BY <1>2
<1> HIDE DEF m
<1> QED
  BY <1>1, <1>3, OneRecordInv

LEMMA SetValueInv ==
  ASSUME Inv, NEW b \in Live, NEW i \in Records(b), NEW n \in UserNames,
         NEW v \in Inputs, SetValue(b, i, n, v)
  PROVE  Inv' /\ Live' = Live
<1> DEFINE c == br[b].config
           f == FieldOf(c, n)
           q == br[b].records[i]
           r == Written(q, {f}, [g \in {f} |-> v])
<1>1. /\ SoundBranch(br[b]) /\ CompleteBranch(br[b], late[b])
      /\ late \in [Branches -> SUBSET Names] /\ mixed \in SUBSET Branches
  BY LiveFacts
<1>2. /\ c \in Config /\ Sound(c.type, q) /\ Complete(c, q, late[b])
  BY <1>1, BranchParts DEF Records, CompleteBranch
<1>3. n \in Names /\ v \in Values
  BY BranchAssumption DEF UserNames
<1> DEFINE rs == [br[b].records EXCEPT ![i] = r]
           x == [br[b] EXCEPT !.records = rs]
<1>4. /\ HasField(c, n) /\ br' = [br EXCEPT ![b] = x]
      /\ late' = late /\ reopened' = reopened /\ mixed' = mixed
  BY DEF SetValue
<1>5. {f} \in SUBSET Field /\ \A g \in {f} : [h \in {f} |-> v][g] \in Values
  BY <1>2, <1>3, <1>4, FieldFacts
<1> HIDE DEF f, q
<1>6. Sound(c.type, r) /\ \A t \in Types : Len(r.slots[t]) = Len(q.slots[t])
  BY <1>2, <1>5, WrittenSound
<1> HIDE DEF r
<1>7. Complete(c, r, late'[b])
  BY <1>2, <1>4, <1>6, SameSlots
<1> QED
  BY <1>1, <1>4, <1>6, <1>7, RecordAloneInv

\* The mappings of a branch after it mapped from another one.
LEMMA NextMapping ==
  ASSUME Inv, NEW d \in Live, NEW s \in Live, NEW p \in Prefixes, MayMap(d, s),
         NEW m, m = [br[d].mapping EXCEPT ![s] = MappingOf(d, s, p)]
  PROVE  /\ m \in [Branches -> (SUBSET (Field \X Field)) \cup {NoMapping}]
         /\ \A q \in Branches : m[q] # NoMapping =>
              m[q] = br[d].mapping[q] \/ MapsNow(d, q, m[q])
         /\ MappingOf(d, s, p) \in SUBSET (Field \X Field)
<1> DEFINE k == br[d].mapping
<1>1. /\ br[d].config \in Config /\ br[s].config \in Config /\ s \in Branches
      /\ k \in [Branches -> (SUBSET (Field \X Field)) \cup {NoMapping}]
  BY LiveFacts, BranchParts
<1>2. CASE k[s] # NoMapping
  <2>1. MappingOf(d, s, p) = k[s]
    BY <1>2 DEF MappingOf
  <2>2. MappingOf(d, s, p) \in SUBSET (Field \X Field)
    BY <1>1, <1>2, <2>1
  <2> HIDE DEF k
  <2>3. \A q \in Branches : m[q] = k[q]
    BY <1>1, <2>1 DEF k
  <2>4. m \in [Branches -> (SUBSET (Field \X Field)) \cup {NoMapping}]
    BY <1>1, <2>2 DEF k
  <2> QED
    BY <2>2, <2>3, <2>4 DEF k
<1>3. CASE k[s] = NoMapping
  <2>1. /\ MappingOf(d, s, p) = Pairs(br[s].config, br[d].config, p)
        /\ br[d].frozen /\ br[s].frozen
    BY <1>3 DEF MappingOf, MayMap
  <2>2. MappingOf(d, s, p) \in SUBSET (Field \X Field)
    BY <1>1, <2>1, PairsTyped
  <2>3. MapsNow(d, s, MappingOf(d, s, p))
    BY <2>1 DEF MapsNow
  <2> HIDE DEF k
  <2>4. /\ m[s] = MappingOf(d, s, p)
        /\ \A q \in Branches : q # s => m[q] = k[q]
    BY <1>1 DEF k
  <2>5. m \in [Branches -> (SUBSET (Field \X Field)) \cup {NoMapping}]
    BY <1>1, <2>2 DEF k
  <2>6. \A q \in Branches : m[q] = k[q] \/ MapsNow(d, q, m[q])
    BY <2>3, <2>4
  <2> QED
    BY <2>2, <2>5, <2>6 DEF k
<1> QED
  BY <1>2, <1>3

LEMMA CreateMappingInv ==
  ASSUME Inv, NEW d \in Live, NEW s \in Live, NEW p \in Prefixes,
         CreateMapping(d, s, p)
  PROVE  Inv' /\ Live' = Live
<1> DEFINE y == br[d]
           m == [y.mapping EXCEPT ![s] = MappingOf(d, s, p)]
           x == [y EXCEPT !.mapping = m]
<1>1. /\ late \in [Branches -> SUBSET Names] /\ CompleteBranch(y, late[d])
      /\ mixed \in SUBSET Branches
  BY LiveFacts
<1>2. /\ y = [config |-> y.config, mutable |-> y.mutable, frozen |-> y.frozen,
              hash |-> y.hash, records |-> y.records, mapping |-> y.mapping]
      /\ y.frozen \in BOOLEAN /\ y.records \in Seq(AnyRecord)
      /\ IsHeader(y.config) => Len(y.records) = 1
      /\ \A i \in DOMAIN y.records : Sound(y.config.type, y.records[i])
  BY LiveFacts, BranchParts
<1>3. MayMap(d, s) /\ late' = late /\ reopened' = reopened /\ mixed' = mixed
  BY DEF CreateMapping
<1>4. br' = [br EXCEPT ![d] = x]
  BY DEF CreateMapping
<1>5. /\ m \in [Branches -> (SUBSET (Field \X Field)) \cup {NoMapping}]
      /\ \A q \in Branches : m[q] # NoMapping =>
           m[q] = y.mapping[q] \/ MapsNow(d, q, m[q])
  BY <1>3, NextMapping
<1> HIDE DEF x, m
<1>6. /\ x = [config |-> y.config, mutable |-> y.mutable, frozen |-> x.frozen,
              hash |-> y.hash, records |-> x.records, mapping |-> x.mapping]
      /\ x.frozen = y.frozen /\ x.records = y.records /\ x.mapping = m
  BY <1>2 DEF x
<1>7. \A i \in DOMAIN x.records : /\ Sound(y.config.type, x.records[i])
                                  /\ Complete(y.config, x.records[i], late'[d])
  BY <1>1, <1>2, <1>3, <1>6 DEF CompleteBranch
<1> QED
  BY <1>1, <1>2, <1>3, <1>4, <1>5, <1>6, <1>7, RecordsInv

LEMMA CopyContentInv ==
  ASSUME Inv, NEW d \in Live, NEW s \in Live, NEW p \in Prefixes,
         NEW i \in Records(d), NEW j \in Records(s), CopyContent(d, i, s, j, p)
  PROVE  Inv' /\ Live' = Live
<1> DEFINE y == br[d]
           pairs == MappingOf(d, s, p)
           m == [y.mapping EXCEPT ![s] = pairs]
           r == Copied(y.records[i], br[s].records[j], pairs)
<1>1. /\ late \in [Branches -> SUBSET Names] /\ CompleteBranch(y, late[d])
      /\ mixed \in SUBSET Branches
  BY LiveFacts
<1>2. /\ y.config \in Config
      /\ Sound(y.config.type, y.records[i])
      /\ Sound(br[s].config.type, br[s].records[j])
  BY LiveFacts, BranchParts DEF Records
<1>3. MayMap(d, s) /\ late' = late /\ reopened' = reopened /\ mixed' = mixed
  BY DEF CopyContent
<1>4. br' = [br EXCEPT ![d].mapping[s] = pairs, ![d].records[i] = r]
  BY DEF CopyContent
<1>5. /\ m \in [Branches -> (SUBSET (Field \X Field)) \cup {NoMapping}]
      /\ \A q \in Branches : m[q] # NoMapping =>
           m[q] = y.mapping[q] \/ MapsNow(d, q, m[q])
      /\ pairs \in SUBSET (Field \X Field)
  BY <1>3, NextMapping
<1>6. Complete(y.config, y.records[i], late[d])
  BY <1>1 DEF CompleteBranch, Records
<1> HIDE DEF pairs
<1>7. /\ Sound(y.config.type, r)
      /\ \A t \in Types : Len(r.slots[t]) = Len(y.records[i].slots[t])
  BY <1>2, <1>5, CopiedSound
<1> HIDE DEF r
<1>8. Complete(y.config, r, late'[d])
  BY <1>2, <1>3, <1>6, <1>7, SameSlots
<1> DEFINE rs == [y.records EXCEPT ![i] = r]
           x == [y EXCEPT !.mapping = m, !.records = rs]
<1>9. br' = [br EXCEPT ![d] = x] /\ rs = [y.records EXCEPT ![i] = r]
  BY <1>4
<1> HIDE DEF m, rs, x
<1>10. /\ x = [config |-> y.config, mutable |-> y.mutable, frozen |-> x.frozen,
               hash |-> y.hash, records |-> x.records, mapping |-> x.mapping]
       /\ x.frozen = y.frozen /\ x.records = rs /\ x.mapping = m
  <2>1. y = [config |-> y.config, mutable |-> y.mutable, frozen |-> y.frozen,
             hash |-> y.hash, records |-> y.records, mapping |-> y.mapping]
    BY LiveFacts, BranchParts
  <2>2. x = [y EXCEPT !.mapping = m, !.records = rs]
    BY DEF x
  <2>3. x = [config |-> y.config, mutable |-> y.mutable, frozen |-> y.frozen,
             hash |-> y.hash, records |-> rs, mapping |-> m]
    BY <2>1, <2>2
  <2> QED
    BY <2>3
<1> QED
  BY <1>1, <1>3, <1>5, <1>7, <1>8, <1>9, <1>10, OneRecordInv

\* Branches of one hash have the same fields, so what holds the fields of one
\* holds those of the other.
LEMMA SameHash ==
  ASSUME NEW c \in Config, NEW e \in Config, HashOf(c) = HashOf(e),
         NEW r, NEW ns, Complete(c, r, ns)
  PROVE  Complete(e, r, ns)
<1>1. c.id = e.id
  BY DEF HashOf
<1>2. \A n \in Names : FieldOf(e, n) = FieldOf(c, n) /\ (HasField(e, n) <=> HasField(c, n))
  BY <1>1, SameIds
<1> QED
  BY <1>2 DEF Complete

LEMMA CopyContentsRawInv ==
  ASSUME Inv, NEW d \in Live, NEW s \in Live, CopyContentsRaw(d, s)
  PROVE  Inv' /\ Live' = Live
<1> DEFINE y == br[d]
           x == [y EXCEPT !.records = RawCopy(d, s)]
<1>1. /\ late \in [Branches -> SUBSET Names] /\ d \in Branches /\ s \in Branches
      /\ mixed \in SUBSET Branches
      /\ CompleteBranch(y, late[d]) /\ CompleteBranch(br[s], late[s])
  BY LiveFacts
<1>2. /\ y = [config |-> y.config, mutable |-> y.mutable, frozen |-> y.frozen,
              hash |-> y.hash, records |-> y.records, mapping |-> y.mapping]
      /\ y.config \in Config /\ y.hash = HashOf(y.config)
      /\ y.frozen \in BOOLEAN /\ y.records \in Seq(AnyRecord)
      /\ IsHeader(y.config) => Len(y.records) = 1
      /\ \A i \in DOMAIN y.records : Sound(y.config.type, y.records[i])
      /\ y.mapping \in [Branches -> (SUBSET (Field \X Field)) \cup {NoMapping}]
  BY LiveFacts, BranchParts
<1>3. /\ br[s].config \in Config /\ br[s].hash = HashOf(br[s].config)
      /\ br[s].records \in Seq(AnyRecord)
      /\ IsHeader(br[s].config) => Len(br[s].records) = 1
      /\ \A i \in DOMAIN br[s].records : Sound(br[s].config.type, br[s].records[i])
  BY LiveFacts, BranchParts
<1>4. /\ y.hash = br[s].hash /\ y.config.type = br[s].config.type
      /\ br' = [br EXCEPT ![d] = x] /\ reopened' = reopened
      /\ late' = IF y.config.type = "kGeneric" THEN late
                 ELSE [late EXCEPT ![d] = late[s]]
      /\ mixed' \subseteq mixed \cup {d}
  BY DEF CopyContentsRaw, MayCopyRaw
<1> HIDE DEF x
<1>5. /\ x = [config |-> y.config, mutable |-> y.mutable, frozen |-> x.frozen,
              hash |-> y.hash, records |-> x.records, mapping |-> x.mapping]
      /\ x.frozen = y.frozen /\ x.records = RawCopy(d, s) /\ x.mapping = y.mapping
  BY <1>2 DEF x
<1>6. /\ late' \in [Branches -> SUBSET Names] /\ mixed' \in SUBSET Branches
      /\ \A q \in Branches : q # d => late'[q] = late[q]
  BY <1>1, <1>4
<1>7. CASE y.config.type = "kGeneric"
  <2>1. x.records = y.records /\ late' = late
    BY <1>4, <1>5, <1>7 DEF RawCopy
  <2>2. \A i \in DOMAIN x.records : /\ Sound(y.config.type, x.records[i])
                                    /\ Complete(y.config, x.records[i], late'[d])
    BY <1>1, <1>2, <2>1 DEF CompleteBranch
  <2> QED
    BY <1>2, <1>4, <1>5, <1>6, <2>1, <2>2, RecordsInv
<1>8. CASE y.config.type # "kGeneric"
  <2>1. x.records = br[s].records /\ late'[d] = late[s]
    BY <1>1, <1>4, <1>5, <1>8 DEF RawCopy
  <2>2. \A i \in DOMAIN x.records : Complete(br[s].config, x.records[i], late'[d])
    BY <1>1, <2>1 DEF CompleteBranch
  <2>3. \A i \in DOMAIN x.records : Complete(y.config, x.records[i], late'[d])
    BY <1>2, <1>3, <1>4, <2>2, SameHash
  <2>4. \A i \in DOMAIN x.records : Sound(y.config.type, x.records[i])
    BY <1>3, <1>4, <2>1
  <2>5. IsHeader(y.config) => Len(x.records) = 1
    BY <1>3, <1>4, <2>1 DEF IsHeader
  <2> QED
    BY <1>2, <1>3, <1>4, <1>5, <1>6, <2>1, <2>3, <2>4, <2>5, RecordsInv
<1> QED
  BY <1>7, <1>8

\* The members of a new record, or those of the record it is made of.
LEMMA RawMembersTyped ==
  ASSUME NEW d \in DetTypes, NEW e, NEW q, Sound(e, q)
  PROVE  /\ RawMembers(d, e, q) \in [MemberIds(d) -> Values]
         /\ d = e => RawMembers(d, e, q) = Members(d)
<1>1. /\ q.members \in [MemberIds(e) -> Values] /\ Blank \in Values
  BY BranchAssumption DEF Sound, Record, Blank
<1>2. \A j \in DOMAIN q.members : q.members[j] \in Values
  BY <1>1
<1> DEFINE same(i) == {DefaultId(e, f[1], f[2]) :
                         f \in {g \in Types \X Names : DefaultId(d, g[1], g[2]) = i}}
                      \cap DOMAIN q.members
           taken(i) == q.members[CHOOSE j \in same(i) : TRUE]
<1>3. RawMembers(d, e, q) =
        [i \in MemberIds(d) |-> IF d = "kParticle" /\ e = "kTrack" /\ same(i) # {}
                                THEN taken(i) ELSE Blank]
  BY DEF RawMembers
<1>4. ASSUME NEW i, same(i) # {} PROVE taken(i) \in Values
  <2>1. (CHOOSE j \in same(i) : TRUE) \in same(i)
    BY <1>4
  <2> QED
    BY <1>2, <2>1
<1> HIDE DEF same, taken
<1>5. d = e => RawMembers(d, e, q) = [i \in MemberIds(d) |-> Blank]
  BY <1>3
<1> QED
  BY <1>1, <1>3, <1>4, <1>5 DEF Members

LEMMA CopyContentRawInv ==
  ASSUME Inv, NEW d \in Live, NEW s \in Live,
         NEW i \in Records(d), NEW j \in Records(s), CopyContentRaw(d, i, s, j)
  PROVE  Inv' /\ Live' = Live
<1> DEFINE c == br[d].config
           q == br[s].records[j]
           ms == RawMembers(c.type, br[s].config.type, q)
           r == [slots |-> q.slots, members |-> ms]
           same == HashOf(c) = HashOf(br[s].config) /\ s \notin mixed
<1>1. /\ late \in [Branches -> SUBSET Names] /\ d \in Branches /\ s \in Branches
      /\ mixed \in SUBSET Branches
      /\ CompleteBranch(br[s], late[s])
  BY LiveFacts
<1>2. /\ c \in Config /\ c.type \in DetTypes /\ br[s].config \in Config
      /\ Sound(br[s].config.type, q)
  BY LiveFacts, BranchParts DEF Records
<1> DEFINE rs == [br[d].records EXCEPT ![i] = r]
           x == [br[d] EXCEPT !.records = rs]
<1>3. /\ br' = [br EXCEPT ![d] = x] /\ reopened' = reopened
      /\ same => late' = [late EXCEPT ![d] = @ \cup late[s]] /\ mixed' = mixed
      /\ ~same => late' = [late EXCEPT ![d] = Names] /\ mixed' = mixed \cup {d}
  BY DEF CopyContentRaw
<1>4. /\ late' \in [Branches -> SUBSET Names] /\ mixed' \in SUBSET Branches
      /\ \A b \in Branches : b # d => late'[b] = late[b]
      /\ late[d] \subseteq late'[d]
      /\ same => late[s] \subseteq late'[d]
      /\ ~same => late'[d] = Names
  <2> HIDE DEF same
  <2> QED
    BY <1>1, <1>3
<1>5. Complete(br[s].config, q, late[s])
  BY <1>1 DEF CompleteBranch, Records
<1>6. same => Complete(c, q, late'[d])
  <2>1. same => Complete(c, q, late[s])
    BY <1>2, <1>5, SameHash
  <2> QED
    BY <1>4, <2>1 DEF Complete
<1>7. ms \in [MemberIds(c.type) -> Values]
  BY <1>2, RawMembersTyped
<1> HIDE DEF q, ms, same
<1>8. r.slots = q.slots /\ \A t \in Types : Len(r.slots[t]) = Len(q.slots[t])
  OBVIOUS
<1>9. Sound(c.type, r)
  <2>1. r \in Record(c.type)
    BY <1>2, <1>7 DEF Sound, Record
  <2> HIDE DEF r
  <2> QED
    BY <1>2, <1>8, <2>1 DEF Sound
<1> HIDE DEF r
<1>10. Complete(c, r, late'[d])
  <2>1. CASE same
    BY <1>2, <1>6, <1>8, <2>1, SameSlots
  <2>2. CASE ~same
    BY <1>4, <2>2 DEF Complete
  <2> QED
    BY <2>1, <2>2
<1> QED
  BY <1>3, <1>4, <1>9, <1>10, RecordAloneInv

LEMMA StepInv == Inv /\ Next => Inv'
<1> SUFFICES ASSUME Inv, Next PROVE Inv'
  OBVIOUS
<1>1. CASE \E b \in Branches, c \in Configs, k \in 0 .. 1 : Construct(b, c, k)
  BY <1>1, ConstructInv
<1>2. ASSUME NEW b \in Live,
             \/ Destroy(b)
             \/ \E is \in MutableArgs : SetMutable(b, is)
             \/ \E is \in BOOLEAN : Freeze(b, is)
             \/ \E f \in NewFields : NewVariable(b, f[1], f[2])
             \/ \E s \in Live : CloneVariables(b, s)
             \/ NewChannel(b)
             \/ ClearChannels(b)
             \/ \E i \in Records(b), n \in UserNames, v \in Inputs :
                  SetValue(b, i, n, v)
      PROVE  Inv'
  BY <1>2, DestroyInv, SetMutableInv, FreezeInv, NewVariableInv,
     CloneVariablesInv, NewChannelInv, ClearChannelsInv, SetValueInv
<1>3. ASSUME NEW d \in Live, NEW s \in Live,
             \/ \E p \in Prefixes : CreateMapping(d, s, p)
             \/ CopyContentsRaw(d, s)
             \/ \E i \in Records(d), j \in Records(s) :
                  \/ \E p \in Prefixes : CopyContent(d, i, s, j, p)
                  \/ CopyContentRaw(d, i, s, j)
      PROVE  Inv'
  BY <1>3, CreateMappingInv, CopyContentsRawInv, CopyContentInv, CopyContentRawInv
<1> QED
  BY <1>1, <1>2, <1>3 DEF Next

LEMMA StutterInv == Inv /\ UNCHANGED vars => Inv'
BY DEF vars, Inv, TypeOK, Live, ConfigsHashed, RecordsComplete, Records,
       MappingsCurrent, MappingsOfLive, MappingsClosed, MappingsWhole

\* The inductive invariant: TypeOK and the three invariants of records and
\* mappings, with what they rest on: the hash is the config's and ids lie below
\* sizes, mappings are cached from branches that exist, and a mapped branch
\* that is open was opened again.
THEOREM Invariance == Spec => []Inv
BY InitInv, StepInv, StutterInv, PTL DEF Spec

\* Every stored value is one that its elementary type can hold, records have
\* the members of their branch's type, and an EventHeader is one record.
THEOREM TypeCorrect == Spec => []TypeOK
BY Invariance, PTL DEF Inv

\* No call ever leaves a record without the slot of a field its branch had when
\* the record was made: not CloneVariables, a resize or a raw copy of branches
\* with the same fields either.  CopyContentRaw of a branch with others may, and
\* makes all fields of the branch late.
THEOREM RecordsStayComplete == Spec => []RecordsComplete
BY Invariance, PTL DEF Inv

\* The ids and types that a cached mapping stored are those of the configs.
THEOREM MappingsStayCurrent == Spec => []MappingsCurrent
BY Invariance, PTL DEF Inv

\* A cached mapping misses no field while neither branch was opened again.
THEOREM MappingsStayWhole == Spec => []MappingsWhole
BY Invariance, PTL DEF Inv

(***************************************************************************)
(* The fields of a config: each has a slot or a member of its own.         *)
(***************************************************************************)
\* User fields have a slot each and leave none free, negative ids are those of
\* default fields, and a name is a field of one elementary type.
Tidy(c) ==
  /\ c \in Config /\ HasSlots(c)
  /\ \A t \in Types : \A m, n \in Names :
       c.id[t][m] = c.id[t][n] /\ c.id[t][m] >= 0 => m = n
  /\ \A n \in Names : \A t, u \in Types : Has(c, t, n) /\ Has(c, u, n) => t = u
  /\ \A t \in Types, n \in Names :
       c.id[t][n] >= 0 \/ c.id[t][n] = DefaultId(c.type, t, n)
  /\ \A t \in Types : \A i \in Nat :
       i < c.size[t] => \E n \in Names : c.id[t][n] = i

\* Config e has the fields of c and others with new slots.
Widened(c, e) ==
  /\ e.type = c.type
  /\ \A t \in Types : e.size[t] >= c.size[t]
  /\ \A t \in Types, n \in Names :
       \/ e.id[t][n] = c.id[t][n]
       \/ e.id[t][n] >= c.size[t] /\ ~HasField(c, n)

LEMMA NewConfigTidy ==
  ASSUME NEW b \in BranchNames, NEW d \in DetTypes
  PROVE  Tidy(NewConfig(b, d))
<1> DEFINE c == NewConfig(b, d)
<1>1. c \in Config /\ HasSlots(c)
  BY NewConfigSound
<1>2. /\ c.type = d
      /\ \A t \in Types : c.size[t] = 0
      /\ \A t \in Types, n \in Names : c.id[t][n] = DefaultId(d, t, n)
  BY DEF NewConfig
<1> HIDE DEF c
<1>3. \A t \in Types, n \in Names : ~ (c.id[t][n] >= 0)
  BY <1>2, DefaultsAssumption
<1>4. \A n \in Names : \A t, u \in Types : Has(c, t, n) /\ Has(c, u, n) => t = u
  BY <1>2, DefaultsAssumption DEF Has
<1> QED
  BY <1>1, <1>2, <1>3, <1>4 DEF Tidy, c

\* A clone of the same type is the same config.
LEMMA CloneTidy ==
  ASSUME NEW c, Tidy(c)
  PROVE  Tidy(Clone(c, c.name, c.type))
<1> DEFINE e == Clone(c, c.name, c.type)
<1>1. /\ c = [name |-> c.name, type |-> c.type, id |-> c.id, size |-> c.size]
      /\ c.id = [t \in Types |-> [n \in Names |-> c.id[t][n]]]
  BY DEF Tidy, Config
<1>2. \A t \in Types, n \in Names :
        (IF c.id[t][n] >= 0 THEN c.id[t][n] ELSE DefaultId(c.type, t, n)) = c.id[t][n]
  BY DEF Tidy
<1>3. e.id = c.id
  BY <1>1, <1>2 DEF Clone
<1>4. e = [name |-> c.name, type |-> c.type, id |-> e.id, size |-> c.size]
  BY DEF Clone
<1> HIDE DEF e
<1>5. e = c
  BY <1>1, <1>3, <1>4
<1> QED
  BY <1>5 DEF e

LEMMA AddFieldTidy ==
  ASSUME NEW c, Tidy(c), NEW t \in Types, NEW n \in Names, ~HasField(c, n)
  PROVE  Tidy(AddField(c, t, n)) /\ Widened(c, AddField(c, t, n))
<1> DEFINE e == AddField(c, t, n)
<1>1. /\ c \in Config /\ HasSlots(c) /\ e \in Config /\ HasSlots(e)
      /\ e.type = c.type
  BY AddFieldSound DEF Tidy, Extends
<1>2. /\ c.id \in [Types -> [Names -> Int]] /\ c.size \in [Types -> Nat]
      /\ DOMAIN c = {"name", "type", "id", "size"}
  BY <1>1 DEF Config
<1>3. /\ e.id = [c.id EXCEPT ![t] = [@ EXCEPT ![n] = c.size[t]]]
      /\ e.size = [c.size EXCEPT ![t] = @ + 1]
  BY <1>2 DEF AddField
<1>4. /\ \A u \in Types, m \in Names :
           e.id[u][m] = IF u = t /\ m = n THEN c.size[t] ELSE c.id[u][m]
      /\ \A u \in Types : e.size[u] = IF u = t THEN c.size[t] + 1 ELSE c.size[u]
      /\ \A u \in Types : c.size[u] \in Nat
      /\ \A u \in Types, m \in Names : c.id[u][m] \in Int /\ c.id[u][m] < c.size[u]
  BY <1>1, <1>2, <1>3 DEF HasSlots
<1>5. \A u \in Types : ~Has(c, u, n)
  BY <1>1, FieldFacts DEF Has
<1> HIDE DEF e
<1>6. \A u \in Types : \A m, k \in Names :
        e.id[u][m] = e.id[u][k] /\ e.id[u][m] >= 0 => m = k
  <2> SUFFICES ASSUME NEW u \in Types, NEW m \in Names, NEW k \in Names,
                      e.id[u][m] = e.id[u][k], e.id[u][m] >= 0
               PROVE  m = k
    OBVIOUS
  <2>1. c.id[u][m] # c.size[u] /\ c.id[u][k] # c.size[u]
    BY <1>4
  <2> QED
    BY <1>4, <2>1 DEF Tidy
<1>7. \A m \in Names : \A u, w \in Types : Has(e, u, m) /\ Has(e, w, m) => u = w
  <2> SUFFICES ASSUME NEW m \in Names, NEW u \in Types, NEW w \in Types,
                      Has(e, u, m), Has(e, w, m)
               PROVE  u = w
    OBVIOUS
  <2>1. CASE m = n
    <3>1. \A x \in Types : x # t => ~Has(e, x, m)
      BY <1>4, <1>5, <2>1 DEF Has
    <3> QED
      BY <3>1
  <2>2. CASE m # n
    BY <1>4, <2>2 DEF Tidy, Has
  <2> QED
    BY <2>1, <2>2
<1>8. \A u \in Types, m \in Names :
        e.id[u][m] >= 0 \/ e.id[u][m] = DefaultId(e.type, u, m)
  BY <1>1, <1>4 DEF Tidy
<1>9. \A u \in Types : \A i \in Nat :
        i < e.size[u] => \E m \in Names : e.id[u][m] = i
  <2> SUFFICES ASSUME NEW u \in Types, NEW i \in Nat, i < e.size[u]
               PROVE  \E m \in Names : e.id[u][m] = i
    OBVIOUS
  <2>1. CASE i < c.size[u]
    <3>1. PICK m \in Names : c.id[u][m] = i
      BY <2>1 DEF Tidy
    <3>2. m # n \/ u # t
      BY <1>5, <3>1, TypesFact DEF Has
    <3> QED
      BY <1>4, <3>1, <3>2
  <2>2. CASE ~ (i < c.size[u])
    <3>1. u = t /\ i = c.size[t]
      BY <1>4, <2>2
    <3> QED
      BY <1>4, <3>1
  <2> QED
    BY <2>1, <2>2
<1>10. Tidy(e)
  BY <1>1, <1>6, <1>7, <1>8, <1>9 DEF Tidy
<1>11. Widened(c, e)
  BY <1>1, <1>4 DEF Widened
<1> QED
  BY <1>10, <1>11 DEF e

\* The new ids count the new names in map order: a numbering of them.
CountBelow(S, n) == Cardinality({m \in S : Rank[m] < Rank[n]})

LEMMA CountBelowBounds ==
  ASSUME NEW S \in SUBSET Names
  PROVE  /\ IsFiniteSet(S) /\ Cardinality(S) \in Nat
         /\ \A n \in S : CountBelow(S, n) \in 0 .. Cardinality(S) - 1
<1>1. IsFiniteSet(S) /\ Cardinality(S) \in Nat
  BY NamesAssumption, FS_Subset, FS_CardinalityType
<1>2. ASSUME NEW n \in S
      PROVE  CountBelow(S, n) \in 0 .. Cardinality(S) - 1
  <2> DEFINE B == {m \in S : Rank[m] < Rank[n]}
  <2>1. B \subseteq S /\ n \notin B
    BY NamesAssumption
  <2>2. /\ IsFiniteSet(B) /\ Cardinality(B) <= Cardinality(S)
        /\ Cardinality(B) = Cardinality(S) => B = S
    BY <1>1, <2>1, FS_Subset
  <2>3. Cardinality(B) \in Nat /\ B # S
    BY <2>1, <2>2, FS_CardinalityType
  <2>4. CountBelow(S, n) = Cardinality(B)
    BY DEF CountBelow
  <2> HIDE DEF B
  <2> QED
    BY <1>1, <2>2, <2>3, <2>4
<1> QED
  BY <1>1, <1>2

LEMMA CountBelowInjective ==
  ASSUME NEW S \in SUBSET Names, NEW m \in S, NEW n \in S,
         CountBelow(S, m) = CountBelow(S, n)
  PROVE  m = n
<1> DEFINE Below(k) == {l \in S : Rank[l] < Rank[k]}
<1>1. \A k \in S : Rank[k] \in Nat
  BY NamesAssumption
<1>2. \A k \in S : IsFiniteSet(Below(k))
  BY NamesAssumption, FS_Subset
<1>3. ASSUME NEW k \in S, NEW l \in S, Rank[k] < Rank[l]
      PROVE  CountBelow(S, k) # CountBelow(S, l)
  <2>1. Below(k) \subseteq Below(l)
    BY <1>1, <1>3
  <2>2. k \in Below(l) /\ k \notin Below(k)
    BY <1>1, <1>3
  <2>3. Cardinality(Below(k)) # Cardinality(Below(l))
    BY <1>2, <2>1, <2>2, FS_Subset
  <2> QED
    BY <2>3 DEF CountBelow
<1>4. Rank[m] = Rank[n]
  BY <1>1, <1>3
<1> QED
  BY <1>4, NamesAssumption

LEMMA CountBelowOnto ==
  ASSUME NEW S \in SUBSET Names, NEW i \in 0 .. Cardinality(S) - 1
  PROVE  \E n \in S : CountBelow(S, n) = i
<1> DEFINE T == 0 .. Cardinality(S) - 1
           f == [n \in S |-> CountBelow(S, n)]
<1>1. IsFiniteSet(S) /\ Cardinality(S) \in Nat
  BY CountBelowBounds
<1>2. IsFiniteSet(T) /\ Cardinality(T) = Cardinality(S)
  BY <1>1, FS_Interval
<1>3. f \in Injection(S, T)
  <2>1. \A n \in S : CountBelow(S, n) \in T
    BY CountBelowBounds
  <2>2. \A m \in S, n \in S : CountBelow(S, m) = CountBelow(S, n) => m = n
    BY CountBelowInjective
  <2> HIDE DEF T
  <2> QED
    BY <2>1, <2>2 DEF Injection, IsInjective
<1> HIDE DEF T
<1>4. f \in Surjection(S, T)
  BY <1>1, <1>2, <1>3, FS_Injection
<1>5. \E n \in S : f[n] = i
  BY <1>4 DEF Surjection, T
<1> QED
  BY <1>5

\* Config e is config c with the fields fs[t] of each type, numbered from the
\* size_ on.
Numbered(c, e, fs, num, size) ==
  /\ e \in Config /\ e.type = c.type
  /\ \A t \in Types : fs[t] \in SUBSET Names /\ size[t] \in Nat
  /\ \A t \in Types : \A n \in fs[t] :
       /\ ~HasField(c, n) /\ num[t][n] \in 0 .. size[t] - 1
       /\ \A u \in Types : n \in fs[u] => u = t
  /\ \A t \in Types : \A m, n \in fs[t] : num[t][m] = num[t][n] => m = n
  /\ \A t \in Types : \A i \in 0 .. size[t] - 1 : \E n \in fs[t] : num[t][n] = i
  /\ \A t \in Types, n \in Names :
       e.id[t][n] = IF n \in fs[t] THEN c.size[t] + num[t][n] ELSE c.id[t][n]
  /\ \A t \in Types : e.size[t] = c.size[t] + size[t]

LEMMA NumberedTidy ==
  ASSUME NEW c, Tidy(c), NEW e, NEW fs, NEW num, NEW size, Numbered(c, e, fs, num, size)
  PROVE  Tidy(e) /\ Widened(c, e)
<1>1. c \in Config /\ HasSlots(c) /\ e \in Config /\ e.type = c.type
  BY DEF Tidy, Numbered
<1>2. /\ \A t \in Types : c.size[t] \in Nat
      /\ \A t \in Types, n \in Names : c.id[t][n] \in Int /\ c.id[t][n] < c.size[t]
  BY <1>1 DEF Config, HasSlots
<1>3. \A t \in Types : fs[t] \in SUBSET Names
  BY DEF Numbered
<1>4. \A t \in Types : \A n \in fs[t] :
        /\ ~HasField(c, n)
        /\ \A u \in Types : c.id[u][n] = Undef
        /\ \A u \in Types : n \in fs[u] => u = t
  <2>1. \A t \in Types : \A n \in fs[t] :
          n \in Names /\ ~HasField(c, n) /\ \A u \in Types : n \in fs[u] => u = t
    BY <1>3 DEF Numbered
  <2> QED
    BY <1>1, <2>1, FieldFacts
<1>5. /\ \A t \in Types, n \in Names :
           e.id[t][n] = IF n \in fs[t] THEN c.size[t] + num[t][n] ELSE c.id[t][n]
      /\ \A t \in Types : e.size[t] = c.size[t] + size[t]
  BY DEF Numbered
<1>6. \A t \in Types : /\ size[t] \in Nat
                       /\ \A n \in fs[t] : num[t][n] \in 0 .. size[t] - 1
                       /\ \A m, n \in fs[t] : num[t][m] = num[t][n] => m = n
                       /\ \A i \in 0 .. size[t] - 1 : \E n \in fs[t] : num[t][n] = i
  BY DEF Numbered
<1>7. \A t \in Types : \A m, n \in Names :
        e.id[t][m] = e.id[t][n] /\ e.id[t][m] >= 0 => m = n
  <2> SUFFICES ASSUME NEW t \in Types, NEW m \in Names, NEW n \in Names,
                      e.id[t][m] = e.id[t][n], e.id[t][m] >= 0
               PROVE  m = n
    OBVIOUS
  <2>1. /\ c.size[t] \in Nat /\ c.id[t][m] \in Int /\ c.id[t][n] \in Int
        /\ c.id[t][m] < c.size[t] /\ c.id[t][n] < c.size[t]
    BY <1>2
  <2>2. CASE m \in fs[t] /\ n \in fs[t]
    <3>1. num[t][m] \in Nat /\ num[t][n] \in Nat
      BY <1>6, <2>2
    <3>2. num[t][m] = num[t][n]
      BY <1>5, <2>1, <2>2, <3>1
    <3> QED
      BY <1>6, <2>2, <3>2
  <2>3. CASE m \in fs[t] /\ n \notin fs[t]
    BY <1>5, <1>6, <2>1, <2>3
  <2>4. CASE m \notin fs[t] /\ n \in fs[t]
    BY <1>5, <1>6, <2>1, <2>4
  <2>5. CASE m \notin fs[t] /\ n \notin fs[t]
    BY <1>5, <2>5 DEF Tidy
  <2> QED
    BY <2>2, <2>3, <2>4, <2>5
<1>8. \A n \in Names : \A t, u \in Types : Has(e, t, n) /\ Has(e, u, n) => t = u
  <2> SUFFICES ASSUME NEW n \in Names, NEW t \in Types, NEW u \in Types,
                      Has(e, t, n), Has(e, u, n)
               PROVE  t = u
    OBVIOUS
  <2>1. CASE \E w \in Types : n \in fs[w]
    <3>1. PICK w \in Types : n \in fs[w]
      BY <2>1
    <3>2. \A x \in Types : n \in fs[x] => x = w
      BY <1>4, <3>1 DEF Tidy
    <3>3. \A x \in Types : Has(e, x, n) => n \in fs[x]
      BY <1>4, <1>5, <3>1 DEF Has
    <3> QED
      BY <3>2, <3>3
  <2>2. CASE \A w \in Types : n \notin fs[w]
    <3>1. \A w \in Types : Has(e, w, n) => Has(c, w, n)
      BY <1>5, <2>2 DEF Has
    <3> QED
      BY <3>1 DEF Tidy
  <2> QED
    BY <2>1, <2>2
<1>9. \A t \in Types, n \in Names :
        /\ e.id[t][n] >= 0 \/ e.id[t][n] = DefaultId(e.type, t, n)
        /\ \/ e.id[t][n] = c.id[t][n]
           \/ e.id[t][n] >= c.size[t] /\ ~HasField(c, n)
  <2> SUFFICES ASSUME NEW t \in Types, NEW n \in Names
               PROVE  /\ e.id[t][n] >= 0 \/ e.id[t][n] = DefaultId(e.type, t, n)
                      /\ \/ e.id[t][n] = c.id[t][n]
                         \/ e.id[t][n] >= c.size[t] /\ ~HasField(c, n)
    OBVIOUS
  <2>1. CASE n \in fs[t]
    <3>1. e.id[t][n] = c.size[t] + num[t][n] /\ num[t][n] \in Nat
      BY <1>5, <1>6, <2>1
    <3> QED
      BY <1>2, <1>4, <2>1, <3>1
  <2>2. CASE n \notin fs[t]
    BY <1>1, <1>5, <2>2 DEF Tidy
  <2> QED
    BY <2>1, <2>2
<1>10. \A t \in Types : \A i \in Nat :
         i < e.size[t] => \E n \in Names : e.id[t][n] = i
  <2> SUFFICES ASSUME NEW t \in Types, NEW i \in Nat, i < e.size[t]
               PROVE  \E n \in Names : e.id[t][n] = i
    OBVIOUS
  <2>1. CASE i < c.size[t]
    <3>1. PICK n \in Names : c.id[t][n] = i
      BY <2>1 DEF Tidy
    <3>2. n \notin fs[t]
      BY <1>4, <3>1, TypesFact
    <3> QED
      BY <1>5, <3>1, <3>2
  <2>2. CASE ~ (i < c.size[t])
    <3>1. i - c.size[t] \in 0 .. size[t] - 1
      BY <1>2, <1>5, <1>6, <2>2
    <3>2. PICK n \in fs[t] : num[t][n] = i - c.size[t]
      BY <1>6, <3>1
    <3>3. n \in Names /\ e.id[t][n] = c.size[t] + (i - c.size[t])
      BY <1>3, <1>5, <3>2
    <3> QED
      BY <1>2, <3>3
  <2> QED
    BY <2>1, <2>2
<1>11. HasSlots(e)
  <2> SUFFICES ASSUME NEW t \in Types, NEW n \in Names
               PROVE  e.id[t][n] < e.size[t]
    BY DEF HasSlots
  <2> QED
    BY <1>2, <1>5, <1>6
<1>12. Tidy(e)
  BY <1>1, <1>11, <1>7, <1>8, <1>9, <1>10 DEF Tidy
<1>13. Widened(c, e)
  <2>1. \A t \in Types : e.size[t] >= c.size[t]
    BY <1>2, <1>5, <1>6
  <2> QED
    BY <1>1, <1>9, <2>1 DEF Widened
<1> QED
  BY <1>12, <1>13

LEMMA WithFieldsTidy ==
  ASSUME NEW c, Tidy(c), NEW fs,
         \A t \in Types : fs[t] \in SUBSET Names,
         \A t \in Types : \A n \in fs[t] :
           ~HasField(c, n) /\ \A u \in Types : n \in fs[u] => u = t
  PROVE  Tidy(WithFields(c, fs)) /\ Widened(c, WithFields(c, fs))
<1> DEFINE e == WithFields(c, fs)
           num == [t \in Types |-> [n \in fs[t] |-> CountBelow(fs[t], n)]]
           size == [t \in Types |-> Cardinality(fs[t])]
<1>1. /\ c \in Config /\ HasSlots(c) /\ e \in Config /\ e.type = c.type
      /\ DOMAIN c = {"name", "type", "id", "size"}
  BY WithFieldsSound DEF Tidy, Extends, Config
<1>2. /\ \A t \in Types, n \in Names :
           e.id[t][n] = IF n \in fs[t] THEN c.size[t] + CountBelow(fs[t], n)
                        ELSE c.id[t][n]
      /\ \A t \in Types : e.size[t] = c.size[t] + Cardinality(fs[t])
  BY <1>1 DEF WithFields, CountBelow
<1>3. \A t \in Types : size[t] = Cardinality(fs[t]) /\ \A n \in fs[t] : num[t][n] = CountBelow(fs[t], n)
  OBVIOUS
<1> HIDE DEF e, num, size
<1>4. ASSUME NEW t \in Types
      PROVE  /\ size[t] \in Nat
             /\ \A n \in fs[t] : num[t][n] \in 0 .. size[t] - 1
             /\ \A m, n \in fs[t] : num[t][m] = num[t][n] => m = n
             /\ \A i \in 0 .. size[t] - 1 : \E n \in fs[t] : num[t][n] = i
  <2>1. size[t] \in Nat /\ \A n \in fs[t] : num[t][n] \in 0 .. size[t] - 1
    BY <1>3, CountBelowBounds
  <2>2. \A m, n \in fs[t] : num[t][m] = num[t][n] => m = n
    BY <1>3, CountBelowInjective
  <2>3. \A i \in 0 .. size[t] - 1 : \E n \in fs[t] : num[t][n] = i
    BY <1>3, CountBelowOnto
  <2> QED
    BY <2>1, <2>2, <2>3
<1>5. \A t \in Types, n \in Names :
        e.id[t][n] = IF n \in fs[t] THEN c.size[t] + num[t][n] ELSE c.id[t][n]
  BY <1>2, <1>3
<1>6. \A t \in Types : e.size[t] = c.size[t] + size[t]
  BY <1>2, <1>3
<1>7. Numbered(c, e, fs, num, size)
  BY <1>1, <1>4, <1>5, <1>6 DEF Numbered
<1> QED
  BY <1>7, NumberedTidy DEF e

LEMMA WithFieldsOfTidy ==
  ASSUME NEW c, Tidy(c), NEW o, Tidy(o)
  PROVE  Tidy(WithFieldsOf(c, o)) /\ Widened(c, WithFieldsOf(c, o))
<1> DEFINE fs == [t \in Types |-> Missing(c, o, t)]
<1>1. \A t \in Types : fs[t] = Missing(c, o, t)
  OBVIOUS
<1>2. WithFieldsOf(c, o) = WithFields(c, fs)
  BY DEF WithFieldsOf
<1>3. /\ \A t \in Types : fs[t] \in SUBSET Names
      /\ \A t \in Types : \A n \in fs[t] : ~HasField(c, n)
  BY <1>1, MissingNames
<1>4. ASSUME NEW t \in Types, NEW n \in fs[t], NEW u \in Types, n \in fs[u]
      PROVE  u = t
  <2>1. n \in Names /\ Has(o, t, n) /\ Has(o, u, n)
    BY <1>1, <1>4 DEF Missing, Fields
  <2> QED
    BY <2>1 DEF Tidy
<1> HIDE DEF fs
<1> QED
  BY <1>2, <1>3, <1>4, WithFieldsTidy

(***************************************************************************)
(* The rows by the names of their fields.                                  *)
(***************************************************************************)
\* Record r holds a value of field n: not of one that only a getter computes.
Shown(c, r, n) ==
  /\ HasField(c, n) /\ Holds(r, FieldOf(c, n))
  /\ FieldOf(c, n).id < 0 => n \notin Derived

\* The one elementary type and id of a field.
LEMMA TidyField ==
  ASSUME NEW c, Tidy(c), NEW n \in Names, HasField(c, n)
  PROVE  /\ FieldOf(c, n) \in Field /\ FieldOf(c, n).name = n
         /\ FieldOf(c, n).type = GetFieldType(c, n)
         /\ FieldOf(c, n).id = c.id[GetFieldType(c, n)][n]
         /\ FieldOf(c, n).id # Undef
         /\ \A t \in Types : Has(c, t, n) <=> t = GetFieldType(c, n)
         /\ FieldOf(c, n).id < 0 =>
              FieldOf(c, n).id = DefaultId(c.type, GetFieldType(c, n), n)
<1> DEFINE f == FieldOf(c, n)
<1>1. c \in Config
  BY DEF Tidy
<1>2. f \in Field /\ f.id = c.id[f.type][n] /\ f.name = n
  BY <1>1, FieldFacts
<1>3. f.type = GetFieldType(c, n) /\ f.id = GetFieldId(c, n)
  BY DEF FieldOf
<1>4. f.id # Undef
  BY <1>3 DEF HasField
<1>5. f.type \in Types /\ f.id \in Int
  BY <1>2 DEF Field
<1> HIDE DEF f
<1>6. Has(c, f.type, n)
  BY <1>2, <1>4 DEF Has
<1>7. \A t \in Types : Has(c, t, n) <=> t = f.type
  BY <1>5, <1>6 DEF Tidy
<1>8. f.id < 0 => f.id = DefaultId(c.type, f.type, n)
  BY <1>2, <1>5 DEF Tidy
<1> QED
  BY <1>2, <1>3, <1>4, <1>7, <1>8 DEF f

\* A name with an id in one of the types is a field.
LEMMA FieldOfType ==
  ASSUME NEW c, Tidy(c), NEW n \in Names, NEW t \in Types, Has(c, t, n)
  PROVE  /\ HasField(c, n) /\ GetFieldType(c, n) = t
         /\ FieldOf(c, n).type = t /\ FieldOf(c, n).id = c.id[t][n]
<1>1. HasField(c, n)
  BY FieldFacts DEF Has, Tidy
<1> QED
  BY <1>1, TidyField

\* A default id tells the type and the name.
LEMMA OneDefault ==
  ASSUME NEW d \in DetTypes, NEW t \in Types, NEW u \in Types,
         NEW m \in Names, NEW n \in Names,
         DefaultId(d, t, m) = DefaultId(d, u, n), DefaultId(d, t, m) # Undef
  PROVE  t = u /\ m = n
BY MembersAssumption

\* Two fields of one default id are one.
LEMMA MemberOfOne ==
  ASSUME NEW c, Tidy(c), NEW m \in Names, HasField(c, m), NEW n \in Names,
         HasField(c, n), FieldOf(c, m).id = FieldOf(c, n).id, FieldOf(c, n).id < 0
  PROVE  m = n
<1>1. /\ FieldOf(c, m).id = DefaultId(c.type, GetFieldType(c, m), m)
      /\ FieldOf(c, n).id = DefaultId(c.type, GetFieldType(c, n), n)
      /\ FieldOf(c, n).id # Undef
      /\ FieldOf(c, m).type = GetFieldType(c, m) /\ FieldOf(c, m) \in Field
      /\ FieldOf(c, n).type = GetFieldType(c, n) /\ FieldOf(c, n) \in Field
  BY TidyField
<1>2. GetFieldType(c, m) \in Types /\ GetFieldType(c, n) \in Types
  BY <1>1 DEF Field
<1>3. c.type \in DetTypes
  BY DEF Tidy, Config
<1>4. DefaultId(c.type, GetFieldType(c, m), m) = DefaultId(c.type, GetFieldType(c, n), n)
  BY <1>1
<1> QED
  BY <1>1, <1>2, <1>3, <1>4, OneDefault

\* The ids with a member are those of default fields that are not computed.
LEMMA MemberField ==
  ASSUME NEW c, Tidy(c), NEW n \in Names, NEW t \in Types,
         c.id[t][n] \in MemberIds(c.type)
  PROVE  c.id[t][n] < 0 /\ Has(c, t, n) /\ n \notin Derived
<1>1. c.type \in DetTypes
  BY DEF Tidy, Config
<1>2. PICK u \in Types : \E m \in Names \ Derived :
        c.id[t][n] = DefaultId(c.type, u, m)
  BY DEF MemberIds
<1>3. PICK m \in Names \ Derived : c.id[t][n] = DefaultId(c.type, u, m)
  BY <1>2
<1>4. c.id[t][n] # Undef
  BY DEF MemberIds
<1>5. c.id[t][n] < 0 /\ c.id[t][n] \in Int
  BY <1>1, <1>3, DefaultsAssumption
<1>6. c.id[t][n] = DefaultId(c.type, t, n)
  BY <1>5 DEF Tidy
<1>7. m = n
  <2>1. DefaultId(c.type, u, m) = DefaultId(c.type, t, n)
    BY <1>3, <1>6
  <2> QED
    BY <1>1, <1>3, <1>4, <2>1, OneDefault
<1> QED
  BY <1>3, <1>4, <1>5, <1>7 DEF Has

\* A record's row has the values of the fields it holds under their names.
LEMMA RowOf ==
  ASSUME NEW c, Tidy(c), NEW r, Sound(c.type, r)
  PROVE  NamedRow(c, r) = [n \in {m \in Names : Shown(c, r, m)} |->
                             Value(r, FieldOf(c, n))]
<1>1. /\ r.slots \in [Types -> Seq(Values)] /\ DOMAIN r.members = MemberIds(c.type)
      /\ c \in Config /\ c.type \in DetTypes
  BY DEF Sound, Record, Slots, Tidy, Config
<1>2. \A t \in Types : DOMAIN r.slots[t] = 1 .. Len(r.slots[t]) /\ Len(r.slots[t]) \in Nat
  BY <1>1
<1>3. \A t \in Types, n \in Names : c.id[t][n] \in Int
  BY <1>1 DEF Config
<1>4. ASSUME NEW n \in Names, Shown(c, r, n)
      PROVE  /\ HeldAs(c, r, n) # {}
             /\ Value(r, FieldOf(c, n)) =
                  IF c.id[GetFieldType(c, n)][n] >= 0
                  THEN r.slots[GetFieldType(c, n)][c.id[GetFieldType(c, n)][n] + 1]
                  ELSE r.members[c.id[GetFieldType(c, n)][n]]
  <2> DEFINE f == FieldOf(c, n)
             t == GetFieldType(c, n)
  <2>1. /\ HasField(c, n) /\ Holds(r, f) /\ (f.id < 0 => n \notin Derived)
    BY <1>4 DEF Shown
  <2>2. /\ f.type = t /\ f.id = c.id[t][n] /\ f.id # Undef /\ f \in Field
        /\ f.id < 0 => f.id = DefaultId(c.type, t, n)
    BY <2>1, TidyField
  <2>3. t \in Types /\ f.id \in Int
    BY <2>2 DEF Field
  <2> HIDE DEF f, t
  <2>4. CASE f.id >= 0
    <3>1. f.id + 1 \in DOMAIN r.slots[t]
      BY <1>2, <2>1, <2>2, <2>3, <2>4 DEF Holds
    <3>2. t \in HeldAs(c, r, n)
      BY <2>2, <2>3, <3>1 DEF HeldAs
    <3>3. Value(r, f) = r.slots[t][f.id + 1]
      BY <2>2, <2>4 DEF Value
    <3> QED
      BY <2>2, <2>4, <3>2, <3>3 DEF f, t
  <2>5. CASE f.id < 0
    <3>1. f.id \in MemberIds(c.type)
      BY <2>1, <2>2, <2>3, <2>5 DEF MemberIds
    <3>2. t \in HeldAs(c, r, n)
      BY <1>1, <2>2, <2>3, <3>1 DEF HeldAs
    <3>3. ~ (f.id >= 0)
      BY <2>3, <2>5
    <3>4. Value(r, f) = r.members[f.id]
      BY <1>1, <3>1, <3>3 DEF Value
    <3> QED
      BY <2>2, <3>2, <3>3, <3>4 DEF f, t
  <2> QED
    BY <2>3, <2>4, <2>5
<1>5. ASSUME NEW n \in Names, HeldAs(c, r, n) # {}
      PROVE  Shown(c, r, n)
  <2>1. PICK t \in Types : \/ c.id[t][n] \in DOMAIN r.members
                           \/ c.id[t][n] + 1 \in DOMAIN r.slots[t]
    BY <1>5 DEF HeldAs
  <2>2. CASE c.id[t][n] \in DOMAIN r.members
    <3>1. c.id[t][n] < 0 /\ Has(c, t, n) /\ n \notin Derived
      BY <1>1, <2>2, MemberField
    <3>2. HasField(c, n) /\ FieldOf(c, n).id = c.id[t][n]
      BY <3>1, FieldOfType
    <3> QED
      BY <1>3, <3>1, <3>2 DEF Shown, Holds
  <2>3. CASE c.id[t][n] + 1 \in DOMAIN r.slots[t]
    <3>1. c.id[t][n] >= 0 /\ c.id[t][n] < Len(r.slots[t])
      BY <1>2, <1>3, <2>3
    <3>2. Has(c, t, n)
      BY <3>1, TypesFact DEF Has
    <3>3. /\ HasField(c, n) /\ FieldOf(c, n).id = c.id[t][n]
          /\ FieldOf(c, n).type = t
      BY <3>2, FieldOfType
    <3> QED
      BY <1>3, <3>1, <3>3 DEF Shown, Holds
  <2> QED
    BY <2>1, <2>2, <2>3
<1>6. {m \in Names : HeldAs(c, r, m) # {}} = {m \in Names : Shown(c, r, m)}
  BY <1>4, <1>5
<1>7. NamedRow(c, r) =
        [n \in {m \in Names : HeldAs(c, r, m) # {}} |->
           IF c.id[GetFieldType(c, n)][n] >= 0
           THEN r.slots[GetFieldType(c, n)][c.id[GetFieldType(c, n)][n] + 1]
           ELSE r.members[c.id[GetFieldType(c, n)][n]]]
  BY DEF NamedRow
<1> QED
  BY <1>4, <1>6, <1>7

\* The values of a row by name.
LEMMA RowFacts ==
  ASSUME NEW c, Tidy(c), NEW r, Sound(c.type, r)
  PROVE  /\ DOMAIN NamedRow(c, r) \in SUBSET Names
         /\ \A n \in Names : n \in DOMAIN NamedRow(c, r) <=> Shown(c, r, n)
         /\ \A n \in DOMAIN NamedRow(c, r) :
              NamedRow(c, r)[n] = Value(r, FieldOf(c, n))
         /\ NamedRow(c, r) = [n \in DOMAIN NamedRow(c, r) |-> NamedRow(c, r)[n]]
         /\ NamedRow(c, r) \in [DOMAIN NamedRow(c, r) -> Values]
<1> DEFINE S == {m \in Names : Shown(c, r, m)}
<1>1. NamedRow(c, r) = [n \in S |-> Value(r, FieldOf(c, n))]
  BY RowOf
<1>2. \A n \in S : Value(r, FieldOf(c, n)) \in Values
  BY TidyField, ValueTyped DEF Shown
<1>3. S \in SUBSET Names
  OBVIOUS
<1> QED
  BY <1>1, <1>2, <1>3

\* The fields that hold a value are all but the computed ones.
LEMMA StoredOf ==
  ASSUME NEW c, Tidy(c)
  PROVE  /\ StoredFields(c) \in SUBSET Names
         /\ \A n \in Names : n \in StoredFields(c) <=>
              HasField(c, n) /\ (FieldOf(c, n).id < 0 => n \notin Derived)
         /\ \A n \in StoredFields(c) : GetFieldType(c, n) \in Types
<1>1. \A t \in Types, n \in Names : c.id[t][n] \in Int
  BY DEF Tidy, Config
<1>2. ASSUME NEW n \in Names, n \in StoredFields(c)
      PROVE  /\ HasField(c, n) /\ (FieldOf(c, n).id < 0 => n \notin Derived)
             /\ GetFieldType(c, n) \in Types
  <2>1. PICK t \in Types : c.id[t][n] >= 0 \/ (Has(c, t, n) /\ n \notin Derived)
    BY <1>2 DEF StoredFields
  <2>2. Has(c, t, n)
    BY <2>1, TypesFact DEF Has
  <2>3. HasField(c, n) /\ FieldOf(c, n).id = c.id[t][n] /\ GetFieldType(c, n) = t
    BY <2>2, FieldOfType
  <2> QED
    BY <1>1, <2>1, <2>3
<1>3. ASSUME NEW n \in Names, HasField(c, n), FieldOf(c, n).id < 0 => n \notin Derived
      PROVE  n \in StoredFields(c)
  <2>1. /\ FieldOf(c, n).id = c.id[GetFieldType(c, n)][n] /\ FieldOf(c, n) \in Field
        /\ FieldOf(c, n).type = GetFieldType(c, n)
        /\ FieldOf(c, n).id # Undef
    BY <1>3, TidyField
  <2>2. GetFieldType(c, n) \in Types /\ FieldOf(c, n).id \in Int
    BY <2>1 DEF Field
  <2> QED
    BY <1>3, <2>1, <2>2 DEF StoredFields, Has
<1>4. StoredFields(c) \in SUBSET Names
  BY DEF StoredFields
<1> QED
  BY <1>2, <1>3, <1>4

(***************************************************************************)
(* What the calls do to a row.                                             *)
(***************************************************************************)
\* A record has no more slots than its branch has ids for.
Fits(c, r) == \A t \in Types : Len(r.slots[t]) <= c.size[t]

\* Rows and fields depend on the ids alone.
LEMMA RowOfIds ==
  ASSUME NEW c, NEW e, c.id = e.id
  PROVE  /\ StoredFields(c) = StoredFields(e)
         /\ \A n \in Names : GetFieldType(c, n) = GetFieldType(e, n)
         /\ \A r : NamedRow(c, r) = NamedRow(e, r)
<1>1. \A n \in Names : GetFieldType(c, n) = GetFieldType(e, n)
  BY DEF GetFieldType, Has
<1>2. StoredFields(c) = StoredFields(e)
  BY DEF StoredFields, Has
<1>3. \A r, n : HeldAs(c, r, n) = HeldAs(e, r, n)
  BY DEF HeldAs
<1>4. \A r : NamedRow(c, r) = NamedRow(e, r)
  BY <1>1, <1>3 DEF NamedRow
<1> QED
  BY <1>1, <1>2, <1>4

\* More fields leave those there are where they are.
LEMMA WiderFields ==
  ASSUME NEW c, Tidy(c), NEW e, Tidy(e), Widened(c, e), NEW n \in Names
  PROVE  /\ HasField(c, n) => HasField(e, n) /\ FieldOf(e, n) = FieldOf(c, n)
         /\ HasField(e, n) /\ ~HasField(c, n) =>
              FieldOf(e, n).id >= c.size[FieldOf(e, n).type]
<1>1. c \in Config /\ e \in Config
  BY DEF Tidy
<1>2. ASSUME HasField(c, n)
      PROVE  HasField(e, n) /\ FieldOf(e, n) = FieldOf(c, n)
  <2>1. \A t \in Types : e.id[t][n] = c.id[t][n]
    BY <1>2 DEF Widened
  <2> QED
    BY <1>2, <2>1, SameIds
<1>3. ASSUME HasField(e, n), ~HasField(c, n)
      PROVE  FieldOf(e, n).id >= c.size[FieldOf(e, n).type]
  <2>1. /\ FieldOf(e, n).id = e.id[FieldOf(e, n).type][n] /\ FieldOf(e, n).id # Undef
        /\ FieldOf(e, n) \in Field
    BY <1>3, TidyField
  <2>2. FieldOf(e, n).type \in Types
    BY <2>1 DEF Field
  <2>3. e.id[FieldOf(e, n).type][n] # c.id[FieldOf(e, n).type][n]
    BY <1>1, <1>3, <2>1, <2>2, FieldFacts
  <2> QED
    BY <2>1, <2>2, <2>3 DEF Widened
<1> QED
  BY <1>2, <1>3

LEMMA WiderTypes ==
  ASSUME NEW c, Tidy(c), NEW e, Tidy(e), Widened(c, e)
  PROVE  /\ StoredFields(c) \subseteq StoredFields(e)
         /\ \A n \in StoredFields(c) : GetFieldType(e, n) = GetFieldType(c, n)
<1> SUFFICES ASSUME NEW n \in StoredFields(c)
             PROVE  n \in StoredFields(e) /\ GetFieldType(e, n) = GetFieldType(c, n)
  OBVIOUS
<1>1. n \in Names /\ HasField(c, n) /\ (FieldOf(c, n).id < 0 => n \notin Derived)
  BY StoredOf
<1>2. HasField(e, n) /\ FieldOf(e, n) = FieldOf(c, n)
  BY <1>1, WiderFields
<1>3. FieldOf(e, n).type = GetFieldType(e, n) /\ FieldOf(c, n).type = GetFieldType(c, n)
  BY <1>1, <1>2, TidyField
<1> QED
  BY <1>1, <1>2, <1>3, StoredOf

\* The types of a record's slots.
LEMMA SoundLens ==
  ASSUME NEW d, NEW r, Sound(d, r)
  PROVE  /\ r.slots \in [Types -> Seq(Values)] /\ DOMAIN r.members = MemberIds(d)
         /\ \A t \in Types : /\ Len(r.slots[t]) \in Nat
                             /\ DOMAIN r.slots[t] = 1 .. Len(r.slots[t])
BY DEF Sound, Record, Slots

\* Two rows with the same fields and values are one.
LEMMA SameRow ==
  ASSUME NEW c, Tidy(c), NEW r, Sound(c.type, r), NEW e, Tidy(e), NEW q, Sound(e.type, q),
         \A n \in Names : Shown(c, r, n) <=> Shown(e, q, n),
         \A n \in Names : Shown(c, r, n) =>
           Value(r, FieldOf(c, n)) = Value(q, FieldOf(e, n))
  PROVE  NamedRow(c, r) = NamedRow(e, q)
<1>1. NamedRow(c, r) = [n \in {m \in Names : Shown(c, r, m)} |-> Value(r, FieldOf(c, n))]
  BY RowOf
<1>2. NamedRow(e, q) = [n \in {m \in Names : Shown(e, q, m)} |-> Value(q, FieldOf(e, n))]
  BY RowOf
<1>3. {m \in Names : Shown(c, r, m)} = {m \in Names : Shown(e, q, m)}
  OBVIOUS
<1> QED
  BY <1>1, <1>2, <1>3

\* A record without the slots of new fields shows what it showed
LEMMA WiderRowAsIs ==
  ASSUME NEW c, Tidy(c), NEW e, Tidy(e), Widened(c, e),
         NEW r, Sound(c.type, r), Fits(c, r)
  PROVE  NamedRow(e, r) = NamedRow(c, r)
<1>1. e.type = c.type /\ \A t \in Types : c.size[t] \in Nat
  BY DEF Widened, Tidy, Config
<1>2. ASSUME NEW n \in Names, Shown(c, r, n)
      PROVE  Shown(e, r, n) /\ FieldOf(e, n) = FieldOf(c, n)
  BY <1>2, WiderFields DEF Shown
<1>3. ASSUME NEW n \in Names, Shown(e, r, n)
      PROVE  Shown(c, r, n)
  <2>1. CASE HasField(c, n)
    BY <1>3, <2>1, WiderFields DEF Shown
  <2>2. CASE ~HasField(c, n)
    <3>1. HasField(e, n) /\ Holds(r, FieldOf(e, n))
      BY <1>3 DEF Shown
    <3>2. FieldOf(e, n).id >= c.size[FieldOf(e, n).type] /\ FieldOf(e, n) \in Field
      BY <2>2, <3>1, WiderFields, TidyField
    <3>3. FieldOf(e, n).type \in Types /\ FieldOf(e, n).id \in Int
      BY <3>2 DEF Field
    <3>4. Len(r.slots[FieldOf(e, n).type]) \in Nat
      BY <3>3, SoundLens
    <3> QED
      BY <1>1, <3>1, <3>2, <3>3, <3>4 DEF Holds, Fits
  <2> QED
    BY <2>1, <2>2
<1> QED
  BY <1>1, <1>2, <1>3, SameRow

\* and one that has some already, of another branch's fields, may show more.
LEMMA WiderRowShows ==
  ASSUME NEW c, Tidy(c), NEW e, Tidy(e), Widened(c, e), NEW r, Sound(c.type, r)
  PROVE  /\ DOMAIN NamedRow(c, r) \subseteq DOMAIN NamedRow(e, r)
         /\ \A n \in DOMAIN NamedRow(c, r) : NamedRow(e, r)[n] = NamedRow(c, r)[n]
<1>1. Sound(e.type, r)
  BY DEF Widened
<1>2. /\ DOMAIN NamedRow(c, r) \subseteq Names
      /\ \A n \in Names : n \in DOMAIN NamedRow(c, r) <=> Shown(c, r, n)
      /\ \A n \in DOMAIN NamedRow(c, r) : NamedRow(c, r)[n] = Value(r, FieldOf(c, n))
  BY RowFacts
<1>3. /\ \A n \in Names : n \in DOMAIN NamedRow(e, r) <=> Shown(e, r, n)
      /\ \A n \in DOMAIN NamedRow(e, r) : NamedRow(e, r)[n] = Value(r, FieldOf(e, n))
  BY <1>1, RowFacts
<1>4. ASSUME NEW n \in Names, Shown(c, r, n)
      PROVE  Shown(e, r, n) /\ FieldOf(e, n) = FieldOf(c, n)
  BY <1>4, WiderFields DEF Shown
<1> QED
  BY <1>2, <1>3, <1>4

\* A record that gets the slots of new fields shows them blank, but for those
\* it had.
LEMMA WiderRowFilled ==
  ASSUME NEW c, Tidy(c), NEW e, Tidy(e), Widened(c, e),
         NEW r, Sound(c.type, r), NEW w, w = WithSlots(r, e.size)
  PROVE  /\ DOMAIN NamedRow(c, r) \subseteq DOMAIN NamedRow(e, w)
         /\ \A n \in DOMAIN NamedRow(c, r) : NamedRow(e, w)[n] = NamedRow(c, r)[n]
         /\ Fits(c, r) =>
              \A n \in DOMAIN NamedRow(e, w) \ DOMAIN NamedRow(c, r) :
                NamedRow(e, w)[n] = Blank
<1>1. e.type = c.type /\ e \in Config /\ HasSlots(e)
  BY DEF Widened, Tidy
<1>2. Sound(e.type, w) /\ Complete(e, w, {})
  BY <1>1, ResizedSound
<1>3. /\ \A t \in Types : c.size[t] \in Nat /\ e.size[t] \in Nat /\ e.size[t] >= c.size[t]
      /\ \A t \in Types : Len(r.slots[t]) \in Nat
  BY <1>1, SoundLens DEF Widened, Tidy, Config
<1>4. /\ w.members = r.members
      /\ \A t \in Types : \A k \in 1 .. e.size[t] :
           w.slots[t][k] = IF k <= Len(r.slots[t]) THEN r.slots[t][k] ELSE Blank
  <2>1. DOMAIN r = {"slots", "members"}
    BY DEF Sound, Record
  <2>2. w = [r EXCEPT !.slots = Resized(r.slots, e.size)]
    BY DEF WithSlots
  <2>3. w.members = r.members /\ w.slots = Resized(r.slots, e.size)
    BY <2>1, <2>2
  <2>4. \A t \in Types : \A k \in 1 .. e.size[t] :
          Resized(r.slots, e.size)[t][k]
            = IF k <= Len(r.slots[t]) THEN r.slots[t][k] ELSE Blank
    BY DEF Resized
  <2> QED
    BY <2>3, <2>4
<1>5. ASSUME NEW n \in Names, HasField(e, n), FieldOf(e, n).id >= 0
      PROVE  Value(w, FieldOf(e, n)) =
               IF Holds(r, FieldOf(e, n)) THEN Value(r, FieldOf(e, n)) ELSE Blank
  <2> DEFINE f == FieldOf(e, n)
  <2>1. f.type \in Types /\ f.id \in Nat /\ f.id < e.size[f.type]
    <3>1. f \in Field /\ f.id = e.id[f.type][n]
      BY <1>1, <1>5, FieldFacts
    <3>2. f.type \in Types /\ f.id \in Int
      BY <3>1 DEF Field
    <3> HIDE DEF f
    <3>3. f.id < e.size[f.type]
      BY <1>1, <3>1, <3>2 DEF HasSlots
    <3> QED
      BY <1>5, <3>2, <3>3 DEF f
  <2> HIDE DEF f
  <2>2. w.slots[f.type][f.id + 1] =
          IF f.id + 1 <= Len(r.slots[f.type]) THEN r.slots[f.type][f.id + 1] ELSE Blank
    BY <1>3, <1>4, <2>1
  <2>3. Holds(r, f) <=> f.id + 1 <= Len(r.slots[f.type])
    BY <1>3, <2>1 DEF Holds
  <2>4. f.id >= 0
    BY <2>1
  <2> QED
    BY <2>2, <2>3, <2>4 DEF Value, f
<1>6. ASSUME NEW n \in Names, Shown(c, r, n)
      PROVE  /\ Shown(e, w, n) /\ FieldOf(e, n) = FieldOf(c, n)
             /\ Value(w, FieldOf(e, n)) = Value(r, FieldOf(c, n))
  <2>1. HasField(e, n) /\ FieldOf(e, n) = FieldOf(c, n)
    BY <1>6, WiderFields DEF Shown
  <2>2. Shown(e, w, n)
    BY <1>2, <1>6, <2>1 DEF Shown, Complete
  <2>3. CASE FieldOf(e, n).id >= 0
    BY <1>5, <1>6, <2>1, <2>2, <2>3 DEF Shown
  <2>4. CASE ~ (FieldOf(e, n).id >= 0)
    BY <1>4, <2>1, <2>2, <2>4 DEF Value
  <2> QED
    BY <2>1, <2>2, <2>3, <2>4
<1>7. ASSUME Fits(c, r), NEW n \in Names, Shown(e, w, n), ~Shown(c, r, n)
      PROVE  Value(w, FieldOf(e, n)) = Blank
  <2> DEFINE f == FieldOf(e, n)
  <2>1. HasField(e, n) /\ f \in Field
    BY <1>7, TidyField DEF Shown
  <2>2. f.type \in Types /\ f.id \in Int
    BY <2>1 DEF Field
  <2> HIDE DEF f
  <2>3. f.id >= 0 /\ ~Holds(r, f)
    <3>1. CASE HasField(c, n)
      <4>1. f = FieldOf(c, n)
        BY <3>1, WiderFields DEF f
      <4>2. ~Holds(r, f)
        BY <1>7, <3>1, <4>1 DEF Shown, f
      <4> QED
        BY <2>2, <4>2 DEF Holds
    <3>2. CASE ~HasField(c, n)
      <4>1. f.id >= c.size[f.type]
        BY <2>1, <3>2, WiderFields DEF f
      <4>2. Len(r.slots[f.type]) <= c.size[f.type]
        BY <1>7, <2>2 DEF Fits
      <4> QED
        BY <1>3, <2>2, <4>1, <4>2 DEF Holds
    <3> QED
      BY <3>1, <3>2
  <2> QED
    BY <1>5, <2>1, <2>3 DEF f
<1>8. \A n \in Names : /\ n \in DOMAIN NamedRow(c, r) <=> Shown(c, r, n)
                       /\ n \in DOMAIN NamedRow(e, w) <=> Shown(e, w, n)
  BY <1>2, RowFacts
<1>9. /\ DOMAIN NamedRow(c, r) \subseteq Names /\ DOMAIN NamedRow(e, w) \subseteq Names
      /\ \A n \in DOMAIN NamedRow(c, r) : NamedRow(c, r)[n] = Value(r, FieldOf(c, n))
      /\ \A n \in DOMAIN NamedRow(e, w) : NamedRow(e, w)[n] = Value(w, FieldOf(e, n))
  BY <1>2, RowFacts
<1> QED
  BY <1>6, <1>7, <1>8, <1>9

\* A new record shows all fields that hold a value, blank.
LEMMA FreshRow ==
  ASSUME NEW c, Tidy(c)
  PROVE  /\ NamedRow(c, NewRecord(c)) = [n \in StoredFields(c) |-> Blank]
         /\ Fits(c, NewRecord(c))
<1> DEFINE r == NewRecord(c)
<1>1. c \in Config /\ HasSlots(c) /\ \A t \in Types : c.size[t] \in Nat
  BY DEF Tidy, Config
<1>2. Sound(c.type, r) /\ Complete(c, r, {})
  BY <1>1, NewRecordSound
<1>3. /\ \A t \in Types : r.slots[t] = [k \in 1 .. c.size[t] |-> Blank]
      /\ \A i \in MemberIds(c.type) : r.members[i] = Blank
  <2>1. r.slots = Resized([t \in Types |-> <<>>], c.size) /\ r.members = Members(c.type)
    BY DEF NewRecord
  <2>2. \A i \in MemberIds(c.type) : Members(c.type)[i] = Blank
    BY DEF Members
  <2>3. ASSUME NEW t \in Types
        PROVE  Resized([u \in Types |-> <<>>], c.size)[t] = [k \in 1 .. c.size[t] |-> Blank]
    <3>1. Resized([u \in Types |-> <<>>], c.size)[t]
            = [k \in 1 .. c.size[t] |->
                 IF k <= Len([u \in Types |-> <<>>][t])
                 THEN [u \in Types |-> <<>>][t][k] ELSE Blank]
      BY DEF Resized
    <3>2. Len([u \in Types |-> <<>>][t]) = 0
      OBVIOUS
    <3> QED
      BY <1>1, <3>1, <3>2
  <2> QED
    BY <2>1, <2>2, <2>3
<1> HIDE DEF r
<1>4. \A t \in Types : Len(r.slots[t]) = c.size[t]
  <2>1. \A k \in Nat : Len([i \in 1 .. k |-> Blank]) = k
    OBVIOUS
  <2> QED
    BY <1>1, <1>3, <2>1
<1>5. ASSUME NEW n \in Names, Shown(c, r, n)
      PROVE  Value(r, FieldOf(c, n)) = Blank
  <2> DEFINE f == FieldOf(c, n)
  <2>1. HasField(c, n) /\ f \in Field /\ Holds(r, f)
    BY <1>5, TidyField DEF Shown
  <2>2. f.type \in Types /\ f.id \in Int
    BY <2>1 DEF Field
  <2> HIDE DEF f
  <2>3. CASE f.id >= 0
    <3>1. f.id + 1 \in 1 .. c.size[f.type]
      BY <1>1, <1>4, <2>1, <2>2, <2>3 DEF Holds
    <3>2. r.slots[f.type][f.id + 1] = Blank
      BY <1>3, <2>2, <3>1
    <3> QED
      BY <2>3, <3>2 DEF Value, f
  <2>4. CASE ~ (f.id >= 0)
    <3>1. DOMAIN r.members = MemberIds(c.type)
      BY <1>2, SoundLens
    <3> QED
      BY <1>3, <2>4, <3>1 DEF Value, f
  <2> QED
    BY <2>3, <2>4
<1>6. \A n \in Names : Shown(c, r, n) <=> n \in StoredFields(c)
  BY <1>2, StoredOf DEF Shown, Complete
<1>7. {n \in Names : Shown(c, r, n)} = StoredFields(c)
  BY <1>6, StoredOf
<1>8. NamedRow(c, r) = [n \in {m \in Names : Shown(c, r, m)} |-> Value(r, FieldOf(c, n))]
  BY <1>2, RowOf
<1>9. NamedRow(c, r) = [n \in StoredFields(c) |-> Blank]
  BY <1>5, <1>7, <1>8
<1>10. Fits(c, r)
  BY <1>1, <1>4 DEF Fits
<1> QED
  BY <1>9, <1>10 DEF r

\* Two fields of one type and slot are one.
LEMMA SlotOfOne ==
  ASSUME NEW c, Tidy(c), NEW m \in Names, HasField(c, m), NEW n \in Names,
         HasField(c, n), FieldOf(c, m).type = FieldOf(c, n).type,
         FieldOf(c, m).id = FieldOf(c, n).id, FieldOf(c, n).id >= 0
  PROVE  m = n
<1>1. /\ FieldOf(c, m).id = c.id[FieldOf(c, m).type][m]
      /\ FieldOf(c, n).id = c.id[FieldOf(c, n).type][n]
      /\ FieldOf(c, n) \in Field
  BY TidyField
<1> DEFINE t == FieldOf(c, n).type
<1>2. t \in Types
  BY <1>1 DEF Field
<1>3. c.id[t][m] = c.id[t][n] /\ c.id[t][m] >= 0
  BY <1>1
<1> HIDE DEF t
<1> QED
  BY <1>2, <1>3 DEF Tidy

\* A shown default field has a member.
LEMMA ShownMember ==
  ASSUME NEW c, Tidy(c), NEW r, NEW n \in Names, Shown(c, r, n),
         ~ (FieldOf(c, n).id >= 0)
  PROVE  FieldOf(c, n).id \in MemberIds(c.type)
<1>1. HasField(c, n)
  BY DEF Shown
<1>2. FieldOf(c, n) \in Field /\ FieldOf(c, n).type = GetFieldType(c, n)
  BY <1>1, TidyField
<1>3. FieldOf(c, n).type \in Types /\ FieldOf(c, n).id \in Int
  BY <1>2 DEF Field
<1>4. FieldOf(c, n).id < 0
  BY <1>3
<1>5. /\ n \notin Derived /\ FieldOf(c, n).id # Undef
      /\ FieldOf(c, n).id = DefaultId(c.type, FieldOf(c, n).type, n)
  BY <1>1, <1>2, <1>4, TidyField DEF Shown
<1> QED
  BY <1>3, <1>5 DEF MemberIds

\* The fields fs are those of config c.
AreFields(c, fs) == \A f \in fs : \E m \in Names : HasField(c, m) /\ f = FieldOf(c, m)

\* Record w shows the fields of r: v, converted, for those in fs, and what r
\* shows for the others.
WritesOver(c, r, w, fs, v) ==
  /\ \A n \in Names : Shown(c, w, n) <=> Shown(c, r, n)
  /\ \A n \in Names : Shown(c, r, n) =>
       Value(w, FieldOf(c, n)) =
         IF FieldOf(c, n) \in fs
         THEN Convert(GetFieldType(c, n), v[FieldOf(c, n)])
         ELSE Value(r, FieldOf(c, n))

\* Written writes the fields it is given and no others.
LEMMA WrittenRow ==
  ASSUME NEW c, Tidy(c), NEW r, Sound(c.type, r), NEW fs, AreFields(c, fs),
         NEW v, NEW w, w = Written(r, fs, v),
         \A t \in Types : Len(w.slots[t]) = Len(r.slots[t])
  PROVE  WritesOver(c, r, w, fs, v)
<1> DEFINE at(t, k) == CHOOSE f \in fs : f.type = t /\ f.id = k - 1
           of(i) == CHOOSE f \in fs : f.id = i
           written(t, k) == \E f \in fs : f.type = t /\ f.id = k - 1
           has(i) == \E f \in fs : f.id = i
<1>1. /\ DOMAIN r.members = MemberIds(c.type)
      /\ \A t \in Types : /\ Len(r.slots[t]) \in Nat
                          /\ DOMAIN r.slots[t] = 1 .. Len(r.slots[t])
  BY SoundLens
<1>2. \A t, k : written(t, k) => at(t, k) \in fs /\ at(t, k).type = t /\ at(t, k).id = k - 1
  OBVIOUS
<1>3. \A i : has(i) => of(i) \in fs /\ of(i).id = i
  OBVIOUS
<1>4. w = [slots |-> [t \in Types |-> [k \in DOMAIN r.slots[t] |->
             IF written(t, k) THEN Convert(t, v[at(t, k)]) ELSE r.slots[t][k]]],
           members |-> [i \in DOMAIN r.members |->
             IF has(i) THEN Convert(of(i).type, v[of(i)]) ELSE r.members[i]]]
  BY DEF Written
<1>5. /\ \A t \in Types : \A k \in DOMAIN r.slots[t] :
           w.slots[t][k] = IF written(t, k) THEN Convert(t, v[at(t, k)]) ELSE r.slots[t][k]
      /\ DOMAIN w.members = DOMAIN r.members
      /\ \A i \in DOMAIN r.members :
           w.members[i] = IF has(i) THEN Convert(of(i).type, v[of(i)]) ELSE r.members[i]
  BY <1>4
<1>6. \A t, k : (\E f \in fs : f.type = t /\ f.id = k - 1) => written(t, k)
  OBVIOUS
<1>7. \A i : (\E f \in fs : f.id = i) => has(i)
  OBVIOUS
<1> HIDE DEF at, of, written, has
<1>8. ASSUME NEW n \in Names, HasField(c, n)
      PROVE  Holds(w, FieldOf(c, n)) <=> Holds(r, FieldOf(c, n))
  <2>1. FieldOf(c, n).type \in Types
    BY <1>8, TidyField DEF Field
  <2> QED
    BY <2>1 DEF Holds
<1>9. ASSUME NEW n \in Names, Shown(c, r, n)
      PROVE  Value(w, FieldOf(c, n)) =
               IF FieldOf(c, n) \in fs
               THEN Convert(GetFieldType(c, n), v[FieldOf(c, n)])
               ELSE Value(r, FieldOf(c, n))
  <2> DEFINE f == FieldOf(c, n)
  <2>1. HasField(c, n) /\ Holds(r, f)
    BY <1>9 DEF Shown
  <2>2. f \in Field /\ f.type = GetFieldType(c, n)
    BY <2>1, TidyField
  <2>3. f.type \in Types /\ f.id \in Int
    BY <2>2 DEF Field
  <2>4. CASE f.id >= 0
    <3>1. \A g \in fs : g.type = f.type /\ g.id = f.id => g = f
      BY <2>1, <2>4, SlotOfOne DEF AreFields
    <3>2. ~ (f.id >= 0) => f.id \in MemberIds(c.type)
      BY <2>4
    <3> HIDE DEF f
    <3>3. f.id + 1 \in DOMAIN r.slots[f.type] /\ (f.id + 1) - 1 = f.id
      BY <1>1, <2>1, <2>3, <2>4 DEF Holds
    <3>4. w.slots[f.type][f.id + 1] =
            IF written(f.type, f.id + 1) THEN Convert(f.type, v[at(f.type, f.id + 1)])
            ELSE r.slots[f.type][f.id + 1]
      BY <1>5, <2>3, <3>3
    <3>5. written(f.type, f.id + 1) => at(f.type, f.id + 1) = f
      BY <1>2, <3>1, <3>3
    <3>6. f \in fs <=> written(f.type, f.id + 1)
      BY <1>2, <1>6, <3>3, <3>5
    <3>7. Value(w, f) = w.slots[f.type][f.id + 1] /\ Value(r, f) = r.slots[f.type][f.id + 1]
      BY <2>4 DEF Value
    <3>8. Value(w, f) = IF f \in fs THEN Convert(f.type, v[f]) ELSE Value(r, f)
      BY <3>4, <3>5, <3>6, <3>7
    <3> QED
      BY <2>2, <3>8 DEF f
  <2>5. CASE ~ (f.id >= 0)
    <3>1. \A g \in fs : g.id = f.id => g = f
      <4>1. f.id < 0
        BY <2>3, <2>5
      <4> QED
        BY <2>1, <4>1, MemberOfOne DEF AreFields
    <3>2. f.id \in DOMAIN r.members
      BY <1>1, <1>9, <2>5, ShownMember
    <3> HIDE DEF f
    <3>3. w.members[f.id] = IF has(f.id) THEN Convert(of(f.id).type, v[of(f.id)])
                            ELSE r.members[f.id]
      BY <1>5, <3>2
    <3>4. has(f.id) => of(f.id) = f
      BY <1>3, <3>1
    <3>5. f \in fs <=> has(f.id)
      BY <1>3, <1>7, <3>4
    <3>6. Value(w, f) = w.members[f.id] /\ Value(r, f) = r.members[f.id]
      BY <1>5, <2>5, <3>2 DEF Value
    <3>7. Value(w, f) = IF f \in fs THEN Convert(f.type, v[f]) ELSE Value(r, f)
      BY <3>3, <3>4, <3>5, <3>6
    <3> QED
      BY <2>2, <3>7 DEF f
  <2> QED
    BY <2>4, <2>5
<1>10. \A n \in Names : Shown(c, w, n) <=> Shown(c, r, n)
  BY <1>8 DEF Shown
<1> QED
  BY <1>9, <1>10 DEF WritesOver

(***************************************************************************)
(* The tables of NamedRecords                                              *)
(***************************************************************************)
TableIn(x) == IF x = NoBranch THEN NoBranch ELSE TableOf(x)

\* A branch whose records have no slots but those of its fields.
Fitting(x) == \A i \in DOMAIN x.records : Fits(x.config, x.records[i])

\* A mapping relates fields of one name, or of a prefixed one.
Renames(m) == m # NoMapping => \A p \in m : Renamed(p[1].name, p[2].name)

\* What the refinement needs besides Inv.
NamedInv ==
  /\ mixed \in SUBSET Live
  /\ \A b \in Live : /\ Tidy(br[b].config)
                     /\ b \notin mixed => Fitting(br[b])
                     /\ \A s \in Branches : Renames(br[b].mapping[s])

\* A branch is a table of its fields' types and its records' rows.
LEMMA TableFacts ==
  ASSUME NEW x, SoundBranch(x), Tidy(x.config)
  PROVE  /\ TableOf(x) # NoBranch /\ TableIn(x) = TableOf(x)
         /\ TableOf(x) = [types |-> TableOf(x).types, rows |-> TableOf(x).rows]
         /\ TableOf(x).types = [n \in StoredFields(x.config) |-> GetFieldType(x.config, n)]
         /\ TableOf(x).rows = [i \in DOMAIN x.records |-> NamedRow(x.config, x.records[i])]
         /\ DOMAIN x.records = 1 .. Len(x.records) /\ Len(x.records) \in Nat
         /\ \A i \in DOMAIN x.records : Sound(x.config.type, x.records[i])
<1> DEFINE Maps(T) == UNION {[S -> T] : S \in SUBSET Names}
           types == [n \in StoredFields(x.config) |-> GetFieldType(x.config, n)]
           rows == [i \in DOMAIN x.records |-> NamedRow(x.config, x.records[i])]
<1>1. /\ x.records \in Seq(AnyRecord) /\ x # NoBranch
      /\ \A i \in DOMAIN x.records : Sound(x.config.type, x.records[i])
  BY BranchParts DEF SoundBranch
<1>2. DOMAIN x.records = 1 .. Len(x.records) /\ Len(x.records) \in Nat
  BY <1>1
<1>3. types \in Maps(Types)
  <2>1. StoredFields(x.config) \in SUBSET Names /\ types \in [StoredFields(x.config) -> Types]
    BY StoredOf
  <2> HIDE DEF types
  <2> QED
    BY <2>1
<1>4. rows \in Seq(Maps(Values))
  <2>1. ASSUME NEW i \in DOMAIN x.records
        PROVE  NamedRow(x.config, x.records[i]) \in Maps(Values)
    <3>1. /\ DOMAIN NamedRow(x.config, x.records[i]) \in SUBSET Names
          /\ NamedRow(x.config, x.records[i])
               \in [DOMAIN NamedRow(x.config, x.records[i]) -> Values]
      BY <1>1, <2>1, RowFacts
    <3> QED
      BY <3>1
  <2> HIDE DEF Maps
  <2> QED
    BY <1>2, <2>1
<1>5. TableOf(x) = [types |-> types, rows |-> rows]
  BY DEF TableOf
<1>6. NoBranch \notin [types : Maps(Types), rows : Seq(Maps(Values))]
  BY NoTableAssumption
<1> HIDE DEF types, rows, Maps
<1>7. TableOf(x) # NoBranch
  BY <1>3, <1>4, <1>5, <1>6
<1>8. TableOf(x).types = types /\ TableOf(x).rows = rows
  BY <1>5
<1> QED
  BY <1>1, <1>2, <1>5, <1>7, <1>8 DEF TableIn, types, rows

LEMMA TableParts ==
  ASSUME NEW x, SoundBranch(x), Tidy(x.config)
  PROVE  /\ TableOf(x) # NoBranch /\ TableIn(x) = TableOf(x)
         /\ DOMAIN TableOf(x).types = StoredFields(x.config)
         /\ \A n \in StoredFields(x.config) :
              TableOf(x).types[n] = GetFieldType(x.config, n)
         /\ DOMAIN TableOf(x).rows = DOMAIN x.records
         /\ \A i \in DOMAIN x.records :
              TableOf(x).rows[i] = NamedRow(x.config, x.records[i])
<1> DEFINE types == TableOf(x).types
           rows == TableOf(x).rows
<1>1. /\ types = [n \in StoredFields(x.config) |-> GetFieldType(x.config, n)]
      /\ rows = [i \in DOMAIN x.records |-> NamedRow(x.config, x.records[i])]
      /\ TableOf(x) # NoBranch /\ TableIn(x) = TableOf(x)
  BY TableFacts
<1> HIDE DEF types, rows
<1>2. /\ DOMAIN types = StoredFields(x.config)
      /\ \A n \in StoredFields(x.config) : types[n] = GetFieldType(x.config, n)
      /\ DOMAIN rows = DOMAIN x.records
      /\ \A i \in DOMAIN x.records : rows[i] = NamedRow(x.config, x.records[i])
  BY <1>1
<1> QED
  BY <1>1, <1>2 DEF types, rows

LEMMA NamedFacts ==
  ASSUME Inv, NamedInv, NEW b \in Live
  PROVE  /\ b \in Branches /\ SoundBranch(br[b]) /\ br[b] # NoBranch
         /\ Tidy(br[b].config) /\ (b \notin mixed => Fitting(br[b]))
         /\ \A s \in Branches : Renames(br[b].mapping[s])
         /\ NamedTables[b] = TableOf(br[b]) /\ NamedTables[b] # NoBranch
<1>1. b \in Branches /\ SoundBranch(br[b]) /\ br[b] # NoBranch
  BY LiveFacts DEF SoundBranch
<1>2. /\ Tidy(br[b].config) /\ (b \notin mixed => Fitting(br[b]))
      /\ \A s \in Branches : Renames(br[b].mapping[s])
  BY DEF NamedInv
<1>3. NamedTables[b] = TableOf(br[b])
  BY <1>1 DEF NamedTables
<1> QED
  BY <1>1, <1>2, <1>3, TableFacts

\* A step that changes one branch, and its table the way NamedRecords allows.
LEMMA NamedStep ==
  ASSUME Inv, NamedInv, NEW b \in Branches, NEW x, br' = [br EXCEPT ![b] = x],
         mixed' \ {b} = mixed \ {b}, b \in mixed' => x # NoBranch,
         x # NoBranch => /\ Tidy(x.config) /\ (b \notin mixed' => Fitting(x))
                         /\ \A s \in Branches : Renames(x.mapping[s]),
         \/ TableIn(x) = NamedTables[b] /\ mixed' = mixed
         \/ Tables!Change(NamedTables, b, NamedTables[b], TableIn(x))
  PROVE  NamedInv' /\ [Tables!NNext]_<<NamedTables, mixed>>
<1>1. br = [q \in Branches |-> br[q]]
  BY DEF Inv, TypeOK
<1>2. br' = [q \in Branches |-> br'[q]] /\ \A q \in Branches : br'[q] = IF q = b THEN x ELSE br[q]
  BY <1>1
<1>3. NamedInv'
  <2>1. ASSUME NEW q \in mixed'
        PROVE  q \in Branches /\ br'[q] # NoBranch
    <3>1. CASE q = b
      BY <1>2, <2>1, <3>1
    <3>2. CASE q # b
      <4>1. q \in mixed
        BY <2>1, <3>2
      <4>2. q \in Branches /\ br[q] # NoBranch
        BY <4>1 DEF NamedInv, Live
      <4> QED
        BY <1>2, <3>2, <4>2
    <3> QED
      BY <3>1, <3>2
  <2>2. ASSUME NEW q \in Branches, br'[q] # NoBranch
        PROVE  /\ Tidy(br'[q].config) /\ (q \notin mixed' => Fitting(br'[q]))
               /\ \A s \in Branches : Renames(br'[q].mapping[s])
    <3>1. CASE q = b
      BY <1>2, <2>2, <3>1
    <3>2. CASE q # b
      <4>1. br'[q] = br[q] /\ q \in Live /\ (q \in mixed => q \in mixed')
        BY <1>2, <2>2, <3>2 DEF Live
      <4> QED
        BY <4>1 DEF NamedInv
    <3> QED
      BY <3>1, <3>2
  <2> QED
    BY <2>1, <2>2 DEF NamedInv, Live
<1>4. NamedTables = [q \in Branches |-> TableIn(br[q])]
  BY DEF NamedTables, Live, TableIn
<1>5. NamedTables' = [q \in Branches |-> TableIn(br'[q])]
  BY DEF NamedTables, Live, TableIn
<1>6. /\ NamedTables' = [NamedTables EXCEPT ![b] = TableIn(x)]
      /\ NamedTables'[b] = TableIn(x)
  BY <1>2, <1>4, <1>5
<1>7. CASE TableIn(x) = NamedTables[b] /\ mixed' = mixed
  <2>1. NamedTables' = NamedTables
    BY <1>4, <1>6, <1>7
  <2> QED
    BY <1>3, <1>7, <2>1
<1>8. CASE Tables!Change(NamedTables, b, NamedTables[b], TableIn(x))
  <2>1. Tables!NNext
    BY <1>6, <1>8 DEF Tables!NNext
  <2> QED
    BY <1>3, <2>1
<1> QED
  BY <1>7, <1>8

\* A step that leaves config and records alone is none of NamedRecords.
LEMMA NamedStutter ==
  ASSUME Inv, NamedInv, NEW b \in Live, NEW x, br' = [br EXCEPT ![b] = x],
         mixed' = mixed,
         x # NoBranch, x.config = br[b].config, x.records = br[b].records,
         \A s \in Branches : Renames(x.mapping[s])
  PROVE  NamedInv' /\ [Tables!NNext]_<<NamedTables, mixed>>
<1>1. Tidy(x.config) /\ (b \notin mixed' => Fitting(x))
  BY NamedFacts DEF Fitting
<1>2. TableIn(x) = NamedTables[b]
  BY NamedFacts DEF TableIn, TableOf
<1>3. b \in Branches
  BY NamedFacts
<1> QED
  BY <1>1, <1>2, <1>3, NamedStep

\* The mappings of a branch after it mapped from another one.
LEMMA NextRenames ==
  ASSUME Inv, NamedInv, NEW d \in Live, NEW s \in Live, NEW p \in Prefixes,
         NEW m, m = [br[d].mapping EXCEPT ![s] = MappingOf(d, s, p)]
  PROVE  /\ \A q \in Branches : Renames(m[q])
         /\ \A x \in MappingOf(d, s, p) : Renamed(x[1].name, x[2].name)
<1>1. /\ s \in Branches /\ br[d].config \in Config /\ br[s].config \in Config
      /\ br[d].mapping \in [Branches -> (SUBSET (Field \X Field)) \cup {NoMapping}]
      /\ \A q \in Branches : Renames(br[d].mapping[q])
  BY NamedFacts, BranchParts
<1>2. ASSUME NEW x \in MappingOf(d, s, p)
      PROVE  Renamed(x[1].name, x[2].name)
  <2>1. CASE br[d].mapping[s] # NoMapping
    BY <1>1, <1>2, <2>1 DEF MappingOf, Renames
  <2>2. CASE br[d].mapping[s] = NoMapping
    <3>1. x \in Pairs(br[s].config, br[d].config, p)
      BY <1>2, <2>2 DEF MappingOf
    <3>2. PICK n \in Names : x = <<FieldOf(br[s].config, n), FieldOf(br[d].config, Target(p, n))>>
                             /\ Target(p, n) \in Names
      BY <3>1 DEF Pairs
    <3>3. x[1].name = n /\ x[2].name = Target(p, n)
      BY <1>1, <3>2, FieldFacts
    <3> QED
      BY <3>3 DEF Renamed
  <2> QED
    BY <2>1, <2>2
<1>3. \A q \in Branches : m[q] = IF q = s THEN MappingOf(d, s, p) ELSE br[d].mapping[q]
  BY <1>1
<1> QED
  BY <1>1, <1>2, <1>3 DEF Renames

\* After a call the branch it changed is there and sound.
LEMMA ChangedSound ==
  ASSUME Inv, Inv', Live' = Live, NEW b \in Live, NEW x, br' = [br EXCEPT ![b] = x]
  PROVE  SoundBranch(x)
<1>1. b \in Branches /\ br = [q \in Branches |-> br[q]]
  BY DEF Live, Inv, TypeOK
<1>2. br'[b] = x
  BY <1>1
<1>3. b \in Live'
  OBVIOUS
<1>4. x # NoBranch /\ x \in Branch
  BY <1>1, <1>2, <1>3 DEF Live, Inv, TypeOK
<1>5. /\ IsHeader(x.config) => Len(x.records) = 1
      /\ \A i \in DOMAIN x.records : Sound(x.config.type, x.records[i])
  BY <1>2, <1>3 DEF Inv, TypeOK, Sound
<1>6. x.hash = HashOf(x.config) /\ HasSlots(x.config)
  BY <1>2, <1>3 DEF Inv, ConfigsHashed
<1> QED
  BY <1>4, <1>5, <1>6 DEF SoundBranch

(***************************************************************************)
(* The steps by name                                                       *)
(***************************************************************************)
LEMMA ConfigsTidy ==
  ASSUME NamedInv, NEW c \in Configs
  PROVE  Tidy(c)
<1>1. CASE \E n \in BranchNames, d \in DetTypes : c = NewConfig(n, d)
  BY <1>1, NewConfigTidy
<1>2. CASE \E b \in Live :
             c = Clone(br[b].config, br[b].config.name, br[b].config.type)
  BY <1>2, CloneTidy DEF NamedInv
<1> QED
  BY <1>1, <1>2 DEF Configs

\* Construct: a new table is blank.
LEMMA ConstructNamed ==
  ASSUME Inv, NamedInv, NEW b \in Branches, NEW c \in Configs, NEW k \in 0 .. 1,
         Construct(b, c, k)
  PROVE  NamedInv' /\ [Tables!NNext]_<<NamedTables, mixed>>
<1> DEFINE x == NewBranch(c, k)
<1>1. br' = [br EXCEPT ![b] = x] /\ mixed' = mixed /\ mixed = mixed \ {b}
  BY DEF Construct, NamedInv
<1>2. c \in Config /\ HasSlots(c) /\ Tidy(c)
  BY ConfigsSound, ConfigsTidy
<1>3. SoundBranch(x) /\ \A s \in Branches : x.mapping[s] = NoMapping
  BY <1>2, NewBranchSound
<1>4. x.config = c /\ \A i \in DOMAIN x.records : x.records[i] = NewRecord(c)
  BY DEF NewBranch
<1> HIDE DEF x
<1>5. /\ x # NoBranch /\ Tidy(x.config) /\ Fitting(x)
      /\ \A s \in Branches : Renames(x.mapping[s])
  BY <1>2, <1>3, <1>4, FreshRow DEF Fitting, Renames, SoundBranch
<1>6. Tables!Replaces(b, TableIn(x))
  <2>1. /\ TableIn(x) = TableOf(x)
        /\ DOMAIN TableOf(x).types = StoredFields(c)
        /\ DOMAIN TableOf(x).rows = DOMAIN x.records
        /\ \A i \in DOMAIN x.records : TableOf(x).rows[i] = NamedRow(c, x.records[i])
    BY <1>2, <1>3, <1>4, TableParts
  <2>2. \A i \in DOMAIN TableOf(x).rows :
          TableOf(x).rows[i] = [n \in DOMAIN TableOf(x).types |-> Blank]
    BY <1>2, <1>4, <2>1, FreshRow
  <2> QED
    BY <1>1, <2>1, <2>2 DEF Tables!Replaces, Tables!AllBlank, Tables!Blanks
<1>7. Tables!Change(NamedTables, b, NamedTables[b], TableIn(x))
  BY <1>6 DEF Tables!Change
<1> QED
  BY <1>1, <1>5, <1>7, NamedStep

\* Destroy: the table goes.
LEMMA DestroyNamed ==
  ASSUME Inv, NamedInv, NEW b \in Live, Destroy(b)
  PROVE  NamedInv' /\ [Tables!NNext]_<<NamedTables, mixed>>
<1> DEFINE x == NoBranch
<1>1. /\ br' = [br EXCEPT ![b] = x] /\ x = NoBranch /\ b \in Branches
      /\ mixed' = mixed \ {b} /\ mixed' \ {b} = mixed \ {b}
  BY DEF Destroy, Live
<1> HIDE DEF x
<1>2. Tables!Change(NamedTables, b, NamedTables[b], TableIn(x))
  BY <1>1 DEF Tables!Change, Tables!Replaces, TableIn
<1> QED
  BY <1>1, <1>2, NamedStep

\* SetMutable, Freeze and CreateMapping change no table.
LEMMA SetMutableNamed ==
  ASSUME Inv, NamedInv, NEW b \in Live, NEW is \in MutableArgs, SetMutable(b, is)
  PROVE  NamedInv' /\ [Tables!NNext]_<<NamedTables, mixed>>
<1> DEFINE x == [br[b] EXCEPT !.mutable = is]
<1>1. br' = [br EXCEPT ![b] = x] /\ mixed' = mixed
  BY DEF SetMutable
<1>2. Inv' /\ Live' = Live
  BY SetMutableInv
<1>3. /\ x.config = br[b].config /\ x.records = br[b].records
      /\ x.mapping = br[b].mapping
  BY NamedFacts, BranchParts
<1> HIDE DEF x
<1>4. x # NoBranch
  BY <1>1, <1>2, ChangedSound DEF SoundBranch
<1> QED
  BY <1>1, <1>3, <1>4, NamedFacts, NamedStutter

LEMMA FreezeNamed ==
  ASSUME Inv, NamedInv, NEW b \in Live, NEW is \in BOOLEAN, Freeze(b, is)
  PROVE  NamedInv' /\ [Tables!NNext]_<<NamedTables, mixed>>
<1> DEFINE x == [br[b] EXCEPT !.frozen = is]
<1>1. br' = [br EXCEPT ![b] = x] /\ mixed' = mixed
  BY DEF Freeze
<1>2. Inv' /\ Live' = Live
  BY FreezeInv
<1>3. /\ x.config = br[b].config /\ x.records = br[b].records
      /\ x.mapping = br[b].mapping
  BY NamedFacts, BranchParts
<1> HIDE DEF x
<1>4. x # NoBranch
  BY <1>1, <1>2, ChangedSound DEF SoundBranch
<1> QED
  BY <1>1, <1>3, <1>4, NamedFacts, NamedStutter

LEMMA CreateMappingNamed ==
  ASSUME Inv, NamedInv, NEW d \in Live, NEW s \in Live, NEW p \in Prefixes,
         CreateMapping(d, s, p)
  PROVE  NamedInv' /\ [Tables!NNext]_<<NamedTables, mixed>>
<1> DEFINE m == [br[d].mapping EXCEPT ![s] = MappingOf(d, s, p)]
           x == [br[d] EXCEPT !.mapping = m]
<1>1. br' = [br EXCEPT ![d] = x] /\ mixed' = mixed
  BY DEF CreateMapping
<1>2. Inv' /\ Live' = Live
  BY CreateMappingInv
<1>3. \A q \in Branches : Renames(m[q])
  BY NextRenames
<1> HIDE DEF m
<1>4. /\ x.config = br[d].config /\ x.records = br[d].records
      /\ x.mapping = m
  BY NamedFacts, BranchParts
<1> HIDE DEF x
<1>5. x # NoBranch
  BY <1>1, <1>2, ChangedSound DEF SoundBranch
<1> QED
  BY <1>1, <1>3, <1>4, <1>5, NamedStutter

\* A record that got the slots of a config has no more.
LEMMA FilledFits ==
  ASSUME NEW c \in Config, NEW d, NEW r, Sound(d, r)
  PROVE  Fits(c, WithSlots(r, c.size))
<1>1. /\ r.slots \in [Types -> Seq(Values)] /\ DOMAIN r = {"slots", "members"}
      /\ \A t \in Types : \A k \in DOMAIN r.slots[t] :
           Convert(t, r.slots[t][k]) = r.slots[t][k]
  BY DEF Sound, Record, Slots
<1>2. c.size \in [Types -> Nat]
  BY DEF Config
<1>3. \A t \in Types : Len(Resized(r.slots, c.size)[t]) = c.size[t]
  BY <1>1, <1>2, ResizedSlots
<1>4. WithSlots(r, c.size).slots = Resized(r.slots, c.size)
  BY <1>1 DEF WithSlots
<1> QED
  BY <1>2, <1>3, <1>4 DEF Fits

\* NewVariable and CloneVariables: rows keep their fields, and those of an
\* EventHeader get the new ones.
LEMMA DeclaresNamed ==
  ASSUME Inv, Inv', Live' = Live, NamedInv, NEW b \in Live, NEW c,
         Tidy(c), Widened(br[b].config, c), br' = [br EXCEPT ![b] = Extended(@, c)],
         mixed' = mixed
  PROVE  NamedInv' /\ [Tables!NNext]_<<NamedTables, mixed>>
<1> DEFINE y == br[b]
           x == Extended(y, c)
           w == WithSlots(y.records[1], c.size)
<1>1. br' = [br EXCEPT ![b] = x]
  OBVIOUS
<1>2. /\ SoundBranch(y) /\ Tidy(y.config) /\ b \in Branches
      /\ b \notin mixed => Fitting(y)
      /\ \A s \in Branches : Renames(y.mapping[s])
      /\ NamedTables[b] = TableOf(y) /\ NamedTables[b] # NoBranch
  BY NamedFacts
<1>3. /\ x.config = c /\ x.mapping = y.mapping
      /\ x.records = IF IsHeader(c) THEN <<w>> ELSE y.records
  <2>1. y = [config |-> y.config, mutable |-> y.mutable, frozen |-> y.frozen,
             hash |-> y.hash, records |-> y.records, mapping |-> y.mapping]
    BY <1>2, BranchParts
  <2>2. x = [y EXCEPT !.config = c, !.hash = HashOf(c),
                      !.records = IF IsHeader(c) THEN <<w>> ELSE y.records]
    BY DEF Extended
  <2> HIDE DEF x, w
  <2> QED
    BY <2>1, <2>2
<1> HIDE DEF x
<1>4. SoundBranch(x) /\ x # NoBranch
  BY <1>1, ChangedSound DEF SoundBranch
<1>5. /\ c \in Config /\ c.type = y.config.type
      /\ IsHeader(c) => Len(y.records) = 1
      /\ DOMAIN y.records = 1 .. Len(y.records)
      /\ \A i \in DOMAIN y.records : Sound(y.config.type, y.records[i])
  BY <1>2, BranchParts, TableFacts DEF Tidy, Widened, IsHeader
<1>6. /\ TableIn(x) = TableOf(x) /\ TableOf(x) # NoBranch
      /\ DOMAIN TableOf(x).types = StoredFields(c)
      /\ \A n \in StoredFields(c) : TableOf(x).types[n] = GetFieldType(c, n)
      /\ DOMAIN TableOf(x).rows = DOMAIN x.records
      /\ \A i \in DOMAIN x.records : TableOf(x).rows[i] = NamedRow(c, x.records[i])
  BY <1>3, <1>4, TableParts
<1>7. /\ DOMAIN TableOf(y).types = StoredFields(y.config)
      /\ \A n \in StoredFields(y.config) :
           TableOf(y).types[n] = GetFieldType(y.config, n)
      /\ DOMAIN TableOf(y).rows = DOMAIN y.records
      /\ \A i \in DOMAIN y.records : TableOf(y).rows[i] = NamedRow(y.config, y.records[i])
  BY <1>2, TableParts
<1>8. Tables!Widens(TableOf(y).types, TableOf(x).types)
  <2>1. /\ StoredFields(y.config) \subseteq StoredFields(c)
        /\ \A n \in StoredFields(y.config) : GetFieldType(c, n) = GetFieldType(y.config, n)
    BY <1>2, WiderTypes
  <2> QED
    BY <1>6, <1>7, <2>1 DEF Tables!Widens
<1>9. CASE IsHeader(c)
  <2>1. DOMAIN y.records = {1} /\ 1 \in DOMAIN y.records
    <3>1. Len(y.records) = 1 /\ DOMAIN y.records = 1 .. Len(y.records)
      BY <1>5, <1>9
    <3>2. DOMAIN y.records = 1 .. 1
      BY <3>1
    <3>3. 1 .. 1 = {1}
      OBVIOUS
    <3> HIDE DEF y
    <3> QED
      BY <3>2, <3>3
  <2>2. /\ Sound(y.config.type, y.records[1])
        /\ b \notin mixed => Fits(y.config, y.records[1])
    BY <1>2, <1>5, <2>1 DEF Fitting
  <2>3. x.records = <<w>>
    BY <1>3, <1>9
  <2>4. Fits(c, w)
    BY <1>5, <2>2, FilledFits
  <2>5. /\ DOMAIN NamedRow(y.config, y.records[1]) \subseteq DOMAIN NamedRow(c, w)
        /\ \A n \in DOMAIN NamedRow(y.config, y.records[1]) :
             NamedRow(c, w)[n] = NamedRow(y.config, y.records[1])[n]
        /\ \A n \in DOMAIN NamedRow(c, w) \ DOMAIN NamedRow(y.config, y.records[1]) :
             b \in mixed \/ NamedRow(c, w)[n] = Blank
    BY <1>2, <2>2, WiderRowFilled
  <2> HIDE DEF w
  <2>6. DOMAIN x.records = {1} /\ x.records[1] = w
    BY <2>3
  <2>7. Fitting(x)
    BY <1>3, <2>4, <2>6 DEF Fitting
  <2>8. /\ DOMAIN TableOf(x).rows = DOMAIN TableOf(y).rows
        /\ \A i \in DOMAIN TableOf(y).rows :
             /\ Tables!Widens(TableOf(y).rows[i], TableOf(x).rows[i])
             /\ \A n \in DOMAIN TableOf(x).rows[i] \ DOMAIN TableOf(y).rows[i] :
                  b \in mixed \/ TableOf(x).rows[i][n] = Blank
    BY <1>6, <1>7, <2>1, <2>5, <2>6 DEF Tables!Widens
  <2>9. Tables!Declares(b, TableOf(y), TableOf(x))
    BY <1>8, <2>8 DEF Tables!Declares
  <2>10. Tables!Change(NamedTables, b, NamedTables[b], TableIn(x))
    BY <1>2, <1>6, <2>9 DEF Tables!Change
  <2> QED
    BY <1>1, <1>2, <1>3, <1>4, <2>7, <2>10, NamedStep
<1>10. CASE ~IsHeader(c)
  <2>1. x.records = y.records
    BY <1>3, <1>10
  <2>2. ASSUME b \notin mixed, NEW i \in DOMAIN y.records
        PROVE  Fits(c, y.records[i]) /\ NamedRow(c, y.records[i]) = NamedRow(y.config, y.records[i])
    <3>1. Sound(y.config.type, y.records[i]) /\ Fits(y.config, y.records[i])
      BY <1>2, <1>5, <2>2 DEF Fitting
    <3>2. NamedRow(c, y.records[i]) = NamedRow(y.config, y.records[i])
      BY <1>2, <3>1, WiderRowAsIs
    <3>3. \A t \in Types : /\ Len(y.records[i].slots[t]) \in Nat
                           /\ y.config.size[t] \in Nat /\ c.size[t] \in Nat
                           /\ c.size[t] >= y.config.size[t]
      BY <1>2, <1>5, <3>1, SoundLens DEF Widened, Tidy, Config
    <3>4. Fits(c, y.records[i])
      BY <3>1, <3>3 DEF Fits
    <3> QED
      BY <3>2, <3>4
  <2>3. b \notin mixed' => Fitting(x)
    BY <1>3, <2>1, <2>2 DEF Fitting
  <2>4. ASSUME b \notin mixed
        PROVE  Tables!Declares(b, TableOf(y), TableOf(x))
    <3>1. TableOf(x).rows = [i \in DOMAIN x.records |-> NamedRow(x.config, x.records[i])]
      BY DEF TableOf
    <3>2. TableOf(y).rows = [i \in DOMAIN y.records |-> NamedRow(y.config, y.records[i])]
      BY DEF TableOf
    <3>3. TableOf(x).rows = [i \in DOMAIN y.records |-> NamedRow(c, y.records[i])]
      BY <1>3, <2>1, <3>1
    <3>4. TableOf(x).rows = TableOf(y).rows
      BY <2>2, <2>4, <3>2, <3>3
    <3> QED
      BY <1>8, <3>4 DEF Tables!Declares
  <2>5. ASSUME b \in mixed
        PROVE  Tables!Declares(b, TableOf(y), TableOf(x))
    <3>1. ASSUME NEW i \in DOMAIN y.records
          PROVE  Tables!Widens(TableOf(y).rows[i], TableOf(x).rows[i])
      <4>1. /\ TableOf(y).rows[i] = NamedRow(y.config, y.records[i])
            /\ TableOf(x).rows[i] = NamedRow(c, y.records[i])
            /\ Sound(y.config.type, y.records[i])
        BY <1>5, <1>6, <1>7, <2>1, <3>1
      <4> QED
        BY <1>2, <4>1, WiderRowShows DEF Tables!Widens
    <3> QED
      BY <1>6, <1>7, <1>8, <2>1, <2>5, <3>1 DEF Tables!Declares
  <2>6. Tables!Change(NamedTables, b, NamedTables[b], TableIn(x))
    <3>1. Tables!Declares(b, TableOf(y), TableOf(x))
      BY <2>4, <2>5
    <3> QED
      BY <1>2, <1>6, <3>1 DEF Tables!Change
  <2> QED
    BY <1>1, <1>2, <1>3, <1>4, <2>3, <2>6, NamedStep
<1> QED
  BY <1>9, <1>10

LEMMA NewVariableNamed ==
  ASSUME Inv, NamedInv, NEW b \in Live, NEW f \in NewFields, NewVariable(b, f[1], f[2])
  PROVE  NamedInv' /\ [Tables!NNext]_<<NamedTables, mixed>>
<1> DEFINE c == AddField(br[b].config, f[2], f[1])
<1>1. Inv' /\ Live' = Live
  BY NewVariableInv
<1>2. f[1] \in Names /\ f[2] \in Types
  BY BranchAssumption
<1>3. /\ ~HasField(br[b].config, f[1]) /\ mixed' = mixed
      /\ br' = [br EXCEPT ![b] = Extended(@, c)]
  BY DEF NewVariable, Declares
<1>4. Tidy(c) /\ Widened(br[b].config, c)
  BY <1>2, <1>3, NamedFacts, AddFieldTidy
<1> HIDE DEF c
<1> QED
  BY <1>1, <1>3, <1>4, DeclaresNamed

LEMMA CloneVariablesNamed ==
  ASSUME Inv, NamedInv, NEW b \in Live, NEW s \in Live, CloneVariables(b, s)
  PROVE  NamedInv' /\ [Tables!NNext]_<<NamedTables, mixed>>
<1> DEFINE c == WithFieldsOf(br[b].config, br[s].config)
<1>1. Inv' /\ Live' = Live
  BY CloneVariablesInv
<1>2. br' = [br EXCEPT ![b] = Extended(@, c)] /\ mixed' = mixed
  BY DEF CloneVariables, Declares
<1>3. Tidy(c) /\ Widened(br[b].config, c)
  BY NamedFacts, WithFieldsOfTidy
<1> HIDE DEF c
<1> QED
  BY <1>1, <1>2, <1>3, DeclaresNamed

\* The table of a branch that only changed its records.
LEMMA RecordsTable ==
  ASSUME NEW y, SoundBranch(y), Tidy(y.config), NEW x, SoundBranch(x),
         x.config = y.config
  PROVE  /\ TableOf(x) = [TableOf(y) EXCEPT !.rows = TableOf(x).rows]
         /\ TableOf(x).types = TableOf(y).types
<1>1. Tidy(y.config) /\ Tidy(x.config)
  OBVIOUS
<1>2. /\ TableOf(x) = [types |-> TableOf(x).types, rows |-> TableOf(x).rows]
      /\ TableOf(y) = [types |-> TableOf(y).types, rows |-> TableOf(y).rows]
  BY <1>1, TableFacts
<1>3. TableOf(x).types = TableOf(y).types
  BY DEF TableOf
<1> DEFINE t == TableOf(x)
           u == TableOf(y)
<1> HIDE DEF t, u
<1>4. t = [types |-> t.types, rows |-> t.rows] /\ u = [types |-> u.types, rows |-> u.rows]
      /\ t.types = u.types
  BY <1>2, <1>3 DEF t, u
<1>5. t = [u EXCEPT !.rows = t.rows]
  BY <1>4
<1> QED
  BY <1>3, <1>5 DEF t, u

LEMMA FunctionSeq ==
  ASSUME NEW n \in Nat, NEW S, NEW f \in [1 .. n -> S]
  PROVE  f \in Seq(S) /\ Len(f) = n
OBVIOUS

\* A row more.
Listing(s, n) == s = [i \in 1 .. n |-> s[i]]

LEMMA Appended ==
  ASSUME NEW n \in Nat, NEW s, Listing(s, n), NEW t, Listing(t, n + 1),
         \A i \in 1 .. n : t[i] = s[i]
  PROVE  t = Append(s, t[n + 1])
<1> DEFINE e == t[n + 1]
           S == {s[i] : i \in 1 .. n} \cup {e}
<1>1. s \in Seq(S) /\ Len(s) = n
  <2>1. \A i \in 1 .. n : s[i] \in S
    OBVIOUS
  <2> HIDE DEF S
  <2>2. s \in [1 .. n -> S]
    BY <2>1 DEF Listing
  <2> QED
    BY <2>2, FunctionSeq
<1>2. e \in S
  OBVIOUS
<1> HIDE DEF S, e
<1>3. /\ Append(s, e) \in Seq(S) /\ Len(Append(s, e)) = n + 1
      /\ \A i \in 1 .. n : Append(s, e)[i] = s[i]
      /\ Append(s, e)[n + 1] = e
  BY <1>1, <1>2
<1>4. /\ DOMAIN Append(s, e) = 1 .. n + 1
      /\ Append(s, e) = [i \in 1 .. n + 1 |-> Append(s, e)[i]]
  <2>1. ASSUME NEW f \in Seq(S)
        PROVE  DOMAIN f = 1 .. Len(f) /\ f = [i \in 1 .. Len(f) |-> f[i]]
    OBVIOUS
  <2> QED
    BY <1>3, <2>1
<1>5. \A i \in 1 .. n + 1 : t[i] = Append(s, e)[i]
  <2> SUFFICES ASSUME NEW i \in 1 .. n + 1 PROVE t[i] = Append(s, e)[i]
    OBVIOUS
  <2>1. i = n + 1 \/ i \in 1 .. n
    OBVIOUS
  <2> QED
    BY <1>3, <2>1 DEF e
<1> DEFINE a == Append(s, e)
<1> HIDE DEF a
<1>6. a = [i \in 1 .. n + 1 |-> a[i]] /\ \A i \in 1 .. n + 1 : t[i] = a[i]
  BY <1>4, <1>5 DEF a
<1>7. t = a
  BY <1>6 DEF Listing
<1> QED
  BY <1>7 DEF a, e

\* NewChannel: a blank row more.
LEMMA NewChannelNamed ==
  ASSUME Inv, NamedInv, NEW b \in Live, NewChannel(b)
  PROVE  NamedInv' /\ [Tables!NNext]_<<NamedTables, mixed>>
<1> DEFINE y == br[b]
           r == NewRecord(y.config)
           rs == Append(y.records, r)
           x == [y EXCEPT !.records = rs, !.frozen = TRUE]
<1>1. br' = [br EXCEPT ![b] = x] /\ mixed' = mixed
  BY DEF NewChannel
<1>2. /\ SoundBranch(y) /\ Tidy(y.config) /\ b \in Branches
      /\ b \notin mixed => Fitting(y)
      /\ \A s \in Branches : Renames(y.mapping[s])
      /\ NamedTables[b] = TableOf(y) /\ NamedTables[b] # NoBranch
  BY NamedFacts
<1>3. /\ y = [config |-> y.config, mutable |-> y.mutable, frozen |-> y.frozen,
              hash |-> y.hash, records |-> y.records, mapping |-> y.mapping]
      /\ y.config \in Config /\ y.config.type \in DetTypes
      /\ y.records \in Seq(AnyRecord)
  BY <1>2, BranchParts
<1>4. /\ NamedRow(y.config, r) = [n \in StoredFields(y.config) |-> Blank]
      /\ Fits(y.config, r) /\ r \in AnyRecord
  BY <1>2, <1>3, FreshRow, NewRecordSound, SoundTyped DEF Tidy
<1>5. Inv' /\ Live' = Live
  BY NewChannelInv
<1> DEFINE m == Len(y.records)
<1> HIDE DEF r, m
<1>6. /\ m \in Nat /\ DOMAIN y.records = 1 .. m /\ DOMAIN rs = 1 .. m + 1
      /\ rs[m + 1] = r /\ \A i \in 1 .. m : rs[i] = y.records[i]
  BY <1>3, <1>4 DEF m
<1> HIDE DEF rs, x
<1>7. x.config = y.config /\ x.records = rs /\ x.mapping = y.mapping
  <2>1. x = [y EXCEPT !.records = rs, !.frozen = TRUE]
    BY DEF x
  <2>2. x = [config |-> y.config, mutable |-> y.mutable, frozen |-> TRUE,
             hash |-> y.hash, records |-> rs, mapping |-> y.mapping]
    BY <1>3, <2>1
  <2> QED
    BY <2>2
<1>8. SoundBranch(x)
  BY <1>1, <1>5, ChangedSound
<1>9. b \notin mixed' => Fitting(x)
  <2> SUFFICES ASSUME b \notin mixed', NEW i \in 1 .. m + 1
               PROVE  Fits(y.config, rs[i])
    BY <1>6, <1>7 DEF Fitting
  <2>1. i = m + 1 \/ i \in 1 .. m
    BY <1>6
  <2> QED
    BY <1>1, <1>2, <1>4, <1>6, <2>1 DEF Fitting
<1>10. Tidy(x.config) /\ x # NoBranch
  BY <1>2, <1>7, <1>8 DEF SoundBranch
<1> DEFINE old == TableOf(y)
           new == TableOf(x)
<1>11. new = [old EXCEPT !.rows = Append(old.rows, [n \in DOMAIN old.types |-> Blank])]
  <2> DEFINE s == old.rows
             t == new.rows
             e == [n \in DOMAIN old.types |-> Blank]
  <2>1. /\ s = [i \in DOMAIN y.records |-> NamedRow(y.config, y.records[i])]
        /\ t = [i \in DOMAIN x.records |-> NamedRow(x.config, x.records[i])]
    BY <1>2, <1>8, <1>10, TableFacts
  <2>2. DOMAIN old.types = StoredFields(y.config)
    BY <1>2, TableParts
  <2>3. e = NamedRow(y.config, r)
    BY <1>4, <2>2
  <2>4. new = [old EXCEPT !.rows = t]
    BY <1>2, <1>7, <1>8, RecordsTable
  <2> HIDE DEF old, new, s, t, e
  <2>5. /\ s = [i \in 1 .. m |-> NamedRow(y.config, y.records[i])]
        /\ t = [i \in 1 .. m + 1 |-> NamedRow(y.config, rs[i])]
    BY <1>6, <1>7, <2>1
  <2>6. /\ Listing(s, m) /\ Listing(t, m + 1)
        /\ \A i \in 1 .. m : t[i] = s[i]
        /\ t[m + 1] = NamedRow(y.config, r)
    BY <1>6, <2>5 DEF Listing
  <2>7. t[m + 1] = e
    BY <2>3, <2>6
  <2>8. t = Append(s, e)
    BY <1>6, <2>6, <2>7, Appended
  <2> QED
    BY <2>4, <2>8 DEF s, e
<1>12. Tables!GainsRow(old, new)
  BY <1>11 DEF Tables!GainsRow, Tables!Blanks
<1>13. TableIn(x) = new /\ new # NoBranch
  BY <1>8, <1>10, TableParts
<1>14. Tables!Change(NamedTables, b, NamedTables[b], TableIn(x))
  BY <1>1, <1>2, <1>12, <1>13 DEF Tables!Change
<1> QED
  BY <1>1, <1>2, <1>7, <1>9, <1>10, <1>14, NamedStep

\* ClearChannels: no row.
LEMMA ClearChannelsNamed ==
  ASSUME Inv, NamedInv, NEW b \in Live, ClearChannels(b)
  PROVE  NamedInv' /\ [Tables!NNext]_<<NamedTables, mixed>>
<1> DEFINE y == br[b]
           x == [y EXCEPT !.records = <<>>]
<1>1. br' = [br EXCEPT ![b] = x] /\ mixed' = mixed \ {b}
  BY DEF ClearChannels
<1>2. /\ SoundBranch(y) /\ Tidy(y.config) /\ b \in Branches
      /\ b \notin mixed => Fitting(y)
      /\ \A s \in Branches : Renames(y.mapping[s])
      /\ NamedTables[b] = TableOf(y) /\ NamedTables[b] # NoBranch
  BY NamedFacts
<1>3. x.config = y.config /\ x.records = <<>> /\ x.mapping = y.mapping
  BY <1>2, BranchParts
<1>4. SoundBranch(x)
  BY <1>1, ChangedSound, ClearChannelsInv
<1> HIDE DEF x
<1>5. Tidy(x.config) /\ Fitting(x)
  BY <1>2, <1>3 DEF Fitting
<1>6. TableOf(x).rows = <<>>
  <2>1. TableOf(x).rows = [i \in DOMAIN x.records |-> NamedRow(x.config, x.records[i])]
    BY DEF TableOf
  <2>2. DOMAIN x.records = {}
    BY <1>3
  <2>3. TableOf(x).rows = [i \in {} |-> NamedRow(x.config, x.records[i])]
    BY <2>1, <2>2
  <2> QED
    BY <2>3
<1>7. TableOf(x) = [TableOf(y) EXCEPT !.rows = TableOf(x).rows]
  BY <1>2, <1>3, <1>4, RecordsTable
<1>8. TableIn(x) = TableOf(x) /\ TableOf(x) # NoBranch
  BY <1>4, <1>5, TableParts
<1>9. Tables!Change(NamedTables, b, NamedTables[b], TableIn(x))
  BY <1>1, <1>2, <1>6, <1>7, <1>8 DEF Tables!Change, Tables!Clears
<1>10. mixed' \ {b} = mixed \ {b} /\ b \notin mixed'
  BY <1>1
<1> QED
  BY <1>1, <1>2, <1>3, <1>5, <1>9, <1>10, NamedStep

\* Branch x is y but for record i, which is r now.
ReplacesRecord(y, x, i, r) ==
  /\ x.config = y.config /\ i \in DOMAIN y.records
  /\ x.records = [y.records EXCEPT ![i] = r]

\* The table of a branch that replaced one record.
LEMMA OneRowTable ==
  ASSUME NEW y, SoundBranch(y), Tidy(y.config), NEW x, SoundBranch(x),
         NEW i, NEW r, ReplacesRecord(y, x, i, r)
  PROVE  /\ Fitting(y) /\ Fits(y.config, r) => Fitting(x)
         /\ x # NoBranch /\ Sound(y.config.type, r)
         /\ TableIn(x) = TableOf(x) /\ TableOf(x) # NoBranch
         /\ i \in DOMAIN TableOf(y).rows
         /\ DOMAIN TableOf(x).rows = DOMAIN TableOf(y).rows
         /\ TableOf(y).rows[i] = NamedRow(y.config, y.records[i])
         /\ TableOf(x).rows[i] = NamedRow(y.config, r)
         /\ TableOf(x) = [TableOf(y) EXCEPT !.rows[i] = TableOf(x).rows[i]]
<1>1. /\ DOMAIN x.records = DOMAIN y.records /\ x.records[i] = r
      /\ \A j \in DOMAIN y.records : j # i => x.records[j] = y.records[j]
      /\ x.config = y.config /\ i \in DOMAIN y.records
  BY DEF ReplacesRecord
<1>2. /\ Fitting(y) /\ Fits(y.config, r) => Fitting(x)
      /\ x # NoBranch
  BY <1>1 DEF Fitting, SoundBranch
<1>3. Tidy(y.config)
  OBVIOUS
<1>4. Sound(y.config.type, r)
  BY <1>1, BranchParts
<1>5. /\ DOMAIN TableOf(y).rows = DOMAIN y.records
      /\ \A j \in DOMAIN y.records : TableOf(y).rows[j] = NamedRow(y.config, y.records[j])
      /\ DOMAIN TableOf(x).rows = DOMAIN x.records
      /\ \A j \in DOMAIN x.records : TableOf(x).rows[j] = NamedRow(y.config, x.records[j])
      /\ TableIn(x) = TableOf(x) /\ TableOf(x) # NoBranch
  BY <1>1, <1>3, TableParts
<1>6. TableOf(x) = [TableOf(y) EXCEPT !.rows = TableOf(x).rows]
  BY <1>1, RecordsTable
<1>7. /\ TableOf(x).rows = [j \in DOMAIN x.records |-> NamedRow(x.config, x.records[j])]
      /\ TableOf(y).rows = [j \in DOMAIN y.records |-> NamedRow(y.config, y.records[j])]
  BY DEF TableOf
<1> DEFINE old == TableOf(y)
           new == TableOf(x)
           s == old.rows
           t == new.rows
<1> HIDE DEF old, new
<1>8. /\ t = [j \in DOMAIN y.records |-> t[j]] /\ s = [j \in DOMAIN y.records |-> s[j]]
      /\ \A j \in DOMAIN y.records : j # i => t[j] = s[j]
      /\ new = [old EXCEPT !.rows = t]
  <2>1. \A j \in DOMAIN y.records : j # i => TableOf(x).rows[j] = TableOf(y).rows[j]
    BY <1>1, <1>5
  <2> QED
    BY <1>1, <1>6, <1>7, <2>1 DEF old, new
<1> HIDE DEF s, t
<1>9. t = [s EXCEPT ![i] = t[i]]
  BY <1>8
<1>10. new = [old EXCEPT !.rows[i] = t[i]]
  BY <1>8, <1>9 DEF s
<1> QED
  BY <1>1, <1>2, <1>4, <1>5, <1>10 DEF old, new, t

\* SetValue: one value of one row, converted; none if the field is computed.
LEMMA SetValueNamed ==
  ASSUME Inv, NamedInv, NEW b \in Live, NEW i \in Records(b), NEW n \in UserNames,
         NEW v \in Inputs, SetValue(b, i, n, v)
  PROVE  NamedInv' /\ [Tables!NNext]_<<NamedTables, mixed>>
<1> DEFINE y == br[b]
           c == y.config
           f == FieldOf(c, n)
           q == y.records[i]
           g == [h \in {f} |-> v]
           r == Written(q, {f}, g)
           rs == [y.records EXCEPT ![i] = r]
           x == [y EXCEPT !.records = rs]
<1>1. /\ HasField(c, n) /\ Holds(q, f)
      /\ br' = [br EXCEPT ![b] = x] /\ mixed' = mixed
  BY DEF SetValue
<1>2. /\ SoundBranch(y) /\ Tidy(c) /\ b \in Branches
      /\ b \notin mixed => Fitting(y)
      /\ \A s \in Branches : Renames(y.mapping[s])
      /\ NamedTables[b] = TableOf(y) /\ NamedTables[b] # NoBranch
  BY NamedFacts
<1>3. n \in Names /\ v \in Values
  BY BranchAssumption DEF UserNames
<1>4. /\ i \in DOMAIN y.records /\ Sound(c.type, q) /\ c \in Config
      /\ b \notin mixed => Fits(c, q)
  BY <1>2, BranchParts DEF Records, Fitting
<1>5. x.config = y.config /\ x.records = rs /\ x.mapping = y.mapping
  BY <1>2, BranchParts
<1>6. SoundBranch(x)
  BY <1>1, ChangedSound, SetValueInv
<1>7. f \in Field /\ f.type = GetFieldType(c, n) /\ f.name = n
  BY <1>1, <1>2, <1>3, TidyField
<1>8. {f} \in SUBSET Field /\ g[f] = v /\ \A h \in {f} : g[h] \in Values
  BY <1>3, <1>7
<1>9. AreFields(c, {f})
  BY <1>1, <1>3 DEF AreFields
<1>10. \A m \in Names : HasField(c, m) => FieldOf(c, m).name = m
  BY <1>2, TidyField
<1> HIDE DEF x, q, f, g
<1>11. Sound(c.type, r) /\ \A t \in Types : Len(r.slots[t]) = Len(q.slots[t])
  BY <1>4, <1>8, WrittenSound
<1>12. /\ \A m \in Names : Shown(c, r, m) <=> Shown(c, q, m)
       /\ \A m \in Names : Shown(c, q, m) =>
            Value(r, FieldOf(c, m)) =
              IF FieldOf(c, m) \in {f} THEN Convert(GetFieldType(c, m), g[FieldOf(c, m)])
              ELSE Value(q, FieldOf(c, m))
  <2>1. WritesOver(c, q, r, {f}, g)
    BY <1>2, <1>4, <1>9, <1>11, WrittenRow
  <2> QED
    BY <2>1 DEF WritesOver
<1> HIDE DEF r
<1>13. b \notin mixed => Fits(c, r)
  BY <1>4, <1>11 DEF Fits
<1>14. /\ b \notin mixed => Fitting(x)
       /\ x # NoBranch /\ TableIn(x) = TableOf(x) /\ TableOf(x) # NoBranch
       /\ i \in DOMAIN TableOf(y).rows
       /\ DOMAIN TableOf(x).rows = DOMAIN TableOf(y).rows
       /\ TableOf(y).rows[i] = NamedRow(c, q) /\ TableOf(x).rows[i] = NamedRow(c, r)
       /\ TableOf(x) = [TableOf(y) EXCEPT !.rows[i] = TableOf(x).rows[i]]
  <2>1. ReplacesRecord(y, x, i, r)
    BY <1>4, <1>5 DEF ReplacesRecord
  <2> QED
    BY <1>2, <1>4, <1>6, <1>13, <2>1, OneRowTable DEF q
<1>15. \A m \in Names : Shown(c, q, m) /\ m # n => Value(r, FieldOf(c, m)) = Value(q, FieldOf(c, m))
  BY <1>7, <1>10, <1>12 DEF Shown
<1>16. CASE ~Shown(c, q, n)
  <2>1. NamedRow(c, r) = NamedRow(c, q)
    BY <1>2, <1>4, <1>11, <1>12, <1>15, <1>16, SameRow
  <2> DEFINE old == TableOf(y)
  <2> HIDE DEF old
  <2>2. TableOf(x) = [old EXCEPT !.rows[i] = old.rows[i]]
    BY <1>14, <2>1 DEF old
  <2>3. old = [types |-> old.types, rows |-> old.rows]
        /\ old.rows = [j \in DOMAIN old.rows |-> old.rows[j]]
    <3>1. /\ TableOf(y) = [types |-> TableOf(y).types, rows |-> TableOf(y).rows]
          /\ TableOf(y).rows = [j \in DOMAIN y.records |-> NamedRow(c, y.records[j])]
      BY <1>2, TableFacts
    <3> QED
      BY <3>1 DEF old
  <2>4. TableOf(x) = old
    BY <2>2, <2>3
  <2> QED
    BY <1>1, <1>2, <1>5, <1>14, <2>4, NamedStep DEF old
<1>17. CASE Shown(c, q, n)
  <2> DEFINE old == TableOf(y)
             new == TableOf(x)
             o == NamedRow(c, q)
             w == NamedRow(c, r)
  <2>1. /\ DOMAIN o \subseteq Names /\ o = [m \in DOMAIN o |-> o[m]]
        /\ \A m \in Names : m \in DOMAIN o <=> Shown(c, q, m)
        /\ \A m \in DOMAIN o : o[m] = Value(q, FieldOf(c, m))
    BY <1>2, <1>4, RowFacts
  <2>2. /\ DOMAIN w \subseteq Names /\ w = [m \in DOMAIN w |-> w[m]]
        /\ \A m \in Names : m \in DOMAIN w <=> Shown(c, r, m)
        /\ \A m \in DOMAIN w : w[m] = Value(r, FieldOf(c, m))
    BY <1>2, <1>11, RowFacts
  <2> HIDE DEF o, w
  <2>3. DOMAIN w = DOMAIN o /\ n \in DOMAIN o
    BY <1>3, <1>12, <1>17, <2>1, <2>2
  <2>4. \A m \in DOMAIN o : m # n => w[m] = o[m]
    BY <1>12, <1>15, <2>1, <2>2, <2>3
  <2>5. w[n] = Convert(f.type, v)
    BY <1>3, <1>7, <1>8, <1>12, <1>17, <2>2, <2>3 DEF f
  <2>6. w = [o EXCEPT ![n] = w[n]]
    BY <2>1, <2>2, <2>3, <2>4
  <2>7. old.types[n] = f.type
    <3>1. n \in StoredFields(c)
      BY <1>2, <1>3, <1>17, StoredOf DEF Shown
    <3> QED
      BY <1>2, <1>7, <3>1, TableParts
  <2>8. w[n] = Convert(old.types[n], w[n])
    BY <1>3, <1>7, <2>5, <2>7, ConvertTwice DEF Field
  <2> HIDE DEF old, new
  <2>9. /\ old.rows[i] = o /\ new.rows[i] = w /\ i \in DOMAIN old.rows
        /\ DOMAIN new.rows = DOMAIN old.rows
        /\ new = [old EXCEPT !.rows[i] = w]
    BY <1>14 DEF old, new, o, w
  <2>10. new = [old EXCEPT !.rows[i][n] = w[n]]
    BY <2>6, <2>9
  <2>11. Tables!WritesOne(old, new)
    BY <2>3, <2>8, <2>9, <2>10 DEF Tables!WritesOne
  <2>12. Tables!Change(NamedTables, b, NamedTables[b], TableIn(x))
    BY <1>1, <1>2, <1>14, <2>11 DEF Tables!Change, old, new
  <2> QED
    BY <1>1, <1>2, <1>5, <1>14, <2>12, NamedStep
<1> QED
  BY <1>16, <1>17

\* The pairs a copy uses relate fields that the two branches have.
LEMMA MappedFields ==
  ASSUME Inv, NamedInv, NEW d \in Live, NEW s \in Live, NEW p \in Prefixes,
         NEW x \in MappingOf(d, s, p)
  PROVE  /\ x[1].name \in Names /\ HasField(br[s].config, x[1].name)
         /\ x[2].name \in Names /\ HasField(br[d].config, x[2].name)
         /\ x[1] = FieldOf(br[s].config, x[1].name)
         /\ x[2] = FieldOf(br[d].config, x[2].name)
         /\ Renamed(x[1].name, x[2].name)
<1>1. Renamed(x[1].name, x[2].name)
  BY NextRenames
<1>2. s \in Branches /\ br[d].config \in Config /\ br[s].config \in Config
  BY NamedFacts, BranchParts
<1>3. CASE br[d].mapping[s] # NoMapping
  <2>1. x \in br[d].mapping[s]
    BY <1>3 DEF MappingOf
  <2> QED
    BY <1>1, <1>2, <1>3, <2>1, MappingTyped
<1>4. CASE br[d].mapping[s] = NoMapping
  <2>1. x \in Pairs(br[s].config, br[d].config, p)
    BY <1>4 DEF MappingOf
  <2>2. PICK n \in Names :
          /\ x = <<FieldOf(br[s].config, n), FieldOf(br[d].config, Target(p, n))>>
          /\ HasField(br[s].config, n)
          /\ Target(p, n) \in Names /\ HasField(br[d].config, Target(p, n))
    BY <2>1 DEF Pairs
  <2>3. x[1].name = n /\ x[2].name = Target(p, n)
    BY <1>2, <2>2, FieldFacts
  <2> QED
    BY <1>1, <2>2, <2>3
<1> QED
  BY <1>3, <1>4

\* A field that a record has but does not show is computed, and reads blank.
LEMMA ComputedBlank ==
  ASSUME NEW c, Tidy(c), NEW r, Sound(c.type, r), NEW n \in Names,
         HasField(c, n), Holds(r, FieldOf(c, n)), ~Shown(c, r, n)
  PROVE  /\ n \in Derived /\ n \notin StoredFields(c)
         /\ Value(r, FieldOf(c, n)) = Blank
<1> DEFINE f == FieldOf(c, n)
<1>1. f.id < 0 /\ n \in Derived
  BY DEF Shown
<1>2. n \notin StoredFields(c)
  BY <1>1, StoredOf
<1>3. /\ f \in Field /\ f.type = GetFieldType(c, n) /\ f.id # Undef
      /\ f.id = DefaultId(c.type, f.type, n) /\ c.type \in DetTypes
  BY <1>1, TidyField DEF Tidy, Config
<1>4. f.type \in Types /\ f.id \in Int
  BY <1>3 DEF Field
<1> HIDE DEF f
<1>5. f.id \notin MemberIds(c.type)
  <2> SUFFICES ASSUME f.id \in MemberIds(c.type) PROVE FALSE
    OBVIOUS
  <2>1. PICK u \in Types : \E m \in Names \ Derived : f.id = DefaultId(c.type, u, m)
    BY DEF MemberIds
  <2>2. PICK m \in Names \ Derived : f.id = DefaultId(c.type, u, m)
    BY <2>1
  <2>3. /\ DefaultId(c.type, u, m) = DefaultId(c.type, f.type, n)
        /\ DefaultId(c.type, u, m) # Undef
    BY <1>3, <2>2
  <2>4. c.type \in DetTypes /\ f.type \in Types /\ m \in Names
    BY <1>3, <1>4
  <2>5. m = n
    BY <2>3, <2>4, OneDefault
  <2> QED
    BY <1>1, <2>2, <2>5
<1>6. ~ (f.id >= 0)
  BY <1>1, <1>4 DEF f
<1>7. Value(r, f) = Blank
  BY <1>5, <1>6, SoundLens DEF Value
<1> QED
  BY <1>1, <1>2, <1>7 DEF f

\* The pairs relate fields of config e to fields of c of the same or the prefixed
\* name.
MapsFields(e, c, pairs) ==
  \A x \in pairs :
    /\ x[1].name \in Names /\ HasField(e, x[1].name)
    /\ x[2].name \in Names /\ HasField(c, x[2].name)
    /\ x[1] = FieldOf(e, x[1].name) /\ x[2] = FieldOf(c, x[2].name)
    /\ Renamed(x[1].name, x[2].name)

\* Row w has each value of row r, or that of a field of q in its place.
TakesFields(c, r, w, e, q) ==
  /\ DOMAIN w = DOMAIN r
  /\ \A n \in DOMAIN r :
       \/ w[n] = r[n]
       \/ \E m \in DOMAIN q :
            Renamed(m, n) /\ w[n] = Convert(GetFieldType(c, n), q[m])
       \/ \E m \in Derived \ StoredFields(e) : Renamed(m, n) /\ w[n] = Blank

\* CopyContent: each field keeps its value, or takes that of a field of the
\* same or the prefixed name.
LEMMA CopiedRow ==
  ASSUME NEW c, Tidy(c), NEW r, Sound(c.type, r), NEW e, Tidy(e), NEW q, Sound(e.type, q),
         NEW pairs \in SUBSET (Field \X Field), MapsFields(e, c, pairs),
         NEW w, w = Copied(r, q, pairs)
  PROVE  /\ Sound(c.type, w) /\ \A t \in Types : Len(w.slots[t]) = Len(r.slots[t])
         /\ TakesFields(c, NamedRow(c, r), NamedRow(c, w), e, NamedRow(e, q))
<1> DEFINE done == CopiedPairs(r, q, pairs)
           targets == {p[2] : p \in done}
           src(f) == CHOOSE p \in done : p[2] = f
           v == [f \in targets |-> Value(q, src(f)[1])]
<1>1. Sound(c.type, w) /\ \A t \in Types : Len(w.slots[t]) = Len(r.slots[t])
  BY CopiedSound
<1>2. w = Written(r, targets, v)
  BY DEF Copied
<1>3. \A p \in done : p \in pairs /\ Holds(q, p[1])
  BY DEF CopiedPairs
<1>4. \A f \in targets : src(f) \in done /\ src(f)[2] = f /\ v[f] = Value(q, src(f)[1])
  OBVIOUS
<1>5. \A f \in targets : \E p \in done : f = p[2]
  OBVIOUS
<1> HIDE DEF done, targets, src, v
<1>6. AreFields(c, targets)
  BY <1>3, <1>5 DEF AreFields, MapsFields
<1>7. WritesOver(c, r, w, targets, v)
  BY <1>1, <1>2, <1>6, WrittenRow
<1>8. /\ DOMAIN NamedRow(c, r) \subseteq Names
      /\ \A n \in Names : n \in DOMAIN NamedRow(c, r) <=> Shown(c, r, n)
      /\ \A n \in DOMAIN NamedRow(c, r) : NamedRow(c, r)[n] = Value(r, FieldOf(c, n))
  BY RowFacts
<1>9. /\ DOMAIN NamedRow(c, w) \subseteq Names
      /\ \A n \in Names : n \in DOMAIN NamedRow(c, w) <=> Shown(c, w, n)
      /\ \A n \in DOMAIN NamedRow(c, w) : NamedRow(c, w)[n] = Value(w, FieldOf(c, n))
  BY <1>1, RowFacts
<1>10. /\ \A n \in Names : n \in DOMAIN NamedRow(e, q) <=> Shown(e, q, n)
       /\ \A n \in DOMAIN NamedRow(e, q) : NamedRow(e, q)[n] = Value(q, FieldOf(e, n))
  BY RowFacts
<1>11. DOMAIN NamedRow(c, w) = DOMAIN NamedRow(c, r)
  BY <1>7, <1>8, <1>9 DEF WritesOver
<1>12. ASSUME NEW n \in DOMAIN NamedRow(c, r)
       PROVE  \/ NamedRow(c, w)[n] = NamedRow(c, r)[n]
              \/ \E m \in DOMAIN NamedRow(e, q) :
                   /\ Renamed(m, n)
                   /\ NamedRow(c, w)[n] = Convert(GetFieldType(c, n), NamedRow(e, q)[m])
              \/ \E m \in Derived \ StoredFields(e) :
                   Renamed(m, n) /\ NamedRow(c, w)[n] = Blank
  <2> DEFINE f == FieldOf(c, n)
  <2>1. /\ n \in Names /\ Shown(c, r, n) /\ HasField(c, n)
        /\ NamedRow(c, w)[n] = Value(w, f) /\ NamedRow(c, r)[n] = Value(r, f)
    BY <1>8, <1>9, <1>11, <1>12 DEF Shown
  <2>2. Value(w, f) = IF f \in targets THEN Convert(GetFieldType(c, n), v[f]) ELSE Value(r, f)
    BY <1>7, <2>1 DEF WritesOver
  <2>3. f.name = n /\ GetFieldType(c, n) \in Types
    BY <2>1, TidyField DEF Field
  <2> HIDE DEF f
  <2>4. CASE f \notin targets
    BY <2>1, <2>2, <2>4
  <2>5. CASE f \in targets
    <3> DEFINE p == src(f)
               m == p[1].name
    <3>1. p \in pairs /\ Holds(q, p[1]) /\ p[2] = f /\ v[f] = Value(q, p[1])
      BY <1>3, <1>4, <2>5
    <3>2. /\ m \in Names /\ HasField(e, m) /\ p[1] = FieldOf(e, m)
          /\ Renamed(m, n)
      BY <2>3, <3>1 DEF MapsFields
    <3>3. NamedRow(c, w)[n] = Convert(GetFieldType(c, n), Value(q, FieldOf(e, m)))
      BY <2>1, <2>2, <2>5, <3>1, <3>2
    <3>4. Holds(q, FieldOf(e, m))
      BY <3>1, <3>2
    <3> HIDE DEF p, m
    <3>5. CASE Shown(e, q, m)
      BY <1>10, <3>2, <3>3, <3>5
    <3>6. CASE ~Shown(e, q, m)
      <4>1. /\ m \in Derived \ StoredFields(e)
            /\ Value(q, FieldOf(e, m)) = Blank
        BY <3>2, <3>4, <3>6, ComputedBlank
      <4>2. NamedRow(c, w)[n] = Blank
        BY <2>3, <3>3, <4>1, BlankFits
      <4> QED
        BY <3>2, <4>1, <4>2
    <3> QED
      BY <3>5, <3>6
  <2> QED
    BY <2>4, <2>5
<1> QED
  BY <1>1, <1>11, <1>12 DEF TakesFields

LEMMA CopyContentNamed ==
  ASSUME Inv, NamedInv, NEW d \in Live, NEW s \in Live, NEW p \in Prefixes,
         NEW i \in Records(d), NEW j \in Records(s), CopyContent(d, i, s, j, p)
  PROVE  NamedInv' /\ [Tables!NNext]_<<NamedTables, mixed>>
<1> DEFINE y == br[d]
           z == br[s]
           c == y.config
           e == z.config
           pairs == MappingOf(d, s, p)
           m == [y.mapping EXCEPT ![s] = pairs]
           r == Copied(y.records[i], z.records[j], pairs)
           rs == [y.records EXCEPT ![i] = r]
           x == [y EXCEPT !.mapping = m, !.records = rs]
<1>1. /\ br' = [br EXCEPT ![d].mapping[s] = pairs, ![d].records[i] = r]
      /\ MayMap(d, s) /\ mixed' = mixed
  BY DEF CopyContent
<1>2. Inv' /\ Live' = Live
  BY CopyContentInv
<1>3. /\ SoundBranch(y) /\ Tidy(c) /\ d \in Branches
      /\ d \notin mixed => Fitting(y)
      /\ NamedTables[d] = TableOf(y) /\ NamedTables[d] # NoBranch
      /\ SoundBranch(z) /\ Tidy(e) /\ s \in Branches
      /\ NamedTables[s] = TableOf(z) /\ NamedTables[s] # NoBranch
  BY NamedFacts
<1>4. /\ i \in DOMAIN y.records /\ Sound(c.type, y.records[i])
      /\ d \notin mixed => Fits(c, y.records[i])
      /\ j \in DOMAIN z.records /\ Sound(e.type, z.records[j])
  BY <1>3, BranchParts DEF Records, Fitting
<1>5. pairs \in SUBSET (Field \X Field)
  BY <1>1, NextMapping
<1>6. \A q \in Branches : Renames(m[q])
  BY NextRenames
<1>7. MapsFields(e, c, pairs)
  BY MappedFields DEF MapsFields
<1> HIDE DEF pairs
<1>8. /\ Sound(c.type, r) /\ \A t \in Types : Len(r.slots[t]) = Len(y.records[i].slots[t])
      /\ TakesFields(c, NamedRow(c, y.records[i]), NamedRow(c, r),
                     e, NamedRow(e, z.records[j]))
  BY <1>3, <1>4, <1>5, <1>7, CopiedRow
<1> HIDE DEF r
<1>9. br' = [br EXCEPT ![d] = x]
  BY <1>1
<1> HIDE DEF m, rs, x
<1>10. x.config = c /\ x.records = rs /\ x.mapping = m
  <2>1. y = [config |-> y.config, mutable |-> y.mutable, frozen |-> y.frozen,
             hash |-> y.hash, records |-> y.records, mapping |-> y.mapping]
    BY <1>3, BranchParts
  <2>2. x = [y EXCEPT !.mapping = m, !.records = rs]
    BY DEF x
  <2>3. x = [config |-> y.config, mutable |-> y.mutable, frozen |-> y.frozen,
             hash |-> y.hash, records |-> rs, mapping |-> m]
    BY <2>1, <2>2
  <2> QED
    BY <2>3
<1>11. SoundBranch(x)
  BY <1>2, <1>9, ChangedSound
<1>12. d \notin mixed => Fits(c, r)
  BY <1>4, <1>8 DEF Fits
<1>13. /\ d \notin mixed => Fitting(x)
       /\ x # NoBranch /\ TableIn(x) = TableOf(x) /\ TableOf(x) # NoBranch
       /\ i \in DOMAIN TableOf(y).rows
       /\ DOMAIN TableOf(x).rows = DOMAIN TableOf(y).rows
       /\ TableOf(y).rows[i] = NamedRow(c, y.records[i])
       /\ TableOf(x).rows[i] = NamedRow(c, r)
       /\ TableOf(x) = [TableOf(y) EXCEPT !.rows[i] = TableOf(x).rows[i]]
  <2>1. ReplacesRecord(y, x, i, r)
    BY <1>4, <1>10 DEF rs, ReplacesRecord
  <2> HIDE DEF y
  <2> QED
    BY <1>3, <1>4, <1>11, <1>12, <2>1, OneRowTable
<1>14. /\ DOMAIN TableOf(z).types = StoredFields(e)
       /\ j \in DOMAIN TableOf(z).rows
       /\ TableOf(z).rows[j] = NamedRow(e, z.records[j])
  BY <1>3, <1>4, TableParts
<1>15. ASSUME NEW n \in DOMAIN NamedRow(c, y.records[i])
       PROVE  TableOf(y).types[n] = GetFieldType(c, n)
  <2>1. n \in Names /\ Shown(c, y.records[i], n)
    BY <1>3, <1>4, <1>15, RowFacts
  <2>2. n \in StoredFields(c)
    BY <1>3, <2>1, StoredOf DEF Shown
  <2> QED
    BY <1>3, <2>2, TableParts
<1> DEFINE old == TableOf(y)
           new == TableOf(x)
<1>16. /\ DOMAIN new.rows[i] = DOMAIN old.rows[i]
       /\ \A n \in DOMAIN old.rows[i] :
            \/ new.rows[i][n] = old.rows[i][n]
            \/ \E k \in DOMAIN NamedTables[s].rows[j] :
                 /\ Renamed(k, n)
                 /\ new.rows[i][n] = Convert(old.types[n], NamedTables[s].rows[j][k])
            \/ \E k \in Derived \ DOMAIN NamedTables[s].types :
                 Renamed(k, n) /\ new.rows[i][n] = Blank
  BY <1>3, <1>8, <1>13, <1>14, <1>15 DEF TakesFields
<1>17. j \in DOMAIN NamedTables[s].rows
  BY <1>3, <1>14
<1>18. Tables!TakesOver(NamedTables, old, new)
  BY <1>3, <1>13, <1>16, <1>17 DEF Tables!TakesOver
<1>19. Tables!Change(NamedTables, d, NamedTables[d], TableIn(x))
  BY <1>1, <1>3, <1>13, <1>18 DEF Tables!Change
<1> QED
  BY <1>1, <1>3, <1>6, <1>9, <1>10, <1>13, <1>19, NamedStep

\* Configs of the same ids have the same sizes: no slot is free.
LEMMA SameSizes ==
  ASSUME NEW c, Tidy(c), NEW e, Tidy(e), c.id = e.id, NEW t \in Types
  PROVE  c.size[t] = e.size[t]
<1>1. c.size[t] \in Nat /\ e.size[t] \in Nat
  BY DEF Tidy, Config
<1>2. /\ \A n \in Names : c.id[t][n] < c.size[t] /\ c.id[t][n] < e.size[t]
      /\ \A n \in Names : c.id[t][n] \in Int
  BY DEF Tidy, HasSlots, Config
<1>3. ~ (c.size[t] < e.size[t])
  <2> SUFFICES ASSUME c.size[t] < e.size[t] PROVE FALSE
    OBVIOUS
  <2>1. PICK n \in Names : e.id[t][n] = c.size[t]
    BY <1>1 DEF Tidy
  <2> QED
    BY <1>1, <1>2, <2>1
<1>4. ~ (e.size[t] < c.size[t])
  <2> SUFFICES ASSUME e.size[t] < c.size[t] PROVE FALSE
    OBVIOUS
  <2>1. PICK n \in Names : c.id[t][n] = e.size[t]
    BY <1>1 DEF Tidy
  <2> QED
    BY <1>1, <1>2, <2>1
<1> QED
  BY <1>1, <1>3, <1>4

\* The types of two tables of the same ids are the same.
LEMMA SameTypes ==
  ASSUME NEW y, NEW z, y.config.id = z.config.id
  PROVE  /\ TableOf(y).types = TableOf(z).types
         /\ \A r : NamedRow(y.config, r) = NamedRow(z.config, r)
<1>1. /\ StoredFields(y.config) = StoredFields(z.config)
      /\ \A n \in Names : GetFieldType(y.config, n) = GetFieldType(z.config, n)
      /\ \A r : NamedRow(y.config, r) = NamedRow(z.config, r)
  BY RowOfIds
<1>2. \A n \in StoredFields(y.config) : n \in Names
  BY DEF StoredFields
<1>3. [n \in StoredFields(y.config) |-> GetFieldType(y.config, n)]
        = [n \in StoredFields(z.config) |-> GetFieldType(z.config, n)]
  BY <1>1, <1>2
<1> QED
  BY <1>1, <1>3 DEF TableOf

LEMMA HashIds ==
  ASSUME NEW c, NEW e, HashOf(c) = HashOf(e)
  PROVE  c.id = e.id /\ c.type = e.type
BY DEF HashOf

\* CopyContentsRaw: the rows become those of the other table, but for kGeneric,
\* which is left alone.
LEMMA CopyContentsRawNamed ==
  ASSUME Inv, NamedInv, NEW d \in Live, NEW s \in Live, CopyContentsRaw(d, s)
  PROVE  NamedInv' /\ [Tables!NNext]_<<NamedTables, mixed>>
<1> DEFINE y == br[d]
           z == br[s]
           x == [y EXCEPT !.records = RawCopy(d, s)]
<1>1. /\ y.hash = z.hash /\ br' = [br EXCEPT ![d] = x]
      /\ mixed' = IF y.config.type = "kGeneric" THEN mixed
                  ELSE IF s \in mixed THEN mixed \cup {d} ELSE mixed \ {d}
  BY DEF CopyContentsRaw, MayCopyRaw
<1>2. /\ SoundBranch(y) /\ Tidy(y.config) /\ d \in Branches
      /\ \A q \in Branches : Renames(y.mapping[q])
      /\ NamedTables[d] = TableOf(y) /\ NamedTables[d] # NoBranch
      /\ SoundBranch(z) /\ Tidy(z.config) /\ s \in Branches
      /\ s \notin mixed => Fitting(z)
      /\ NamedTables[s] = TableOf(z) /\ NamedTables[s] # NoBranch
  BY NamedFacts
<1>3. x.config = y.config /\ x.records = RawCopy(d, s) /\ x.mapping = y.mapping
  BY <1>2, BranchParts
<1>4. SoundBranch(x)
  BY <1>1, ChangedSound, CopyContentsRawInv
<1> HIDE DEF x
<1>5. CASE y.config.type = "kGeneric"
  <2>1. x.records = y.records /\ x # NoBranch
    BY <1>3, <1>4, <1>5 DEF RawCopy, SoundBranch
  <2> QED
    BY <1>1, <1>2, <1>3, <1>5, <2>1, NamedStutter
<1>6. CASE y.config.type # "kGeneric"
  <2>1. x.records = z.records
    BY <1>3, <1>6 DEF RawCopy
  <2>2. y.config.id = z.config.id
    <3>1. HashOf(y.config) = HashOf(z.config)
      BY <1>1, <1>2, BranchParts
    <3> QED
      BY <3>1, HashIds
  <2>3. \A t \in Types : y.config.size[t] = z.config.size[t]
    BY <1>2, <2>2, SameSizes
  <2>4. /\ mixed' = IF s \in mixed THEN mixed \cup {d} ELSE mixed \ {d}
        /\ mixed' \ {d} = mixed \ {d}
        /\ d \notin mixed' => Fitting(x)
    <3>1. mixed' = IF s \in mixed THEN mixed \cup {d} ELSE mixed \ {d}
      BY <1>1, <1>6
    <3>2. Fitting(z) => Fitting(x)
      BY <1>3, <2>1, <2>3 DEF Fitting, Fits
    <3> QED
      BY <1>2, <3>1, <3>2
  <2>5. /\ TableOf(y).types = TableOf(z).types
        /\ \A r : NamedRow(y.config, r) = NamedRow(z.config, r)
    BY <2>2, SameTypes
  <2>6. TableOf(x).rows = TableOf(z).rows
    <3>1. TableOf(x).rows = [i \in DOMAIN x.records |-> NamedRow(x.config, x.records[i])]
      BY DEF TableOf
    <3>2. TableOf(z).rows = [i \in DOMAIN z.records |-> NamedRow(z.config, z.records[i])]
      BY DEF TableOf
    <3>3. TableOf(x).rows = [i \in DOMAIN z.records |-> NamedRow(y.config, z.records[i])]
      BY <1>3, <2>1, <3>1
    <3> QED
      BY <2>5, <3>2, <3>3
  <2>7. TableOf(x) = [TableOf(y) EXCEPT !.rows = TableOf(x).rows]
    BY <1>2, <1>3, <1>4, RecordsTable
  <2>8. TableIn(x) = TableOf(x) /\ TableOf(x) # NoBranch
    BY <1>2, <1>3, <1>4, TableParts
  <2>9. Tables!TakesRows(NamedTables, d, TableOf(y), TableOf(x))
    BY <1>2, <2>4, <2>5, <2>6, <2>7 DEF Tables!TakesRows
  <2>10. Tables!Change(NamedTables, d, NamedTables[d], TableIn(x))
    BY <1>2, <2>8, <2>9 DEF Tables!Change
  <2>11. x # NoBranch
    BY <1>4 DEF SoundBranch
  <2> QED
    BY <1>1, <1>2, <1>3, <2>4, <2>10, <2>11, NamedStep
<1> QED
  BY <1>5, <1>6

\* What a record shows depends on its slots; its members are those of its type.
LEMMA RawRow ==
  ASSUME NEW c, Tidy(c), NEW q, Sound(c.type, q), NEW r, Sound(c.type, r),
         r.slots = q.slots, r.members = Members(c.type)
  PROVE  /\ DOMAIN NamedRow(c, r) = DOMAIN NamedRow(c, q)
         /\ \A n \in DOMAIN NamedRow(c, r) :
              NamedRow(c, r)[n] \in {NamedRow(c, q)[n], Blank}
<1>1. /\ DOMAIN NamedRow(c, r) \subseteq Names
      /\ \A n \in Names : n \in DOMAIN NamedRow(c, r) <=> Shown(c, r, n)
      /\ \A n \in DOMAIN NamedRow(c, r) : NamedRow(c, r)[n] = Value(r, FieldOf(c, n))
  BY RowFacts
<1>2. /\ DOMAIN NamedRow(c, q) \subseteq Names
      /\ \A n \in Names : n \in DOMAIN NamedRow(c, q) <=> Shown(c, q, n)
      /\ \A n \in DOMAIN NamedRow(c, q) : NamedRow(c, q)[n] = Value(q, FieldOf(c, n))
  BY RowFacts
<1>3. \A n \in Names : Shown(c, r, n) <=> Shown(c, q, n)
  BY DEF Shown, Holds
<1>4. DOMAIN NamedRow(c, r) = DOMAIN NamedRow(c, q)
  BY <1>1, <1>2, <1>3
<1>5. ASSUME NEW n \in DOMAIN NamedRow(c, r)
      PROVE  NamedRow(c, r)[n] \in {NamedRow(c, q)[n], Blank}
  <2> DEFINE f == FieldOf(c, n)
  <2>1. /\ NamedRow(c, r)[n] = Value(r, f) /\ NamedRow(c, q)[n] = Value(q, f)
    BY <1>1, <1>2, <1>4, <1>5
  <2> HIDE DEF f
  <2>2. CASE f.id >= 0
    BY <2>1, <2>2 DEF Value
  <2>3. CASE ~ (f.id >= 0)
    <3>1. \A i \in DOMAIN r.members : r.members[i] = Blank
      BY DEF Members
    <3>2. Value(r, f) = Blank
      BY <2>3, <3>1 DEF Value
    <3> QED
      BY <2>1, <3>2
  <2> QED
    BY <2>2, <2>3
<1> QED
  BY <1>4, <1>5

\* CopyContentRaw: a row takes the values of another, or what a new one has;
\* from a branch with other fields it takes anything, and the table is mixed.
LEMMA CopyContentRawNamed ==
  ASSUME Inv, NamedInv, NEW d \in Live, NEW s \in Live,
         NEW i \in Records(d), NEW j \in Records(s), CopyContentRaw(d, i, s, j)
  PROVE  NamedInv' /\ [Tables!NNext]_<<NamedTables, mixed>>
<1> DEFINE y == br[d]
           z == br[s]
           c == y.config
           e == z.config
           q == z.records[j]
           r == [slots |-> q.slots, members |-> RawMembers(c.type, e.type, q)]
           rs == [y.records EXCEPT ![i] = r]
           x == [y EXCEPT !.records = rs]
<1>1. /\ br' = [br EXCEPT ![d] = x]
      /\ mixed' = IF HashOf(c) = HashOf(e) /\ s \notin mixed THEN mixed
                  ELSE mixed \cup {d}
  BY DEF CopyContentRaw
<1>2. /\ SoundBranch(y) /\ Tidy(c) /\ d \in Branches
      /\ d \notin mixed => Fitting(y)
      /\ \A k \in Branches : Renames(y.mapping[k])
      /\ NamedTables[d] = TableOf(y) /\ NamedTables[d] # NoBranch
      /\ SoundBranch(z) /\ Tidy(e) /\ s \in Branches
      /\ s \notin mixed => Fitting(z)
      /\ NamedTables[s] = TableOf(z) /\ NamedTables[s] # NoBranch
  BY NamedFacts
<1>3. /\ i \in DOMAIN y.records /\ j \in DOMAIN z.records
      /\ Sound(e.type, q) /\ (s \notin mixed => Fits(e, q))
  BY <1>2, BranchParts DEF Records, Fitting
<1>4. x.config = c /\ x.records = rs /\ x.mapping = y.mapping
  BY <1>2, BranchParts
<1>5. SoundBranch(x)
  BY <1>1, ChangedSound, CopyContentRawInv
<1>6. r.slots = q.slots /\ r.members = RawMembers(c.type, e.type, q)
  OBVIOUS
<1> HIDE DEF x, q, r
<1>7. ReplacesRecord(y, x, i, r)
  BY <1>3, <1>4 DEF ReplacesRecord
<1>8. /\ Fitting(y) /\ Fits(c, r) => Fitting(x)
      /\ x # NoBranch /\ Sound(c.type, r)
      /\ TableIn(x) = TableOf(x) /\ TableOf(x) # NoBranch
      /\ i \in DOMAIN TableOf(y).rows
      /\ DOMAIN TableOf(x).rows = DOMAIN TableOf(y).rows
      /\ TableOf(x).rows[i] = NamedRow(c, r)
      /\ TableOf(x) = [TableOf(y) EXCEPT !.rows[i] = TableOf(x).rows[i]]
  BY <1>2, <1>5, <1>7, OneRowTable
<1> DEFINE old == TableOf(y)
           new == TableOf(x)
<1>9. CASE HashOf(c) = HashOf(e) /\ s \notin mixed
  <2>1. c.id = e.id /\ c.type = e.type /\ mixed' = mixed
    BY <1>1, <1>9, HashIds
  <2>2. Sound(c.type, q) /\ r.members = Members(c.type)
    BY <1>3, <1>6, <2>1 DEF RawMembers, Members
  <2>3. \A t \in Types : c.size[t] = e.size[t]
    BY <1>2, <2>1, SameSizes
  <2>4. Fits(c, r)
    BY <1>3, <1>6, <1>9, <2>3 DEF Fits
  <2>5. /\ DOMAIN NamedRow(c, r) = DOMAIN NamedRow(c, q)
        /\ \A n \in DOMAIN NamedRow(c, r) :
             NamedRow(c, r)[n] \in {NamedRow(c, q)[n], Blank}
    BY <1>2, <1>6, <1>8, <2>2, RawRow
  <2>6. old.types = TableOf(z).types /\ NamedRow(c, q) = NamedRow(e, q)
    BY <2>1, SameTypes
  <2>7. j \in DOMAIN TableOf(z).rows /\ TableOf(z).rows[j] = NamedRow(e, q)
    BY <1>2, <1>3, TableParts DEF q
  <2>8. /\ NamedTables[s].types = old.types /\ j \in DOMAIN NamedTables[s].rows
        /\ DOMAIN new.rows[i] = DOMAIN NamedTables[s].rows[j]
        /\ \A n \in DOMAIN new.rows[i] :
             new.rows[i][n] \in {NamedTables[s].rows[j][n], Blank}
    BY <1>2, <1>8, <2>5, <2>6, <2>7
  <2>9. Tables!TakesRow(NamedTables, old, new)
    BY <1>2, <1>8, <2>8 DEF Tables!TakesRow
  <2>10. Tables!Change(NamedTables, d, NamedTables[d], TableIn(x))
    BY <1>2, <1>8, <2>1, <2>9 DEF Tables!Change
  <2> QED
    BY <1>1, <1>2, <1>4, <1>8, <2>1, <2>4, <2>10, NamedStep
<1>10. CASE ~ (HashOf(c) = HashOf(e) /\ s \notin mixed)
  <2>1. mixed' = mixed \cup {d} /\ mixed' \ {d} = mixed \ {d} /\ d \in mixed'
    BY <1>1, <1>10
  <2>2. Tables!MixesRow(d, old, new)
    BY <1>8, <2>1 DEF Tables!MixesRow
  <2>3. Tables!Change(NamedTables, d, NamedTables[d], TableIn(x))
    BY <1>2, <1>8, <2>2 DEF Tables!Change
  <2> QED
    BY <1>1, <1>2, <1>4, <1>8, <2>1, <2>3, NamedStep
<1> QED
  BY <1>9, <1>10

LEMMA NamedInit == Init => NamedInv /\ Tables!NInit
<1> SUFFICES ASSUME Init PROVE NamedInv /\ Tables!NInit
  OBVIOUS
<1>1. br = [b \in Branches |-> NoBranch] /\ mixed = {}
  BY DEF Init
<1>2. Live = {}
  BY <1>1 DEF Live
<1>3. NamedTables = [b \in Branches |-> NoBranch]
  BY <1>2 DEF NamedTables
<1> QED
  BY <1>1, <1>2, <1>3 DEF NamedInv, Tables!NInit

LEMMA NextNamed == Inv /\ NamedInv /\ Next => NamedInv' /\ [Tables!NNext]_<<NamedTables, mixed>>
<1> SUFFICES ASSUME Inv, NamedInv, Next
             PROVE  NamedInv' /\ [Tables!NNext]_<<NamedTables, mixed>>
  OBVIOUS
<1> DEFINE Named == NamedInv' /\ [Tables!NNext]_<<NamedTables, mixed>>
<1>1. ASSUME NEW b \in Branches, NEW c \in Configs, NEW k \in 0 .. 1, Construct(b, c, k)
      PROVE  Named
  BY <1>1, ConstructNamed
<1>2. ASSUME NEW b \in Live,
             \/ Destroy(b)
             \/ \E is \in MutableArgs : SetMutable(b, is)
             \/ \E is \in BOOLEAN : Freeze(b, is)
             \/ \E f \in NewFields : NewVariable(b, f[1], f[2])
             \/ \E s \in Live : CloneVariables(b, s)
             \/ NewChannel(b)
             \/ ClearChannels(b)
             \/ \E i \in Records(b), n \in UserNames, v \in Inputs :
                  SetValue(b, i, n, v)
      PROVE  Named
  BY <1>2, DestroyNamed, SetMutableNamed, FreezeNamed, NewVariableNamed,
     CloneVariablesNamed, NewChannelNamed, ClearChannelsNamed, SetValueNamed
<1>3. ASSUME NEW d \in Live, NEW s \in Live,
             \/ \E p \in Prefixes : CreateMapping(d, s, p)
             \/ CopyContentsRaw(d, s)
             \/ \E i \in Records(d), j \in Records(s) :
                  \/ \E p \in Prefixes : CopyContent(d, i, s, j, p)
                  \/ CopyContentRaw(d, i, s, j)
      PROVE  Named
  BY <1>3, CreateMappingNamed, CopyContentsRawNamed, CopyContentNamed, CopyContentRawNamed
<1> HIDE DEF Named
<1>4. Named
  BY <1>1, <1>2, <1>3 DEF Next
<1> QED
  BY <1>4 DEF Named

LEMMA StutterNamed == NamedInv /\ UNCHANGED vars => NamedInv' /\ [Tables!NNext]_<<NamedTables, mixed>>
<1> SUFFICES ASSUME NamedInv, UNCHANGED vars
             PROVE  NamedInv' /\ [Tables!NNext]_<<NamedTables, mixed>>
  OBVIOUS
<1>1. br' = br /\ mixed' = mixed
  BY DEF vars
<1>2. Live' = Live
  BY <1>1 DEF Live
<1>3. NamedInv'
  BY <1>1, <1>2 DEF NamedInv
<1>4. NamedTables' = NamedTables
  BY <1>1, <1>2 DEF NamedTables
<1> QED
  BY <1>1, <1>3, <1>4

\* Every call on a Branch is a step of the tables it stands for: a value reads
\* back under the name it was written under, in the record it was written to,
\* whatever fields, records and mappings come and go in between.
THEOREM Refinement == Spec => ImplementsNamedRecords
BY InitInv, StepInv, StutterInv, NamedInit, NextNamed, StutterNamed, PTL
   DEF Spec, ImplementsNamedRecords, Tables!NSpec

(***************************************************************************)
(* BranchMerge: the configs.                                               *)
(***************************************************************************)
\* The fields of the attached config follow under their prefixed names.
LEMMA MergedTidy ==
  ASSUME NEW a, Tidy(a), NEW b, Tidy(b), NEW name \in BranchNames,
         MergeOk(a, b), NamesModelled(a, b)
  PROVE  /\ Tidy(Merged(a, b, name)) /\ Widened(a, Merged(a, b, name))
         /\ \A t \in Types : \A n \in Fields(b, t) :
              Merged(a, b, name).id[t][Prefixed(b.name, n)] >= 0
         /\ \A n \in Names :
              (\A t \in Types : \A k \in Fields(b, t) : n # Prefixed(b.name, k))
                => \A t \in Types : Merged(a, b, name).id[t][n] = a.id[t][n]
<1> DEFINE e == Merged(a, b, name)
           P(n) == Prefixed(b.name, n)
           F(t) == Fields(b, t)
           of(t, m) == CHOOSE n \in F(t) : m = P(n)
           fs == [t \in Types |-> {P(n) : n \in F(t)}]
           num == [t \in Types |-> [m \in fs[t] |-> Position(b, t, of(t, m))]]
           size == [t \in Types |-> Cardinality(F(t))]
<1>1. /\ a \in Config /\ b \in Config /\ b.name \in BranchNames /\ a.type \in DetTypes
      /\ \A t \in Types : a.size[t] \in Nat
      /\ \A t \in Types, n \in Names : a.id[t][n] \in Int /\ a.id[t][n] < a.size[t]
  BY DEF Tidy, Config, HasSlots
<1>2. \A t \in Types : F(t) \in SUBSET Names
  BY DEF Fields
<1>3. \A m, n \in Names : P(m) = P(n) => m = n
  BY <1>1, NamesAssumption
<1>4. \A t \in Types : \A n \in F(t) : of(t, P(n)) = n
  BY <1>2, <1>3
<1>5. \A t \in Types : \A n \in F(t) : Position(b, t, n) = CountBelow(F(t), n)
  BY DEF Position, CountBelow
<1>6. /\ \A t \in Types : fs[t] = {P(n) : n \in F(t)} /\ size[t] = Cardinality(F(t))
      /\ \A t \in Types : \A n \in F(t) : P(n) \in fs[t] /\ num[t][P(n)] = CountBelow(F(t), n)
  <2>1. \A t \in Types : \A m \in fs[t] : num[t][m] = Position(b, t, of(t, m))
    OBVIOUS
  <2>2. \A t \in Types : fs[t] = {P(n) : n \in F(t)} /\ size[t] = Cardinality(F(t))
    OBVIOUS
  <2> HIDE DEF fs, num, size, of, P, F
  <2> QED
    BY <1>4, <1>5, <2>1, <2>2
<1>7. /\ e.name = name /\ e.type = a.type
      /\ e = [name |-> e.name, type |-> e.type, id |-> e.id, size |-> e.size]
      /\ e.id = [t \in Types |-> [m \in Names |-> e.id[t][m]]]
      /\ e.size = [t \in Types |-> e.size[t]]
      /\ \A t \in Types : e.size[t] = a.size[t] + Cardinality(F(t))
  <2> DEFINE k == Clone(a, name, a.type)
             id == [t \in Types |-> [m \in Names |->
                      IF \E n \in F(t) : m = P(n)
                      THEN a.size[t] + Position(b, t, of(t, m))
                      ELSE k.id[t][m]]]
             sizes == [t \in Types |-> MergedSize(a, b, t)]
  <2>1. e = [name |-> name, type |-> a.type, id |-> id, size |-> sizes]
    <3>1. e = [k EXCEPT !.id = id, !.size = sizes]
      BY DEF Merged
    <3> HIDE DEF id, sizes
    <3>2. k = [name |-> name, type |-> a.type, id |-> k.id, size |-> a.size]
      BY DEF Clone
    <3> DEFINE i == k.id
    <3>3. k = [name |-> name, type |-> a.type, id |-> i, size |-> a.size]
      BY <3>2
    <3> HIDE DEF e, k, i
    <3>4. [k EXCEPT !.id = id]
            = [name |-> name, type |-> a.type, id |-> id, size |-> a.size]
      BY <3>3
    <3>5. e = [[name |-> name, type |-> a.type, id |-> id, size |-> a.size]
                 EXCEPT !.size = sizes]
      BY <3>1, <3>4
    <3> QED
      BY <3>5
  <2>2. /\ id = [t \in Types |-> [m \in Names |-> id[t][m]]]
        /\ sizes = [t \in Types |-> sizes[t]]
    OBVIOUS
  <2>3. \A t \in Types : sizes[t] = a.size[t] + Cardinality(F(t))
    BY DEF MergedSize
  <2> HIDE DEF e, id, sizes, F
  <2>4. e.name = name /\ e.type = a.type /\ e.id = id /\ e.size = sizes
    BY <2>1
  <2> QED
    BY <2>1, <2>2, <2>3, <2>4
<1>8. \A t \in Types, n \in Names :
        (IF a.id[t][n] >= 0 THEN a.id[t][n] ELSE DefaultId(a.type, t, n)) = a.id[t][n]
  BY DEF Tidy
<1>9. \A t \in Types, m \in Names :
        e.id[t][m] = IF m \in {P(n) : n \in F(t)} THEN a.size[t] + Position(b, t, of(t, m))
                     ELSE a.id[t][m]
  <2>1. \A t \in Types, m \in Names :
          e.id[t][m] = IF \E n \in F(t) : m = P(n) THEN a.size[t] + Position(b, t, of(t, m))
                       ELSE IF a.id[t][m] >= 0 THEN a.id[t][m] ELSE DefaultId(a.type, t, m)
    BY DEF Merged, Clone
  <2> HIDE DEF e
  <2> QED
    BY <1>8, <2>1
<1>10. \A t \in Types : \A m \in fs[t] : num[t][m] = Position(b, t, of(t, m))
  OBVIOUS
<1>11. \A t \in Types : \A n \in F(t) :
         /\ ~HasField(a, P(n)) /\ P(n) \in Names
         /\ \A u \in Types : u # t => n \notin F(u)
  BY DEF MergeOk, NamesModelled, Fields
<1> HIDE DEF e, P, F, of, fs, num, size
<1>12. \A t \in Types, m \in Names :
         e.id[t][m] = IF m \in fs[t] THEN a.size[t] + num[t][m] ELSE a.id[t][m]
  BY <1>6, <1>9, <1>10
<1>13. ASSUME NEW t \in Types
       PROVE  /\ size[t] \in Nat
              /\ \A n \in F(t) : num[t][P(n)] \in 0 .. size[t] - 1
              /\ \A m, n \in fs[t] : num[t][m] = num[t][n] => m = n
              /\ \A i \in 0 .. size[t] - 1 : \E n \in fs[t] : num[t][n] = i
  <2>1. size[t] \in Nat /\ \A n \in F(t) : num[t][P(n)] \in 0 .. size[t] - 1
    BY <1>2, <1>6, CountBelowBounds
  <2>2. ASSUME NEW m \in fs[t], NEW n \in fs[t], num[t][m] = num[t][n]
        PROVE  m = n
    <3>1. PICK k \in F(t) : m = P(k)
      BY <1>6
    <3>2. PICK l \in F(t) : n = P(l)
      BY <1>6
    <3>3. CountBelow(F(t), k) = CountBelow(F(t), l)
      BY <1>6, <2>2, <3>1, <3>2
    <3> QED
      BY <1>2, <3>1, <3>2, <3>3, CountBelowInjective
  <2>3. ASSUME NEW i \in 0 .. size[t] - 1
        PROVE  \E n \in fs[t] : num[t][n] = i
    <3>1. PICK k \in F(t) : CountBelow(F(t), k) = i
      BY <1>2, <1>6, CountBelowOnto
    <3> QED
      BY <1>6, <3>1
  <2> QED
    BY <2>1, <2>2, <2>3
<1>14. ASSUME NEW t \in Types, NEW m \in fs[t]
       PROVE  /\ m \in Names /\ ~HasField(a, m) /\ num[t][m] \in 0 .. size[t] - 1
              /\ \A u \in Types : m \in fs[u] => u = t
  <2>1. PICK n \in F(t) : m = P(n)
    BY <1>6
  <2>2. ASSUME NEW u \in Types, m \in fs[u]
        PROVE  u = t
    <3>1. PICK k \in F(u) : m = P(k)
      BY <1>6, <2>2
    <3>2. k = n
      BY <1>2, <1>3, <2>1, <3>1
    <3> QED
      BY <1>11, <3>2
  <2> QED
    BY <1>11, <1>13, <2>1, <2>2
<1>15. e \in Config
  <2>1. \A t \in Types, m \in Names : e.id[t][m] \in Int
    BY <1>1, <1>12, <1>13, <1>14
  <2>2. \A t \in Types : e.size[t] \in Nat
    BY <1>1, <1>6, <1>7, <1>13
  <2>3. e.id \in [Types -> [Names -> Int]] /\ e.size \in [Types -> Nat]
    BY <1>7, <2>1, <2>2
  <2> QED
    BY <1>1, <1>7, <2>3 DEF Config
<1>16. Numbered(a, e, fs, num, size)
  BY <1>6, <1>7, <1>12, <1>13, <1>14, <1>15 DEF Numbered
<1>17. Tidy(e) /\ Widened(a, e)
  BY <1>16, NumberedTidy
<1>18. \A t \in Types : \A n \in F(t) : e.id[t][P(n)] >= 0
  BY <1>1, <1>6, <1>11, <1>12, <1>13
<1>19. ASSUME NEW n \in Names, \A t \in Types : \A k \in F(t) : n # P(k)
       PROVE  \A t \in Types : e.id[t][n] = a.id[t][n]
  BY <1>6, <1>12, <1>19
<1> QED
  BY <1>17, <1>18, <1>19 DEF e, F, P

\* A name with an id of its own is a field that holds a value.
LEMMA StoredId ==
  ASSUME NEW c, Tidy(c), NEW n \in Names, NEW t \in Types, c.id[t][n] >= 0
  PROVE  /\ n \in StoredFields(c) /\ HasField(c, n)
         /\ FieldOf(c, n).type = t /\ FieldOf(c, n).id >= 0
<1>1. Has(c, t, n)
  BY TypesFact DEF Has
<1> QED
  BY <1>1, FieldOfType DEF StoredFields

\* The merged config has the fields of both, and one for the case.
LEMMA CloneAndMergeTidy ==
  ASSUME NEW a, Tidy(a), NEW b, Tidy(b), NEW name \in BranchNames,
         MergeOk(a, b), NamesModelled(a, b), NEW e, e = CloneAndMerge(a, b, name)
  PROVE  /\ Tidy(e) /\ e.type = a.type
         /\ StoredFields(a) \subseteq StoredFields(e)
         /\ \A n \in Names : HasField(b, n) =>
              Prefixed(b.name, n) \in Names /\ Prefixed(b.name, n) \in StoredFields(e)
         /\ HasMatchingCase(a, b) =>
              /\ "matching_case" \in StoredFields(e) /\ HasField(e, "matching_case")
              /\ FieldOf(e, "matching_case").type = "int"
              /\ FieldOf(e, "matching_case").id >= 0
<1> DEFINE m == Merged(a, b, name)
           case == "matching_case"
<1>1. /\ Tidy(m) /\ Widened(a, m) /\ m.type = a.type
      /\ \A t \in Types : \A n \in Fields(b, t) : m.id[t][Prefixed(b.name, n)] >= 0
      /\ \A n \in Names :
           (\A t \in Types : \A k \in Fields(b, t) : n # Prefixed(b.name, k))
             => \A t \in Types : m.id[t][n] = a.id[t][n]
  BY MergedTidy DEF Widened
<1>2. StoredFields(a) \subseteq StoredFields(m)
  BY <1>1, WiderTypes
<1> HIDE DEF m
<1>3. \A n \in Names : HasField(b, n) =>
        Prefixed(b.name, n) \in Names /\ Prefixed(b.name, n) \in StoredFields(m)
  <2> SUFFICES ASSUME NEW n \in Names, HasField(b, n)
               PROVE  Prefixed(b.name, n) \in Names /\ Prefixed(b.name, n) \in StoredFields(m)
    OBVIOUS
  <2>1. PICK t \in Types : n \in Fields(b, t)
    BY FieldFacts DEF Tidy, Fields, Has
  <2>2. Prefixed(b.name, n) \in Names /\ m.id[t][Prefixed(b.name, n)] >= 0
    BY <1>1, <2>1 DEF NamesModelled
  <2> QED
    BY <1>1, <2>2, StoredId
<1>4. CASE ~HasMatchingCase(a, b)
  <2>1. e = m
    BY <1>4 DEF CloneAndMerge, m
  <2> QED
    BY <1>1, <1>2, <1>3, <1>4, <2>1
<1>5. CASE HasMatchingCase(a, b)
  <2>1. e = AddField(m, "int", case) /\ case \in Names /\ "int" \in Types
    BY <1>5, TypesFact DEF CloneAndMerge, NamesModelled, m
  <2>2. ~HasField(m, case)
    <3>1. /\ ~HasField(a, case)
          /\ \A t \in Types : \A k \in Fields(b, t) : case # Prefixed(b.name, k)
      BY <1>5 DEF MergeOk
    <3>2. \A t \in Types : m.id[t][case] = a.id[t][case]
      BY <1>1, <2>1, <3>1
    <3> QED
      BY <2>1, <3>1, <3>2, SameIds
  <2>3. Tidy(e) /\ Widened(m, e)
    BY <1>1, <2>1, <2>2, AddFieldTidy
  <2>4. StoredFields(m) \subseteq StoredFields(e)
    BY <1>1, <2>3, WiderTypes
  <2>5. e.type = a.type
    BY <1>1, <2>3 DEF Widened
  <2>6. e.id["int"][case] = m.size["int"] /\ m.size["int"] \in Nat
    BY <1>1, <2>1 DEF AddField, Tidy, Config
  <2>7. /\ case \in StoredFields(e) /\ HasField(e, case)
        /\ FieldOf(e, case).type = "int" /\ FieldOf(e, case).id >= 0
    BY <2>1, <2>3, <2>6, StoredId
  <2> QED
    BY <1>2, <1>3, <2>3, <2>4, <2>5, <2>7
<1> QED
  BY <1>4, <1>5

(***************************************************************************)
(* BranchMerge: the records.                                               *)
(***************************************************************************)
\* Record r has the slots of its branch's fields, and no others.
Full(c, r) == \A t \in Types : Len(r.slots[t]) = c.size[t]

\* A stored field of such a record is shown.
LEMMA StoredShown ==
  ASSUME NEW c, Tidy(c), NEW r, Full(c, r)
  PROVE  /\ \A n \in Names : n \in StoredFields(c) <=> Shown(c, r, n)
         /\ \A n \in Names : HasField(c, n) => Holds(r, FieldOf(c, n))
<1>1. c \in Config /\ HasSlots(c)
  BY DEF Tidy
<1>2. Complete(c, r, {})
  BY <1>1, SlotsSuffice DEF Full
<1>3. \A n \in Names : HasField(c, n) => Holds(r, FieldOf(c, n))
  BY <1>2 DEF Complete
<1> QED
  BY <1>3, StoredOf DEF Shown

LEMMA TargetFacts ==
  ASSUME NEW p \in BranchNames \cup {NoPrefix}, NEW m \in Names, NEW n \in Names,
         Target(p, m) = Target(p, n)
  PROVE  m = n
BY NamesAssumption DEF Target

\* CopyContent between records without missing slots copies every pair: what
\* the source shows, under the name the prefix gives it, and nothing else.
LEMMA CopiedAll ==
  ASSUME NEW c, Tidy(c), NEW r, Sound(c.type, r), Full(c, r),
         NEW e, Tidy(e), NEW q, Sound(e.type, q), Full(e, q),
         NEW p \in BranchNames \cup {NoPrefix}, NEW w, w = Copied(r, q, Pairs(e, c, p))
  PROVE  /\ CopiedPairs(r, q, Pairs(e, c, p)) = Pairs(e, c, p)
         /\ Sound(c.type, w) /\ Full(c, w)
         /\ \A n \in DOMAIN NamedRow(e, q) : Target(p, n) \in StoredFields(c) =>
              Value(w, FieldOf(c, Target(p, n)))
                = Convert(GetFieldType(c, Target(p, n)), NamedRow(e, q)[n])
         /\ \A m \in StoredFields(c) :
              (\A n \in Names : HasField(e, n) => m # Target(p, n)) =>
                Value(w, FieldOf(c, m)) = Value(r, FieldOf(c, m))
<1> DEFINE pairs == Pairs(e, c, p)
           done == CopiedPairs(r, q, pairs)
           targets == {x[2] : x \in done}
           src(f) == CHOOSE x \in done : x[2] = f
           v == [f \in targets |-> Value(q, src(f)[1])]
<1>1. /\ \A x \in pairs : \E n \in Names :
           /\ HasField(e, n) /\ Target(p, n) \in Names /\ HasField(c, Target(p, n))
           /\ x = <<FieldOf(e, n), FieldOf(c, Target(p, n))>>
      /\ \A n \in Names :
           HasField(e, n) /\ Target(p, n) \in Names /\ HasField(c, Target(p, n)) =>
             <<FieldOf(e, n), FieldOf(c, Target(p, n))>> \in pairs
  BY DEF Pairs
<1>2. /\ \A n \in Names : HasField(e, n) => Holds(q, FieldOf(e, n))
      /\ \A n \in Names : HasField(c, n) => Holds(r, FieldOf(c, n))
  BY StoredShown
<1>6. pairs \in SUBSET (Field \X Field)
  BY PairsTyped DEF Tidy
<1> HIDE DEF pairs
<1>3. ASSUME NEW x \in pairs
      PROVE  Holds(q, x[1]) /\ Holds(r, x[2])
  <2>1. PICK n \in Names :
          /\ HasField(e, n) /\ Target(p, n) \in Names /\ HasField(c, Target(p, n))
          /\ x = <<FieldOf(e, n), FieldOf(c, Target(p, n))>>
    BY <1>1
  <2>2. x[1] = FieldOf(e, n) /\ x[2] = FieldOf(c, Target(p, n))
    BY <2>1
  <2> QED
    BY <1>2, <2>1, <2>2
<1>4. done = pairs
  BY <1>3 DEF CopiedPairs
<1>5. w = Written(r, targets, v)
  BY DEF Copied, pairs
<1>7. Sound(c.type, w) /\ \A t \in Types : Len(w.slots[t]) = Len(r.slots[t])
  <2>1. w = Copied(r, q, pairs)
    BY DEF pairs
  <2>2. /\ Sound(c.type, Copied(r, q, pairs))
        /\ \A t \in Types : Len(Copied(r, q, pairs).slots[t]) = Len(r.slots[t])
    BY <1>6, CopiedSound
  <2> QED
    BY <2>1, <2>2
<1>8. \A x \in done : x[2] \in targets
  OBVIOUS
<1>9. \A f \in targets : src(f) \in done /\ src(f)[2] = f /\ v[f] = Value(q, src(f)[1])
  OBVIOUS
<1> HIDE DEF done, targets, src, v
<1>10. AreFields(c, targets)
  <2> SUFFICES ASSUME NEW f \in targets
               PROVE  \E m \in Names : HasField(c, m) /\ f = FieldOf(c, m)
    BY DEF AreFields
  <2>1. src(f) \in pairs /\ src(f)[2] = f
    BY <1>4, <1>9
  <2>2. PICK x \in pairs : x[2] = f
    BY <2>1
  <2>3. PICK n \in Names :
          /\ Target(p, n) \in Names /\ HasField(c, Target(p, n))
          /\ x = <<FieldOf(e, n), FieldOf(c, Target(p, n))>>
    BY <1>1
  <2>4. f = FieldOf(c, Target(p, n))
    BY <2>2, <2>3
  <2> QED
    BY <2>3, <2>4
<1>11. WritesOver(c, r, w, targets, v)
  BY <1>5, <1>7, <1>10, WrittenRow
<1>12. \A n \in Names : n \in StoredFields(c) <=> Shown(c, r, n)
  BY StoredShown
<1>13. StoredFields(c) \in SUBSET Names
  BY StoredOf
<1>14. ASSUME NEW n \in Names, HasField(e, n), Target(p, n) \in Names,
              HasField(c, Target(p, n))
       PROVE  /\ FieldOf(c, Target(p, n)) \in targets
              /\ v[FieldOf(c, Target(p, n))] = Value(q, FieldOf(e, n))
  <2> DEFINE f == FieldOf(c, Target(p, n))
             x == src(f)
  <2>1. f \in targets
    BY <1>1, <1>4, <1>8, <1>14
  <2>2. x \in pairs /\ x[2] = f /\ v[f] = Value(q, x[1])
    BY <1>4, <1>9, <2>1
  <2>3. f.name = Target(p, n)
    BY FieldFacts, <1>14 DEF Tidy
  <2> HIDE DEF f, x
  <2>4. PICK k \in Names :
          /\ HasField(e, k) /\ Target(p, k) \in Names /\ HasField(c, Target(p, k))
          /\ x = <<FieldOf(e, k), FieldOf(c, Target(p, k))>>
    BY <1>1, <2>2
  <2>5. FieldOf(c, Target(p, k)).name = Target(p, k)
    BY <2>4, FieldFacts DEF Tidy
  <2>6. k = n
    BY <2>2, <2>3, <2>4, <2>5, <1>14, TargetFacts
  <2> QED
    BY <2>1, <2>2, <2>4, <2>6 DEF f
<1>15. ASSUME NEW n \in DOMAIN NamedRow(e, q), Target(p, n) \in StoredFields(c)
       PROVE  Value(w, FieldOf(c, Target(p, n)))
                = Convert(GetFieldType(c, Target(p, n)), NamedRow(e, q)[n])
  <2>1. n \in Names /\ Shown(e, q, n) /\ NamedRow(e, q)[n] = Value(q, FieldOf(e, n))
    BY <1>15, RowFacts
  <2>2. Target(p, n) \in Names /\ Shown(c, r, Target(p, n))
    BY <1>12, <1>13, <1>15
  <2>3. HasField(e, n) /\ HasField(c, Target(p, n))
    BY <2>1, <2>2 DEF Shown
  <2>4. /\ FieldOf(c, Target(p, n)) \in targets
        /\ v[FieldOf(c, Target(p, n))] = NamedRow(e, q)[n]
    BY <1>14, <2>1, <2>2, <2>3
  <2> QED
    BY <1>11, <2>2, <2>4 DEF WritesOver
<1>16. ASSUME NEW m \in StoredFields(c),
              \A n \in Names : HasField(e, n) => m # Target(p, n)
       PROVE  Value(w, FieldOf(c, m)) = Value(r, FieldOf(c, m))
  <2>1. m \in Names /\ Shown(c, r, m)
    BY <1>12, <1>13
  <2>2. FieldOf(c, m).name = m
    BY <2>1, FieldFacts DEF Tidy
  <2>3. FieldOf(c, m) \notin targets
    <3> SUFFICES ASSUME FieldOf(c, m) \in targets PROVE FALSE
      OBVIOUS
    <3>1. PICK x \in pairs : x[2] = FieldOf(c, m)
      BY <1>4, <1>9
    <3>2. PICK k \in Names :
            /\ HasField(e, k) /\ Target(p, k) \in Names
            /\ x = <<FieldOf(e, k), FieldOf(c, Target(p, k))>>
      BY <1>1, <3>1
    <3>3. FieldOf(c, Target(p, k)).name = Target(p, k)
      BY <3>2, FieldFacts DEF Tidy
    <3>4. FieldOf(c, m) = FieldOf(c, Target(p, k))
      BY <3>1, <3>2
    <3>5. m = Target(p, k)
      BY <2>2, <3>3, <3>4
    <3> QED
      BY <1>16, <3>2, <3>5
  <2> QED
    BY <1>11, <2>1, <2>3 DEF WritesOver
<1>17. Full(c, w)
  BY <1>7 DEF Full
<1> QED
  BY <1>4, <1>7, <1>15, <1>16, <1>17 DEF done, pairs

\* Writing the case changes no other field.
LEMMA CaseWritten ==
  ASSUME NEW c, Tidy(c), NEW r, Sound(c.type, r), Full(c, r), NEW f, NEW s,
         "matching_case" \in Names, HasField(c, "matching_case"),
         NEW w, w = WithCase(c, r, f, s)
  PROVE  /\ Sound(c.type, w) /\ Full(c, w)
         /\ \A m \in StoredFields(c) \ {"matching_case"} :
              Value(w, FieldOf(c, m)) = Value(r, FieldOf(c, m))
         /\ "matching_case" \in StoredFields(c)
              /\ FieldOf(c, "matching_case").type = "int" =>
              Value(w, FieldOf(c, "matching_case")) = 2 * MatchingCase(f, s)
<1> DEFINE case == "matching_case"
           field == FieldOf(c, case)
           v == [g \in {field} |-> 2 * MatchingCase(f, s)]
<1>1. w = Written(r, {field}, v)
  BY DEF WithCase
<1>2. MatchingCase(f, s) \in 0 .. 2
  BY DEF MatchingCase
<1>3. 2 * MatchingCase(f, s) \in Values
  BY <1>2, BranchMergeAssumption
<1>4. v[field] = 2 * MatchingCase(f, s)
  OBVIOUS
<1>5. field \in Field /\ field.name = case /\ field.type = GetFieldType(c, case)
  BY TidyField
<1> HIDE DEF field, v
<1> DEFINE fs == {field}
<1>6. fs \in SUBSET Field /\ \A g \in fs : v[g] \in Values
  BY <1>3, <1>4, <1>5
<1>7. Sound(c.type, w) /\ \A t \in Types : Len(w.slots[t]) = Len(r.slots[t])
  <2> HIDE DEF fs
  <2>1. w = Written(r, fs, v)
    BY <1>1 DEF fs
  <2> QED
    BY <1>6, <2>1, WrittenSound
<1>8. AreFields(c, {field})
  BY DEF AreFields, field
<1>9. WritesOver(c, r, w, {field}, v)
  BY <1>1, <1>7, <1>8, WrittenRow
<1>10. /\ \A n \in Names : n \in StoredFields(c) <=> Shown(c, r, n)
       /\ StoredFields(c) \in SUBSET Names
  BY StoredShown, StoredOf
<1>11. ASSUME NEW m \in StoredFields(c) \ {case}
       PROVE  Value(w, FieldOf(c, m)) = Value(r, FieldOf(c, m))
  <2>1. m \in Names /\ Shown(c, r, m)
    BY <1>10
  <2>2. FieldOf(c, m).name = m
    BY <2>1, FieldFacts DEF Tidy
  <2>3. FieldOf(c, m) # field
    BY <1>5, <2>2
  <2> QED
    BY <1>9, <2>1, <2>3 DEF WritesOver
<1>12. ASSUME case \in StoredFields(c), field.type = "int"
       PROVE  Value(w, field) = 2 * MatchingCase(f, s)
  <2>1. Shown(c, r, case)
    BY <1>10, <1>12
  <2>2. Value(w, field) = Convert("int", 2 * MatchingCase(f, s))
    BY <1>4, <1>5, <1>9, <1>12, <2>1 DEF WritesOver, field
  <2>3. ASSUME NEW k \in 0 .. 2
        PROVE  Convert("int", 2 * k) = 2 * k
    <3>1. (2 * k) \div 2 = k
      OBVIOUS
    <3> QED
      BY <3>1 DEF Convert
  <2> QED
    BY <1>2, <2>2, <2>3
<1>13. Full(c, w)
  BY <1>7 DEF Full
<1> QED
  BY <1>7, <1>11, <1>12, <1>13 DEF field

\* A new record has the slots of the config.
LEMMA NewRecordFull ==
  ASSUME NEW c \in Config
  PROVE  Full(c, NewRecord(c))
<1> DEFINE none == [t \in Types |-> <<>>]
<1>1. none \in [Types -> Seq(Values)] /\ \A t \in Types : DOMAIN none[t] = {}
  OBVIOUS
<1>2. c.size \in [Types -> Nat]
  BY DEF Config
<1>3. NewRecord(c).slots = Resized(none, c.size)
  BY DEF NewRecord
<1> HIDE DEF none
<1>4. \A t \in Types : Len(Resized(none, c.size)[t]) = c.size[t]
  BY <1>1, <1>2, ResizedSlots
<1> QED
  BY <1>3, <1>4 DEF Full

(***************************************************************************)
(* BranchMerge: the invariant.                                             *)
(***************************************************************************)
\* A sound branch whose records have the slots of its fields.
WholeBranch(x) ==
  /\ SoundBranch(x) /\ Tidy(x.config)
  /\ \A i \in DOMAIN x.records : Full(x.config, x.records[i])

\* Each mapping in m is that of a copy into d, with the prefix of that copy.
MapsUsed(d, m, copies) ==
  \A s \in Branches : m[s] # NoMapping =>
    \E p \in BranchNames \cup {NoPrefix} :
      /\ s \in Live /\ <<d, s, p>> \in copies
      /\ m[s] = Pairs(br[s].config, br[d].config, p)

\* A config that d may have, made of those of branches a and b.
MadeOf(c, a, b) ==
  /\ a \in Sources /\ b \in Sources
  /\ MergeOk(br[a].config, br[b].config) /\ NamesModelled(br[a].config, br[b].config)
  /\ c = CloneAndMerge(br[a].config, br[b].config, br[a].config.name)

\* Branches are whole, sources keep their names, targets their two sources.
MergeInv ==
  /\ br = [b \in Branches |-> br[b]] /\ parts = [b \in Branches |-> parts[b]]
  /\ \A b \in Live : WholeBranch(br[b]) /\ MapsUsed(b, br[b].mapping, used)
  /\ \A b \in Sources : br[b].config.name = SourceName[b]
  /\ \A d \in Live \cap Targets :
       \E a, b \in Branches : parts[d] = <<a, b>> /\ MadeOf(br[d].config, a, b)

\* The parts of a whole branch, for the provers.
LEMMA WholeFacts ==
  ASSUME NEW x, WholeBranch(x)
  PROVE  /\ SoundBranch(x) /\ Tidy(x.config) /\ x # NoBranch
         /\ \A i \in DOMAIN x.records :
              Sound(x.config.type, x.records[i]) /\ Full(x.config, x.records[i])
         /\ x = [config |-> x.config, mutable |-> x.mutable, frozen |-> x.frozen,
                 hash |-> x.hash, records |-> x.records, mapping |-> x.mapping]
         /\ x.mapping \in [Branches -> (SUBSET (Field \X Field)) \cup {NoMapping}]
<1>1. SoundBranch(x) /\ Tidy(x.config) /\ x # NoBranch
  BY DEF WholeBranch, SoundBranch
<1> QED
  BY <1>1, BranchParts DEF WholeBranch

\* A branch keeps its config, and its records their slots.
LEMMA WholeChange ==
  ASSUME NEW y, WholeBranch(y), NEW x,
         x = [config |-> y.config, mutable |-> x.mutable, frozen |-> x.frozen,
              hash |-> y.hash, records |-> x.records, mapping |-> x.mapping],
         x.mutable \in BOOLEAN, x.frozen \in BOOLEAN,
         x.records \in Seq(AnyRecord),
         IsHeader(y.config) => Len(x.records) = 1,
         \A i \in DOMAIN x.records :
           Sound(y.config.type, x.records[i]) /\ Full(y.config, x.records[i]),
         x.mapping \in [Branches -> (SUBSET (Field \X Field)) \cup {NoMapping}]
  PROVE  WholeBranch(x) /\ x.config = y.config
<1>1. x.config = y.config /\ x.hash = y.hash
  OBVIOUS
<1>2. y.config \in Config /\ HasSlots(y.config) /\ y.hash = HashOf(y.config)
  BY BranchParts DEF WholeBranch
<1>3. x = [config |-> x.config, mutable |-> x.mutable, frozen |-> x.frozen,
           hash |-> x.hash, records |-> x.records, mapping |-> x.mapping]
  BY <1>1
<1>4. SoundBranch(x)
  BY <1>1, <1>2, <1>3, PartsSound
<1> QED
  BY <1>1, <1>4 DEF WholeBranch

\* One branch changes and keeps its config.
LEMMA OneChanges ==
  ASSUME MergeInv, NEW d \in Live, NEW x, br' = [br EXCEPT ![d] = x],
         WholeBranch(x), x.config = br[d].config,
         used \subseteq used', MapsUsed(d, x.mapping, used'), parts' = parts
  PROVE  MergeInv' /\ Live' = Live
<1>1. /\ d \in Branches /\ x # NoBranch
      /\ br' = [q \in Branches |-> br'[q]]
      /\ br'[d] = x /\ \A q \in Branches : q # d => br'[q] = br[q]
  BY WholeFacts DEF MergeInv, Live
<1>2. Live' = Live /\ Sources' = Sources
  BY <1>1 DEF Live, Sources
<1>3. \A q \in Live : q \in Branches /\ br'[q].config = br[q].config
  BY <1>1 DEF Live
<1>4. ASSUME NEW q \in Live
      PROVE  WholeBranch(br'[q]) /\ MapsUsed(q, br[q].mapping, used)'
  <2>1. WholeBranch(br'[q])
    BY <1>1, <1>3 DEF MergeInv
  <2>2. MapsUsed(q, br'[q].mapping, used')
    <3>1. CASE q = d
      BY <1>1, <3>1
    <3>2. CASE q # d
      <4>1. br'[q] = br[q] /\ MapsUsed(q, br[q].mapping, used)
        BY <1>1, <1>3, <3>2 DEF MergeInv
      <4> QED
        BY <4>1 DEF MapsUsed
    <3> QED
      BY <3>1, <3>2
  <2>3. MapsUsed(q, br[q].mapping, used)'
    BY <1>2, <1>3, <2>2 DEF MapsUsed
  <2> QED
    BY <2>1, <2>3
<1>5. \A b \in Sources : br'[b].config.name = SourceName[b]
  BY <1>3 DEF MergeInv, Sources
<1>6. \A c, a, b : MadeOf(c, a, b) => MadeOf(c, a, b)'
  BY <1>2, <1>3 DEF MadeOf, Sources
<1>7. \A t \in Live \cap Targets :
        \E a, b \in Branches : parts'[t] = <<a, b>> /\ MadeOf(br[t].config, a, b)'
  BY <1>3, <1>6 DEF MergeInv
<1> QED
  BY <1>1, <1>2, <1>4, <1>5, <1>7 DEF MergeInv

\* A branch is made.
LEMMA OneComes ==
  ASSUME MergeInv, NEW d \in Branches, NEW c, Tidy(c), NEW k \in Nat, Construct(d, c, k),
         used' = used, parts' = [q \in Branches |-> parts'[q]],
         \A q \in Branches : q # d => parts'[q] = parts[q],
         d \in DOMAIN SourceName => c.name = SourceName[d],
         d \in Targets =>
           \E a, b \in Branches : parts'[d] = <<a, b>> /\ MadeOf(c, a, b)
  PROVE  MergeInv'
<1> DEFINE x == NewBranch(c, k)
<1>1. d \notin Live /\ br' = [br EXCEPT ![d] = x]
  BY DEF Construct
<1>2. c \in Config /\ HasSlots(c)
  BY DEF Tidy
<1>3. SoundBranch(x) /\ \A s \in Branches : x.mapping[s] = NoMapping
  BY <1>2, NewBranchSound
<1>4. x.config = c /\ \A i \in DOMAIN x.records : x.records[i] = NewRecord(c)
  BY DEF NewBranch
<1> HIDE DEF x
<1>5. WholeBranch(x)
  BY <1>2, <1>3, <1>4, NewRecordFull DEF WholeBranch
<1>6. /\ br' = [q \in Branches |-> br'[q]] /\ x # NoBranch
      /\ br'[d] = x /\ \A q \in Branches : q # d => br'[q] = br[q]
  BY <1>1, <1>5, WholeFacts DEF MergeInv
<1>7. Live' = Live \cup {d} /\ Sources \subseteq Sources'
  BY <1>6 DEF Live, Sources
<1>8. \A q \in Live : q \in Branches /\ q # d /\ br'[q] = br[q]
  BY <1>1, <1>6 DEF Live
<1>9. ASSUME NEW q \in Live'
      PROVE  WholeBranch(br'[q]) /\ MapsUsed(q, br[q].mapping, used)'
  <2>1. CASE q = d
    BY <1>3, <1>5, <1>6, <2>1 DEF MapsUsed
  <2>2. CASE q \in Live
    <3>1. WholeBranch(br[q]) /\ MapsUsed(q, br[q].mapping, used) /\ br'[q] = br[q]
      BY <1>8, <2>2 DEF MergeInv
    <3>2. MapsUsed(q, br[q].mapping, used)'
      BY <1>7, <1>8, <2>2, <3>1 DEF MapsUsed
    <3> QED
      BY <3>1, <3>2
  <2> QED
    BY <1>7, <2>1, <2>2
<1>10. \A b \in Sources' : br'[b].config.name = SourceName[b]
  BY <1>4, <1>6, <1>7, <1>8 DEF MergeInv, Sources
<1>11. \A e, a, b : MadeOf(e, a, b) => MadeOf(e, a, b)'
  BY <1>7, <1>8 DEF MadeOf, Sources
<1>12. \A t \in Live' \cap Targets :
         \E a, b \in Branches : parts'[t] = <<a, b>> /\ MadeOf(br[t].config, a, b)'
  <2> SUFFICES ASSUME NEW t \in Live' \cap Targets
               PROVE  \E a, b \in Branches :
                        parts'[t] = <<a, b>> /\ MadeOf(br[t].config, a, b)'
    OBVIOUS
  <2>1. CASE t = d
    BY <1>4, <1>6, <1>11, <2>1
  <2>2. CASE t \in Live
    BY <1>8, <1>11, <2>2 DEF MergeInv
  <2> QED
    BY <1>7, <2>1, <2>2
<1> QED
  BY <1>6, <1>9, <1>10, <1>12 DEF MergeInv

\* No branch is there at the start.
LEMMA MergeInitInv == MergeInit => MergeInv
<1> SUFFICES ASSUME MergeInit PROVE MergeInv
  OBVIOUS
<1>1. br = [b \in Branches |-> NoBranch] /\ parts = [b \in Branches |-> <<>>]
  BY DEF MergeInit, Init
<1>2. Live = {} /\ Sources = {}
  BY <1>1 DEF Live, Sources
<1> QED
  BY <1>1, <1>2 DEF MergeInv

LEMMA MergeStutterInv == MergeInv /\ UNCHANGED mvars => MergeInv'
<1> SUFFICES ASSUME MergeInv, UNCHANGED mvars PROVE MergeInv'
  OBVIOUS
<1>1. br' = br /\ used' = used /\ parts' = parts
  BY DEF mvars
<1>2. Live' = Live /\ Sources' = Sources
  BY <1>1 DEF Live, Sources
<1>3. \A b \in Live : MapsUsed(b, br[b].mapping, used)'
  BY <1>1, <1>2 DEF MergeInv, MapsUsed
<1>4. \A c, a, b : MadeOf(c, a, b) => MadeOf(c, a, b)'
  BY <1>1, <1>2 DEF MadeOf
<1>5. \A d \in Live \cap Targets :
        \E a, b \in Branches : parts'[d] = <<a, b>> /\ MadeOf(br[d].config, a, b)'
  BY <1>1, <1>4 DEF MergeInv
<1> QED
  BY <1>1, <1>2, <1>3, <1>5 DEF MergeInv

\* A branch that is read has the fields of its type and those it declares.
LEMMA ReadSourceInv ==
  ASSUME MergeInv, NEW b \in DOMAIN SourceName, NEW t \in DetTypes,
         NEW fs \in SUBSET NewFields, ReadSource(b, t, fs),
         used' = used, parts' = parts
  PROVE  MergeInv'
<1> DEFINE c == NewConfig(SourceName[b], t)
           new == [u \in Types |-> {n \in Names : <<n, u>> \in fs}]
<1>1. /\ b \in Branches /\ b \notin Targets
      /\ SourceName[b] \in BranchNames
  BY BranchMergeAssumption DEF Targets
<1>2. Tidy(c) /\ c.name = SourceName[b]
  BY <1>1, NewConfigTidy DEF NewConfig
<1>3. /\ \A f \in fs : ~HasField(c, f[1])
      /\ \A f, g \in fs : f[1] = g[1] => f = g
      /\ Construct(b, WithFields(c, new), 1)
  BY DEF ReadSource, WithNewFields
<1> HIDE DEF c
<1>4. \A u \in Types : new[u] \in SUBSET Names /\ \A n \in new[u] : <<n, u>> \in fs
  OBVIOUS
<1> HIDE DEF new
<1>5. ASSUME NEW u \in Types, NEW n \in new[u]
      PROVE  ~HasField(c, n) /\ \A w \in Types : n \in new[w] => w = u
  BY <1>3, <1>4
<1>6. Tidy(WithFields(c, new))
  BY <1>2, <1>4, <1>5, WithFieldsTidy
<1>7. WithFields(c, new).name = SourceName[b]
  BY <1>2 DEF WithFields, Tidy, Config
<1>8. parts' = [q \in Branches |-> parts'[q]]
  BY DEF MergeInv
<1> QED
  BY <1>1, <1>3, <1>6, <1>7, <1>8, OneComes

\* A merged branch has the fields of the two it is made of.
LEMMA ConstructMergedInv ==
  ASSUME MergeInv, NEW d \in Targets, NEW a \in Sources, NEW b \in Sources,
         ConstructMerged(d, a, b), used' = used
  PROVE  MergeInv'
<1> DEFINE x == br[a].config
           y == br[b].config
           c == CloneAndMerge(x, y, x.name)
<1>1. /\ MergeOk(x, y) /\ NamesModelled(x, y) /\ Construct(d, c, 0)
      /\ parts' = [parts EXCEPT ![d] = <<a, b>>]
  BY DEF ConstructMerged
<1>2. /\ a \in Live /\ b \in Live /\ a \in Branches /\ b \in Branches
      /\ d \in Branches /\ d \notin DOMAIN SourceName
  BY DEF Sources, Live, Targets
<1>3. Tidy(x) /\ Tidy(y)
  BY <1>2, WholeFacts DEF MergeInv
<1>4. x.name \in BranchNames
  BY <1>3 DEF Tidy, Config
<1>5. Tidy(c)
  BY <1>1, <1>3, <1>4, CloneAndMergeTidy
<1>6. MadeOf(c, a, b)
  BY <1>1 DEF MadeOf
<1> HIDE DEF c
<1>7. /\ parts' = [q \in Branches |-> parts'[q]]
      /\ parts'[d] = <<a, b>>
      /\ \A q \in Branches : q # d => parts'[q] = parts[q]
  BY <1>1, <1>2 DEF MergeInv
<1> QED
  BY <1>1, <1>2, <1>5, <1>6, <1>7, OneComes

\* What the invariant says of a branch that is there.
LEMMA LiveWhole ==
  ASSUME MergeInv, NEW b \in Live
  PROVE  /\ b \in Branches /\ WholeBranch(br[b]) /\ MapsUsed(b, br[b].mapping, used)
         /\ br = [q \in Branches |-> br[q]]
BY DEF MergeInv, Live

\* A branch with some parts replaced.
LEMMA Updates ==
  ASSUME NEW y, WholeBranch(y), NEW v, NEW w
  PROVE  /\ [y EXCEPT !.mutable = v] =
              [config |-> y.config, mutable |-> v, frozen |-> y.frozen,
               hash |-> y.hash, records |-> y.records, mapping |-> y.mapping]
         /\ [y EXCEPT !.frozen = v] =
              [config |-> y.config, mutable |-> y.mutable, frozen |-> v,
               hash |-> y.hash, records |-> y.records, mapping |-> y.mapping]
         /\ [y EXCEPT !.records = v, !.frozen = w] =
              [config |-> y.config, mutable |-> y.mutable, frozen |-> w,
               hash |-> y.hash, records |-> v, mapping |-> y.mapping]
         /\ [y EXCEPT !.records = v] =
              [config |-> y.config, mutable |-> y.mutable, frozen |-> y.frozen,
               hash |-> y.hash, records |-> v, mapping |-> y.mapping]
         /\ [y EXCEPT !.mapping = w, !.records = v] =
              [config |-> y.config, mutable |-> y.mutable, frozen |-> y.frozen,
               hash |-> y.hash, records |-> v, mapping |-> w]
<1> DEFINE c == y.config
           t == y.mutable
           f == y.frozen
           h == y.hash
           r == y.records
           m == y.mapping
<1>1. y = [config |-> c, mutable |-> t, frozen |-> f, hash |-> h, records |-> r,
           mapping |-> m]
  BY WholeFacts
<1> HIDE DEF c, t, f, h, r, m
<1>2. /\ [y EXCEPT !.mutable = v] =
           [config |-> c, mutable |-> v, frozen |-> f, hash |-> h, records |-> r, mapping |-> m]
      /\ [y EXCEPT !.frozen = v] =
           [config |-> c, mutable |-> t, frozen |-> v, hash |-> h, records |-> r, mapping |-> m]
  BY <1>1
<1> DEFINE z == [y EXCEPT !.records = v]
           u == [y EXCEPT !.mapping = w]
<1>3. /\ z = [config |-> c, mutable |-> t, frozen |-> f, hash |-> h, records |-> v, mapping |-> m]
      /\ u = [config |-> c, mutable |-> t, frozen |-> f, hash |-> h, records |-> r, mapping |-> w]
  BY <1>1
<1> HIDE DEF z, u
<1>4. /\ [z EXCEPT !.frozen = w] =
           [config |-> c, mutable |-> t, frozen |-> w, hash |-> h, records |-> v, mapping |-> m]
      /\ [u EXCEPT !.records = v] =
           [config |-> c, mutable |-> t, frozen |-> f, hash |-> h, records |-> v, mapping |-> w]
  BY <1>3
<1> QED
  BY <1>2, <1>3, <1>4 DEF c, t, f, h, r, m, z, u

\* Flags of a branch change.
LEMMA FlagsMerge ==
  ASSUME MergeInv, NEW b \in Live, NEW x, br' = [br EXCEPT ![b] = x],
         x = [config |-> br[b].config, mutable |-> x.mutable, frozen |-> x.frozen,
              hash |-> br[b].hash, records |-> br[b].records, mapping |-> br[b].mapping],
         x.mutable \in BOOLEAN, x.frozen \in BOOLEAN, used' = used, parts' = parts
  PROVE  MergeInv' /\ Live' = Live
<1> DEFINE y == br[b]
<1>1. WholeBranch(y) /\ MapsUsed(b, y.mapping, used)
  BY LiveWhole
<1>2. x.records = y.records /\ x.mapping = y.mapping
  OBVIOUS
<1>3. /\ y.records \in Seq(AnyRecord)
      /\ IsHeader(y.config) => Len(y.records) = 1
      /\ \A i \in DOMAIN y.records : Sound(y.config.type, y.records[i]) /\ Full(y.config, y.records[i])
      /\ y.mapping \in [Branches -> (SUBSET (Field \X Field)) \cup {NoMapping}]
  BY <1>1, WholeFacts, BranchParts
<1>4. WholeBranch(x) /\ x.config = y.config
  <2> HIDE DEF y
  <2>1. x = [config |-> y.config, mutable |-> x.mutable, frozen |-> x.frozen,
             hash |-> y.hash, records |-> x.records, mapping |-> x.mapping]
    BY <1>2 DEF y
  <2>2. /\ x.records \in Seq(AnyRecord)
        /\ IsHeader(y.config) => Len(x.records) = 1
        /\ x.mapping \in [Branches -> (SUBSET (Field \X Field)) \cup {NoMapping}]
    BY <1>2, <1>3
  <2>3. \A i \in DOMAIN x.records :
          Sound(y.config.type, x.records[i]) /\ Full(y.config, x.records[i])
    BY <1>2, <1>3
  <2> QED
    BY <1>1, <2>1, <2>2, <2>3, WholeChange
<1> QED
  BY <1>1, <1>2, <1>4, OneChanges

LEMMA SetMutableMerge ==
  ASSUME MergeInv, NEW b \in Live, SetMutable(b, TRUE), used' = used, parts' = parts
  PROVE  MergeInv'
<1> DEFINE y == br[b]
           x == [y EXCEPT !.mutable = TRUE]
<1>1. WholeBranch(y)
  BY LiveWhole
<1>2. y = [config |-> y.config, mutable |-> y.mutable, frozen |-> y.frozen,
           hash |-> y.hash, records |-> y.records, mapping |-> y.mapping]
      /\ y.frozen \in BOOLEAN
  BY <1>1, WholeFacts, BranchParts
<1>3. br' = [br EXCEPT ![b] = x]
  BY DEF SetMutable
<1>4. x = [config |-> y.config, mutable |-> TRUE, frozen |-> y.frozen,
           hash |-> y.hash, records |-> y.records, mapping |-> y.mapping]
  BY <1>1, Updates
<1> HIDE DEF x
<1>5. x.mutable = TRUE /\ x.frozen = y.frozen
  BY <1>4
<1> QED
  BY <1>2, <1>3, <1>4, <1>5, FlagsMerge

LEMMA FreezeMerge ==
  ASSUME MergeInv, NEW b \in Live, Freeze(b, TRUE), used' = used, parts' = parts
  PROVE  MergeInv'
<1> DEFINE y == br[b]
           x == [y EXCEPT !.frozen = TRUE]
<1>1. WholeBranch(y)
  BY LiveWhole
<1>2. y = [config |-> y.config, mutable |-> y.mutable, frozen |-> y.frozen,
           hash |-> y.hash, records |-> y.records, mapping |-> y.mapping]
      /\ y.mutable \in BOOLEAN
  BY <1>1, WholeFacts, BranchParts
<1>3. br' = [br EXCEPT ![b] = x]
  BY DEF Freeze
<1>4. x = [config |-> y.config, mutable |-> y.mutable, frozen |-> TRUE,
           hash |-> y.hash, records |-> y.records, mapping |-> y.mapping]
  BY <1>1, Updates
<1> HIDE DEF x
<1>5. x.frozen = TRUE /\ x.mutable = y.mutable
  BY <1>4
<1> QED
  BY <1>2, <1>3, <1>4, <1>5, FlagsMerge

\* NewChannel: the new record has the slots of all fields there are.
LEMMA NewChannelMerge ==
  ASSUME MergeInv, NEW b \in Live, NewChannel(b), used' = used, parts' = parts
  PROVE  MergeInv'
<1> DEFINE y == br[b]
           r == NewRecord(y.config)
           rs == Append(y.records, r)
           x == [y EXCEPT !.records = rs, !.frozen = TRUE]
<1>1. WholeBranch(y) /\ MapsUsed(b, y.mapping, used)
  BY LiveWhole
<1>2. /\ y = [config |-> y.config, mutable |-> y.mutable, frozen |-> y.frozen,
              hash |-> y.hash, records |-> y.records, mapping |-> y.mapping]
      /\ y.config \in Config /\ y.config.type \in DetTypes /\ HasSlots(y.config)
      /\ y.mutable \in BOOLEAN /\ y.records \in Seq(AnyRecord)
      /\ \A j \in DOMAIN y.records : Sound(y.config.type, y.records[j]) /\ Full(y.config, y.records[j])
      /\ y.mapping \in [Branches -> (SUBSET (Field \X Field)) \cup {NoMapping}]
  BY <1>1, WholeFacts, BranchParts
<1>3. Sound(y.config.type, r) /\ Full(y.config, r)
  BY <1>2, NewRecordSound, NewRecordFull
<1>4. r \in AnyRecord
  BY <1>2, <1>3, SoundTyped
<1>5. ~IsHeader(y.config) /\ br' = [br EXCEPT ![b] = x]
  BY DEF NewChannel
<1> HIDE DEF r
<1>6. /\ rs \in Seq(AnyRecord)
      /\ \A j \in DOMAIN rs :
           rs[j] = r \/ (j \in DOMAIN y.records /\ rs[j] = y.records[j])
  BY <1>2, <1>4
<1> HIDE DEF rs
<1>7. x = [config |-> y.config, mutable |-> y.mutable, frozen |-> TRUE,
           hash |-> y.hash, records |-> rs, mapping |-> y.mapping]
  BY <1>1, Updates
<1> HIDE DEF x
<1>8. /\ x.mutable = y.mutable /\ x.frozen = TRUE
      /\ x.records = rs /\ x.mapping = y.mapping
  BY <1>7
<1>9. \A j \in DOMAIN x.records :
        Sound(y.config.type, x.records[j]) /\ Full(y.config, x.records[j])
  BY <1>2, <1>3, <1>6, <1>8
<1>10. WholeBranch(x) /\ x.config = y.config
  <2>1. x = [config |-> y.config, mutable |-> x.mutable, frozen |-> x.frozen,
             hash |-> y.hash, records |-> x.records, mapping |-> x.mapping]
    BY <1>7, <1>8
  <2> HIDE DEF y
  <2> QED
    BY <1>1, <1>2, <1>5, <1>6, <1>8, <1>9, <2>1, WholeChange
<1> QED
  BY <1>1, <1>5, <1>8, <1>10, OneChanges

\* One record and the mappings of a branch change.
LEMMA RecordMerge ==
  ASSUME MergeInv, NEW d \in Live, NEW i \in Records(d), NEW r, NEW m, NEW x,
         x = [config |-> br[d].config, mutable |-> br[d].mutable, frozen |-> br[d].frozen,
              hash |-> br[d].hash, records |-> [br[d].records EXCEPT ![i] = r],
              mapping |-> m],
         br' = [br EXCEPT ![d] = x],
         Sound(br[d].config.type, r), Full(br[d].config, r),
         m \in [Branches -> (SUBSET (Field \X Field)) \cup {NoMapping}],
         used \subseteq used', MapsUsed(d, m, used'), parts' = parts
  PROVE  MergeInv' /\ Live' = Live
<1> DEFINE y == br[d]
           rs == [y.records EXCEPT ![i] = r]
<1>1. WholeBranch(y)
  BY LiveWhole
<1>2. /\ y.config \in Config /\ y.config.type \in DetTypes
      /\ y.mutable \in BOOLEAN /\ y.frozen \in BOOLEAN /\ y.records \in Seq(AnyRecord)
      /\ IsHeader(y.config) => Len(y.records) = 1
      /\ \A j \in DOMAIN y.records : Sound(y.config.type, y.records[j]) /\ Full(y.config, y.records[j])
  BY <1>1, WholeFacts, BranchParts
<1>3. r \in AnyRecord /\ i \in DOMAIN y.records
  BY <1>2, SoundTyped DEF Records
<1>4. /\ rs \in Seq(AnyRecord) /\ Len(rs) = Len(y.records)
      /\ DOMAIN rs = DOMAIN y.records
      /\ \A j \in DOMAIN rs : rs[j] = IF j = i THEN r ELSE y.records[j]
  BY <1>2, <1>3, Replaced
<1>5. x = [config |-> y.config, mutable |-> y.mutable, frozen |-> y.frozen,
           hash |-> y.hash, records |-> rs, mapping |-> m]
  OBVIOUS
<1> HIDE DEF y, rs
<1>6. /\ x.mutable = y.mutable /\ x.frozen = y.frozen
      /\ x.records = rs /\ x.mapping = m
  BY <1>5
<1>7. ASSUME NEW j \in DOMAIN x.records
      PROVE  Sound(y.config.type, x.records[j]) /\ Full(y.config, x.records[j])
  <2>1. CASE j = i
    BY <1>4, <1>6, <2>1 DEF y
  <2>2. CASE j # i
    BY <1>2, <1>4, <1>6, <2>2
  <2> QED
    BY <2>1, <2>2
<1>8. x = [config |-> y.config, mutable |-> x.mutable, frozen |-> x.frozen,
           hash |-> y.hash, records |-> x.records, mapping |-> x.mapping]
  BY <1>5, <1>6
<1>9. WholeBranch(x) /\ x.config = y.config
  BY <1>1, <1>2, <1>4, <1>6, <1>7, <1>8, WholeChange
<1> QED
  BY <1>6, <1>9, OneChanges DEF y

LEMMA SetValueMerge ==
  ASSUME MergeInv, NEW b \in Live, NEW i \in Records(b), NEW n \in UserNames,
         NEW v \in Inputs, SetValue(b, i, n, v), used' = used, parts' = parts
  PROVE  MergeInv'
<1> DEFINE y == br[b]
           c == y.config
           f == FieldOf(c, n)
           q == y.records[i]
           r == Written(q, {f}, [g \in {f} |-> v])
           x == [y EXCEPT !.records = [y.records EXCEPT ![i] = r]]
<1>1. WholeBranch(y) /\ MapsUsed(b, y.mapping, used)
  BY LiveWhole
<1>2. c \in Config /\ Sound(c.type, q) /\ Full(c, q)
  BY <1>1, WholeFacts, BranchParts DEF Records
<1>3. n \in Names /\ v \in Values
  BY BranchAssumption DEF UserNames
<1>4. HasField(c, n) /\ br' = [br EXCEPT ![b] = x]
  BY DEF SetValue
<1>5. {f} \in SUBSET Field /\ \A g \in {f} : [h \in {f} |-> v][g] \in Values
  BY <1>2, <1>3, <1>4, FieldFacts
<1> HIDE DEF f, q
<1>6. Sound(c.type, r) /\ \A t \in Types : Len(r.slots[t]) = Len(q.slots[t])
  BY <1>2, <1>5, WrittenSound
<1> HIDE DEF r
<1>7. Full(c, r)
  BY <1>2, <1>6 DEF Full
<1>8. x = [config |-> c, mutable |-> y.mutable, frozen |-> y.frozen, hash |-> y.hash,
           records |-> [y.records EXCEPT ![i] = r], mapping |-> y.mapping]
  BY <1>1, Updates
<1>9. y.mapping \in [Branches -> (SUBSET (Field \X Field)) \cup {NoMapping}]
  BY <1>1, WholeFacts
<1> HIDE DEF x
<1> QED
  BY <1>1, <1>4, <1>6, <1>7, <1>8, <1>9, RecordMerge

(***************************************************************************)
(* BranchMerge: the copies.                                                *)
(***************************************************************************)
\* The pairs a copy from s to d with prefix p uses when m are d's mappings.
PairsFor(d, m, s, p) ==
  IF m[s] # NoMapping THEN m[s] ELSE Pairs(br[s].config, br[d].config, p)

\* A copy uses the mapping of some copy so far, or its own.
LEMMA PairsOfCopy ==
  ASSUME NEW d \in Live, NEW m, NEW w, MapsUsed(d, m, w), NEW s \in Live,
         br[d].config \in Config, br[s].config \in Config,
         NEW p \in BranchNames \cup {NoPrefix}, <<d, s, p>> \in w
  PROVE  /\ PairsFor(d, m, s, p) \in SUBSET (Field \X Field)
         /\ \E o \in BranchNames \cup {NoPrefix} :
              /\ <<d, s, o>> \in w
              /\ PairsFor(d, m, s, p) = Pairs(br[s].config, br[d].config, o)
<1>1. s \in Branches
  BY DEF Live
<1>2. PICK o \in BranchNames \cup {NoPrefix} :
        <<d, s, o>> \in w /\ PairsFor(d, m, s, p) = Pairs(br[s].config, br[d].config, o)
  <2>1. CASE m[s] = NoMapping
    BY <2>1 DEF PairsFor
  <2>2. CASE m[s] # NoMapping
    <3>1. PICK o \in BranchNames \cup {NoPrefix} :
            <<d, s, o>> \in w /\ m[s] = Pairs(br[s].config, br[d].config, o)
      BY <1>1, <2>2 DEF MapsUsed
    <3> QED
      BY <2>2, <3>1 DEF PairsFor
  <2> QED
    BY <2>1, <2>2
<1> QED
  BY <1>2, PairsTyped

\* The mapping it stores is then one of a copy as well.
LEMMA MapsNext ==
  ASSUME NEW d \in Live, NEW m, NEW w, MapsUsed(d, m, w), NEW s \in Live,
         br[d].config \in Config, br[s].config \in Config,
         NEW p \in BranchNames \cup {NoPrefix}, <<d, s, p>> \in w,
         NEW k, k[s] = PairsFor(d, m, s, p), \A q \in Branches : q # s => k[q] = m[q]
  PROVE  MapsUsed(d, k, w)
<1>1. PICK o \in BranchNames \cup {NoPrefix} :
        <<d, s, o>> \in w /\ PairsFor(d, m, s, p) = Pairs(br[s].config, br[d].config, o)
  BY PairsOfCopy
<1> SUFFICES ASSUME NEW q \in Branches, k[q] # NoMapping
             PROVE  \E n \in BranchNames \cup {NoPrefix} :
                      /\ q \in Live /\ <<d, q, n>> \in w
                      /\ k[q] = Pairs(br[q].config, br[d].config, n)
  BY DEF MapsUsed
<1>2. CASE q = s
  BY <1>1, <1>2
<1>3. CASE q # s
  <2>1. k[q] = m[q]
    BY <1>3
  <2>2. PICK n \in BranchNames \cup {NoPrefix} :
          /\ q \in Live /\ <<d, q, n>> \in w
          /\ m[q] = Pairs(br[q].config, br[d].config, n)
    BY <2>1 DEF MapsUsed
  <2> QED
    BY <2>1, <2>2
<1> QED
  BY <1>2, <1>3

\* A record of d and the mappings to d, as a copy finds and leaves them.
GoodCopy(d, x, u) ==
  /\ x = [mapping |-> x.mapping, record |-> x.record, ok |-> x.ok]
  /\ x.mapping \in [Branches -> (SUBSET (Field \X Field)) \cup {NoMapping}]
  /\ MapsUsed(d, x.mapping, u)
  /\ Sound(br[d].config.type, x.record) /\ Full(br[d].config, x.record)

\* The record of a channel.
LEMMA ChannelRecord ==
  ASSUME MergeInv, NEW s \in Channels, s # NullChannel
  PROVE  /\ s.branch \in Sources /\ s.branch \in Live
         /\ Tidy(br[s.branch].config)
         /\ Sound(br[s.branch].config.type, br[s.branch].records[s.row])
         /\ Full(br[s.branch].config, br[s.branch].records[s.row])
<1>1. PICK b \in Sources : \E i \in Records(b) : s = [branch |-> b, row |-> i]
  BY DEF Channels
<1>2. s.branch = b /\ s.row \in Records(b)
  BY <1>1
<1>3. b \in Live
  BY DEF Sources
<1> QED
  BY <1>2, <1>3, LiveWhole, WholeFacts DEF Records

\* A copy leaves mappings of copies and a sound record; one that threw nothing
\* copied by the mapping of some copy from the same source.
LEMMA CopyIntoGood ==
  ASSUME MergeInv, NEW d \in Live, NEW x, NEW u, GoodCopy(d, x, u),
         NEW s \in Channels, s # NullChannel, NEW p \in BranchNames \cup {NoPrefix},
         NEW w, u \subseteq w, <<d, s.branch, p>> \in w,
         NEW y, y = CopyInto(x, d, s, p)
  PROVE  /\ GoodCopy(d, y, w)
         /\ y.ok => /\ x.ok
                    /\ \E o \in BranchNames \cup {NoPrefix} :
                         /\ <<d, s.branch, o>> \in w
                         /\ y.record = Copied(x.record, br[s.branch].records[s.row],
                                         Pairs(br[s.branch].config, br[d].config, o))
<1> DEFINE b == s.branch
           q == br[b].records[s.row]
           e == br[b].config
           c == br[d].config
           known == x.mapping[b] # NoMapping
           pairs == PairsFor(d, x.mapping, b, p)
<1>1. b \in Live /\ Tidy(e) /\ Sound(e.type, q) /\ Full(e, q) /\ Tidy(c)
  BY ChannelRecord, LiveWhole, WholeFacts
<1>2. /\ x = [mapping |-> x.mapping, record |-> x.record, ok |-> x.ok]
      /\ x.mapping \in [Branches -> (SUBSET (Field \X Field)) \cup {NoMapping}]
      /\ MapsUsed(d, x.mapping, u) /\ MapsUsed(d, x.mapping, w)
      /\ Sound(c.type, x.record) /\ Full(c, x.record)
  BY DEF GoodCopy, MapsUsed
<1>3. y = IF ~x.ok THEN x
          ELSE IF ~known /\ ~(br[d].frozen /\ br[b].frozen) THEN [x EXCEPT !.ok = FALSE]
          ELSE [mapping |-> [x.mapping EXCEPT ![b] = pairs],
                record  |-> Copied(x.record, q, pairs),
                ok      |-> CopiedPairs(x.record, q, pairs) = pairs]
  BY DEF CopyInto, PairsFor
<1>4. CASE ~x.ok
  BY <1>2, <1>3, <1>4 DEF GoodCopy
<1>5. CASE x.ok /\ ~known /\ ~(br[d].frozen /\ br[b].frozen)
  <2>1. y = [x EXCEPT !.ok = FALSE]
    BY <1>3, <1>5
  <2>2. y = [mapping |-> x.mapping, record |-> x.record, ok |-> FALSE]
    BY <1>2, <2>1
  <2> QED
    BY <1>2, <2>2 DEF GoodCopy
<1>6. CASE x.ok /\ ~(~known /\ ~(br[d].frozen /\ br[b].frozen))
  <2> DEFINE m == [x.mapping EXCEPT ![b] = pairs]
  <2>1. y = [mapping |-> m, record |-> Copied(x.record, q, pairs),
             ok |-> CopiedPairs(x.record, q, pairs) = pairs]
    BY <1>3, <1>6
  <2>2. c \in Config /\ e \in Config
    BY <1>1 DEF Tidy
  <2>3. /\ m \in [Branches -> (SUBSET (Field \X Field)) \cup {NoMapping}]
        /\ MapsUsed(d, m, w)
        /\ \E o \in BranchNames \cup {NoPrefix} :
             <<d, b, o>> \in w /\ pairs = Pairs(e, c, o)
    <3> DEFINE k == x.mapping
    <3>1. k \in [Branches -> (SUBSET (Field \X Field)) \cup {NoMapping}] /\ MapsUsed(d, k, w)
      BY <1>2
    <3>2. /\ b \in Live /\ br[d].config \in Config /\ br[b].config \in Config
          /\ <<d, b, p>> \in w
      BY <1>1, <2>2
    <3>3. b \in Branches
      BY <1>1 DEF Live
    <3>4. pairs = PairsFor(d, k, b, p) /\ m = [k EXCEPT ![b] = pairs]
      OBVIOUS
    <3> HIDE DEF k, b, pairs
    <3>5. /\ pairs \in SUBSET (Field \X Field)
          /\ \E o \in BranchNames \cup {NoPrefix} :
               <<d, b, o>> \in w /\ pairs = Pairs(br[b].config, br[d].config, o)
      BY <3>1, <3>2, <3>4, PairsOfCopy
    <3>6. /\ m \in [Branches -> (SUBSET (Field \X Field)) \cup {NoMapping}]
          /\ m[b] = PairsFor(d, k, b, p) /\ \A a \in Branches : a # b => m[a] = k[a]
      BY <3>1, <3>3, <3>4, <3>5
    <3> HIDE DEF m
    <3>7. MapsUsed(d, m, w)
      BY <3>1, <3>2, <3>6, MapsNext
    <3> QED
      BY <3>5, <3>6, <3>7
  <2>4. PICK o \in BranchNames \cup {NoPrefix} :
          <<d, b, o>> \in w /\ pairs = Pairs(e, c, o)
    BY <2>3
  <2> HIDE DEF pairs, m
  <2>5. y.mapping = m /\ y.record = Copied(x.record, q, pairs)
    BY <2>1
  <2>6. y = [mapping |-> y.mapping, record |-> y.record, ok |-> y.ok]
    BY <2>1
  <2> HIDE DEF q, e, c
  <2>7. Sound(c.type, y.record) /\ Full(c, y.record)
    BY <1>1, <1>2, <2>4, <2>5, CopiedAll
  <2> QED
    BY <1>6, <2>3, <2>4, <2>5, <2>6, <2>7 DEF GoodCopy, q, e, c, b
<1> QED
  BY <1>4, <1>5, <1>6

\* A call starts from the record and the mappings as they are.
LEMMA UntouchedGood ==
  ASSUME MergeInv, NEW d \in Live, NEW i \in Records(d)
  PROVE  GoodCopy(d, Untouched(d, i), used) /\ Untouched(d, i).ok
<1>1. /\ br[d].mapping \in [Branches -> (SUBSET (Field \X Field)) \cup {NoMapping}]
      /\ MapsUsed(d, br[d].mapping, used)
      /\ Sound(br[d].config.type, br[d].records[i]) /\ Full(br[d].config, br[d].records[i])
  BY LiveWhole, WholeFacts DEF Records
<1>2. Untouched(d, i) = [mapping |-> br[d].mapping, record |-> br[d].records[i], ok |-> TRUE]
  BY DEF Untouched
<1> QED
  BY <1>1, <1>2 DEF GoodCopy

\* CopyContent with no prefix.
LEMMA CopyOneMerge ==
  ASSUME MergeInv, NEW d \in Live, NEW i \in Records(d), NEW s \in Channels,
         s # NullChannel, CopyOne(d, i, s)
  PROVE  MergeInv'
<1> DEFINE b == s.branch
           u == Untouched(d, i)
           y == CopyInto(u, d, s, NoPrefix)
           pairs == MappingOf(d, b, NoPrefix)
           r == Copied(br[d].records[i], br[b].records[s.row], pairs)
           m == [br[d].mapping EXCEPT ![b] = pairs]
<1>1. /\ MayMap(d, b) /\ br' = [br EXCEPT ![d].mapping[b] = pairs, ![d].records[i] = r]
      /\ parts' = parts /\ used' = used \cup Uses(d, s, NullChannel)
  BY DEF CopyOne, CopyContent
<1>2. used \subseteq used' /\ <<d, b, NoPrefix>> \in used'
  BY <1>1 DEF Uses
<1>3. GoodCopy(d, u, used) /\ u.ok
  BY UntouchedGood
<1>4. u.mapping = br[d].mapping /\ u.record = br[d].records[i]
  BY DEF Untouched
<1>5. y = [mapping |-> m, record |-> r,
           ok |-> CopiedPairs(br[d].records[i], br[b].records[s.row], pairs) = pairs]
  BY <1>1, <1>3, <1>4 DEF CopyInto, MappingOf, MayMap
<1> HIDE DEF u
<1>6. GoodCopy(d, y, used')
  BY <1>2, <1>3, CopyIntoGood
<1> HIDE DEF y, pairs, r
<1>7. br' = [br EXCEPT ![d].mapping = m, ![d].records[i] = r]
  BY <1>1
<1>8. y.mapping = m /\ y.record = r
  BY <1>5
<1> HIDE DEF m
<1>9. Sound(br[d].config.type, r) /\ Full(br[d].config, r)
  BY <1>6, <1>8 DEF GoodCopy
<1> DEFINE rs == [br[d].records EXCEPT ![i] = r]
           z == [br[d] EXCEPT !.mapping = m, !.records = rs]
<1>10. br' = [br EXCEPT ![d] = z]
  BY <1>7
<1>11. rs = [br[d].records EXCEPT ![i] = r] /\ WholeBranch(br[d])
  BY LiveWhole
<1> HIDE DEF rs
<1>12. z = [config |-> br[d].config, mutable |-> br[d].mutable, frozen |-> br[d].frozen,
            hash |-> br[d].hash, records |-> rs, mapping |-> m]
  BY <1>11, Updates
<1>13. /\ m \in [Branches -> (SUBSET (Field \X Field)) \cup {NoMapping}]
       /\ MapsUsed(d, m, used')
  BY <1>6, <1>8 DEF GoodCopy
<1> HIDE DEF z
<1> QED
  BY <1>1, <1>2, <1>9, <1>10, <1>11, <1>12, <1>13, RecordMerge

\* The rows of a channel that record r of config c has under prefix p.
Gives(c, r, s, p) ==
  LET row == NamedRow(br[s.branch].config, br[s.branch].records[s.row])
  IN \A n \in DOMAIN row : Target(p, n) \in StoredFields(c) =>
       Value(r, FieldOf(c, Target(p, n))) = Convert(GetFieldType(c, Target(p, n)), row[n])

\* The copies into d in u have one prefix for each source.
OneRoleIn(d, u) ==
  \A v, w \in u : v[1] = d /\ w[1] = d /\ v[2] = w[2] => v[3] = w[3]

\* A copy that throws nothing gives the record the values of the channel.
LEMMA CopyGives ==
  ASSUME MergeInv, NEW d \in Live, NEW x, NEW u, GoodCopy(d, x, u),
         NEW s \in Channels, s # NullChannel, NEW p \in BranchNames \cup {NoPrefix},
         NEW w, u \subseteq w, <<d, s.branch, p>> \in w, OneRoleIn(d, w),
         NEW y, y = CopyInto(x, d, s, p), y.ok
  PROVE  /\ x.ok
         /\ Gives(br[d].config, y.record, s, p)
         /\ \A m \in StoredFields(br[d].config) \ Given(s, p) :
              Value(y.record, FieldOf(br[d].config, m))
                = Value(x.record, FieldOf(br[d].config, m))
<1> DEFINE e == br[s.branch].config
           q == br[s.branch].records[s.row]
           c == br[d].config
<1>1. Tidy(e) /\ Sound(e.type, q) /\ Full(e, q) /\ Tidy(c)
  BY ChannelRecord, LiveWhole, WholeFacts
<1>2. Sound(c.type, x.record) /\ Full(c, x.record)
  BY DEF GoodCopy
<1>3. PICK o \in BranchNames \cup {NoPrefix} :
        /\ x.ok /\ <<d, s.branch, o>> \in w
        /\ y.record = Copied(x.record, q, Pairs(e, c, o))
  <2>1. y.ok =>
          /\ x.ok
          /\ \E o \in BranchNames \cup {NoPrefix} :
               /\ <<d, s.branch, o>> \in w
               /\ y.record = Copied(x.record, br[s.branch].records[s.row],
                               Pairs(br[s.branch].config, br[d].config, o))
    BY CopyIntoGood
  <2> QED
    BY <2>1
<1>4. o = p
  BY <1>3 DEF OneRoleIn
<1>5. y.record = Copied(x.record, q, Pairs(e, c, p))
  BY <1>3, <1>4
<1> HIDE DEF e, q, c
<1>6. /\ \A n \in DOMAIN NamedRow(e, q) : Target(p, n) \in StoredFields(c) =>
           Value(y.record, FieldOf(c, Target(p, n)))
             = Convert(GetFieldType(c, Target(p, n)), NamedRow(e, q)[n])
      /\ \A m \in StoredFields(c) :
           (\A n \in Names : HasField(e, n) => m # Target(p, n)) =>
             Value(y.record, FieldOf(c, m)) = Value(x.record, FieldOf(c, m))
  <2> DEFINE r == x.record
             v == y.record
  <2>1. Sound(c.type, r) /\ Full(c, r) /\ v = Copied(r, q, Pairs(e, c, p))
    BY <1>2, <1>5
  <2> HIDE DEF r, v
  <2>2. /\ \A n \in DOMAIN NamedRow(e, q) : Target(p, n) \in StoredFields(c) =>
             Value(v, FieldOf(c, Target(p, n)))
               = Convert(GetFieldType(c, Target(p, n)), NamedRow(e, q)[n])
        /\ \A m \in StoredFields(c) :
             (\A n \in Names : HasField(e, n) => m # Target(p, n)) =>
               Value(v, FieldOf(c, m)) = Value(r, FieldOf(c, m))
    BY <1>1, <2>1, CopiedAll, SMTT(60)
  <2> QED
    BY <2>2 DEF r, v
<1> QED
  BY <1>3, <1>6 DEF Gives, Given, e, q, c

\* The names of what two channels in their roles give do not run into each other.
LEMMA RolesApart ==
  ASSUME NEW c, NEW a, NEW b, MadeOf(c, a, b), NEW f, NEW s,
         HasMatchingCase(br[a].config, br[b].config),
         f # NullChannel => f.branch = a, s # NullChannel => s.branch = b,
         br[b].config \in Config, br[b].config.name # NoPrefix
  PROVE  NamesApart(f, s)
<1> DEFINE x == br[a].config
           y == br[b].config
           P(n) == Prefixed(y.name, n)
<1>1. /\ ~HasField(x, "matching_case")
      /\ \A t \in Types : \A n \in Fields(y, t) :
           P(n) # "matching_case" /\ ~HasField(x, P(n))
  BY DEF MadeOf, MergeOk
<1>2. ASSUME NEW n \in Names, HasField(y, n)
      PROVE  P(n) # "matching_case" /\ ~HasField(x, P(n))
  <2>1. PICK t \in Types : n \in Fields(y, t)
    BY <1>2, FieldFacts DEF Fields, Has
  <2> QED
    BY <1>1, <2>1
<1>3. f # NullChannel => Given(f, NoPrefix) = {n \in Names : HasField(x, n)}
  BY DEF Given, Target
<1>4. s # NullChannel =>
        /\ PrefixOf(s) = y.name
        /\ Given(s, PrefixOf(s)) = {P(n) : n \in {m \in Names : HasField(y, m)}}
  BY DEF Given, Target, PrefixOf
<1> QED
  BY <1>1, <1>2, <1>3, <1>4 DEF NamesApart

\* Both copies: the state they leave, and what the record has then.
LEMMA BothCopiedGood ==
  ASSUME MergeInv, NEW d \in Live, NEW i \in Records(d), NEW f \in Channels,
         NEW s \in Channels, s # NullChannel => PrefixOf(s) \in BranchNames,
         NEW w, used \subseteq w, Uses(d, f, s) \subseteq w,
         NEW x, x = BothCopied(d, i, f, s)
  PROVE  /\ GoodCopy(d, x, w)
         /\ x.ok /\ OneRoleIn(d, w) /\ NamesApart(f, s) =>
              /\ f # NullChannel => Gives(br[d].config, x.record, f, NoPrefix)
              /\ s # NullChannel => Gives(br[d].config, x.record, s, PrefixOf(s))
<1> DEFINE u == Untouched(d, i)
           y == CopyInto(u, d, f, NoPrefix)
           c == br[d].config
<1>1. GoodCopy(d, u, used) /\ u.ok
  BY UntouchedGood
<1>2. x = CopyInto(y, d, s, PrefixOf(s))
  BY DEF BothCopied
<1> HIDE DEF u
<1>3. GoodCopy(d, y, w)
  <2>1. CASE f = NullChannel
    <3>1. y = u
      BY <1>1, <2>1 DEF CopyInto
    <3> QED
      BY <1>1, <3>1 DEF GoodCopy, MapsUsed
  <2>2. CASE f # NullChannel
    <3>1. <<d, f.branch, NoPrefix>> \in w
      BY <2>2 DEF Uses
    <3> QED
      BY <1>1, <2>2, <3>1, CopyIntoGood
  <2> QED
    BY <2>1, <2>2
<1>4. ASSUME f # NullChannel, y.ok, OneRoleIn(d, w)
      PROVE  Gives(c, y.record, f, NoPrefix)
  <2>1. <<d, f.branch, NoPrefix>> \in w
    BY <1>4 DEF Uses
  <2> QED
    BY <1>1, <1>4, <2>1, CopyGives
<1> HIDE DEF y
<1>5. CASE s = NullChannel
  <2>1. x = y
    BY <1>2, <1>5 DEF CopyInto
  <2> QED
    BY <1>3, <1>4, <1>5, <2>1
<1>6. CASE s # NullChannel
  <2> DEFINE p == PrefixOf(s)
  <2>1. p \in BranchNames \cup {NoPrefix} /\ <<d, s.branch, p>> \in w
    BY <1>6 DEF Uses
  <2>2. x = CopyInto(y, d, s, p)
    BY <1>2
  <2> HIDE DEF p
  <2>3. GoodCopy(d, x, w)
    BY <1>3, <1>6, <2>1, <2>2, CopyIntoGood
  <2> SUFFICES ASSUME x.ok, OneRoleIn(d, w), NamesApart(f, s)
               PROVE  /\ f # NullChannel => Gives(c, x.record, f, NoPrefix)
                      /\ Gives(c, x.record, s, p)
    BY <1>6, <2>3 DEF p
  <2>4. /\ y.ok /\ Gives(c, x.record, s, p)
        /\ \A m \in StoredFields(c) \ Given(s, p) :
             Value(x.record, FieldOf(c, m)) = Value(y.record, FieldOf(c, m))
    BY <1>3, <1>6, <2>1, <2>2, CopyGives
  <2>5. ASSUME f # NullChannel
        PROVE  Gives(c, x.record, f, NoPrefix)
    <3> DEFINE e == br[f.branch].config
               row == NamedRow(e, br[f.branch].records[f.row])
    <3>1. Gives(c, y.record, f, NoPrefix)
      BY <1>4, <2>4, <2>5
    <3>2. Given(f, NoPrefix) \cap Given(s, p) = {}
      BY <1>6, <2>5 DEF NamesApart, p
    <3>3. \A n \in DOMAIN row : n \in Names /\ HasField(e, n)
      BY <2>5, ChannelRecord, RowFacts DEF Shown
    <3>4. \A n \in DOMAIN row : Target(NoPrefix, n) \notin Given(s, p)
      BY <3>2, <3>3 DEF Given
    <3> QED
      BY <2>4, <3>1, <3>4 DEF Gives
  <2> QED
    BY <2>4, <2>5
<1> QED
  BY <1>5, <1>6

\* What a target was made of: its config has the fields of both, and the case.
LEMMA TargetMade ==
  ASSUME MergeInv, NEW d \in Live \cap Targets
  PROVE  \E a, b \in Sources :
           /\ parts[d] = <<a, b>> /\ MadeOf(br[d].config, a, b)
           /\ "matching_case" \in Names /\ br[b].config.name # NoPrefix
           /\ StoredFields(br[a].config) \subseteq StoredFields(br[d].config)
           /\ \A n \in Names : HasField(br[b].config, n) =>
                Prefixed(br[b].config.name, n) \in StoredFields(br[d].config)
           /\ HasMatchingCase(br[a].config, br[b].config) =>
                /\ "matching_case" \in StoredFields(br[d].config)
                /\ FieldOf(br[d].config, "matching_case").type = "int"
<1>1. PICK a, b \in Branches : parts[d] = <<a, b>> /\ MadeOf(br[d].config, a, b)
  BY DEF MergeInv
<1> DEFINE x == br[a].config
           y == br[b].config
           c == br[d].config
<1>2. /\ a \in Sources /\ b \in Sources /\ MergeOk(x, y) /\ NamesModelled(x, y)
      /\ c = CloneAndMerge(x, y, x.name)
  BY <1>1 DEF MadeOf
<1>3. Tidy(x) /\ Tidy(y) /\ x.name \in BranchNames
  BY <1>2, LiveWhole, WholeFacts DEF Sources, Tidy, Config
<1>4. y.name # NoPrefix
  BY <1>2, BranchMergeAssumption DEF MergeInv, Sources
<1>5. "matching_case" \in Names
  BY <1>2 DEF NamesModelled
<1> HIDE DEF x, y, c
<1>6. /\ StoredFields(x) \subseteq StoredFields(c)
      /\ \A n \in Names : HasField(y, n) => Prefixed(y.name, n) \in StoredFields(c)
      /\ HasMatchingCase(x, y) =>
           /\ "matching_case" \in StoredFields(c)
           /\ FieldOf(c, "matching_case").type = "int"
  BY <1>2, <1>3, CloneAndMergeTidy
<1> QED
  BY <1>1, <1>2, <1>4, <1>5, <1>6 DEF x, y, c

\* The prefix of a channel is its branch's name.
LEMMA PrefixNames ==
  ASSUME MergeInv, NEW s \in Channels, s # NullChannel
  PROVE  PrefixOf(s) \in BranchNames /\ PrefixOf(s) # NoPrefix
<1>1. s.branch \in Sources
  BY ChannelRecord
<1>2. PrefixOf(s) = SourceName[s.branch] /\ s.branch \in DOMAIN SourceName
  BY <1>1 DEF MergeInv, PrefixOf, Sources
<1> QED
  BY <1>2, BranchMergeAssumption

\* The record a merge leaves.
MergedRecord(d, i, f, s) ==
  LET x == BothCopied(d, i, f, s)
  IN IF ~x.ok \/ ~HasField(br[d].config, "matching_case") THEN x.record
     ELSE WithCase(br[d].config, x.record, f, s)

\* It has the slots of the target's fields, and what both channels and the
\* case gave it.
LEMMA MergedRecordGood ==
  ASSUME MergeInv, NEW d \in Live \cap Targets, NEW i \in Records(d),
         NEW f \in Channels, NEW s \in Channels,
         NEW w, used \subseteq w, Uses(d, f, s) \subseteq w,
         NEW r, r = MergedRecord(d, i, f, s)
  PROVE  /\ GoodCopy(d, BothCopied(d, i, f, s), w)
         /\ Sound(br[d].config.type, r) /\ Full(br[d].config, r)
         /\ BothCopied(d, i, f, s).ok /\ HasField(br[d].config, "matching_case")
              /\ OneRoleIn(d, w) /\ NamesApart(f, s) =>
              /\ f # NullChannel => Gives(br[d].config, r, f, NoPrefix)
              /\ s # NullChannel => Gives(br[d].config, r, s, PrefixOf(s))
         /\ BothCopied(d, i, f, s).ok /\ HasField(br[d].config, "matching_case")
              /\ "matching_case" \in StoredFields(br[d].config)
              /\ FieldOf(br[d].config, "matching_case").type = "int" =>
              Value(r, FieldOf(br[d].config, "matching_case")) = 2 * MatchingCase(f, s)
<1> DEFINE x == BothCopied(d, i, f, s)
           c == br[d].config
           case == "matching_case"
<1>1. /\ GoodCopy(d, x, w)
      /\ x.ok /\ OneRoleIn(d, w) /\ NamesApart(f, s) =>
           /\ f # NullChannel => Gives(c, x.record, f, NoPrefix)
           /\ s # NullChannel => Gives(c, x.record, s, PrefixOf(s))
  BY PrefixNames, BothCopiedGood
<1>2. r = IF ~x.ok \/ ~HasField(c, case) THEN x.record ELSE WithCase(c, x.record, f, s)
  BY DEF MergedRecord
<1> HIDE DEF x
<1>3. Sound(c.type, x.record) /\ Full(c, x.record)
  BY <1>1 DEF GoodCopy
<1>4. Tidy(c) /\ case \in Names
  BY LiveWhole, WholeFacts, TargetMade
<1>5. CASE ~x.ok \/ ~HasField(c, case)
  BY <1>1, <1>2, <1>3, <1>5 DEF x
<1>6. CASE x.ok /\ HasField(c, case)
  <2> DEFINE q == x.record
  <2>1. r = WithCase(c, q, f, s)
    BY <1>2, <1>6
  <2>2. Sound(c.type, q) /\ Full(c, q)
    BY <1>3
  <2> HIDE DEF q, c
  <2>3. /\ Sound(c.type, r) /\ Full(c, r)
        /\ \A m \in StoredFields(c) \ {case} : Value(r, FieldOf(c, m)) = Value(q, FieldOf(c, m))
        /\ case \in StoredFields(c) /\ FieldOf(c, case).type = "int" =>
             Value(r, FieldOf(c, case)) = 2 * MatchingCase(f, s)
    BY <1>4, <1>6, <2>1, <2>2, CaseWritten
  <2>4. ASSUME NEW g \in Channels, g # NullChannel, NEW p, case \notin Given(g, p),
               Gives(c, q, g, p)
        PROVE  Gives(c, r, g, p)
    <3> DEFINE e == br[g.branch].config
               row == NamedRow(e, br[g.branch].records[g.row])
    <3>1. \A n \in DOMAIN row : n \in Names /\ HasField(e, n)
      BY <2>4, ChannelRecord, RowFacts DEF Shown
    <3>2. \A n \in DOMAIN row : Target(p, n) # case
      BY <2>4, <3>1 DEF Given
    <3> QED
      BY <2>3, <2>4, <3>2 DEF Gives
  <2>5. OneRoleIn(d, w) /\ NamesApart(f, s) =>
          /\ f # NullChannel => Gives(c, r, f, NoPrefix)
          /\ s # NullChannel => Gives(c, r, s, PrefixOf(s))
    BY <1>1, <1>6, <2>4 DEF NamesApart, q, c
  <2> QED
    BY <1>1, <1>6, <2>3, <2>5 DEF x, c
<1> QED
  BY <1>5, <1>6

\* A channel's row under the names that the branch has fields for.
LEMMA ContentsGiven ==
  ASSUME MergeInv, NEW d \in Live, NEW r, NEW s \in Channels, s # NullChannel,
         NEW p, NEW b, Gives(br[d].config, r, s, p),
         s.branch = b => \A n \in StoredFields(br[b].config) :
                           Target(p, n) \in StoredFields(br[d].config)
  PROVE  HasContents(d, r, s, p, b)
<1> DEFINE e == br[s.branch].config
           q == br[s.branch].records[s.row]
           row == NamedRow(e, q)
<1>1. Tidy(e) /\ Sound(e.type, q) /\ Full(e, q)
  BY ChannelRecord
<1>2. \A n \in DOMAIN row : n \in StoredFields(e)
  BY <1>1, RowFacts, StoredShown
<1> HIDE DEF row
<1>3. \A n \in DOMAIN row : Target(p, n) \notin StoredFields(br[d].config) => s.branch # b
  BY <1>2
<1>4. \A n \in DOMAIN row : Target(p, n) \in StoredFields(br[d].config) =>
        Value(r, FieldOf(br[d].config, Target(p, n)))
          = Convert(GetFieldType(br[d].config, Target(p, n)), row[n])
  BY DEF Gives, row
<1> QED
  BY <1>3, <1>4 DEF HasContents, row

\* What MergedRecordHolds says of the record r of target d, before r is there.
LEMMA MergedContents ==
  ASSUME MergeInv, NEW d \in Live \cap Targets, NEW i \in Records(d),
         NEW f \in Channels, NEW s \in Channels,
         NEW w, used \subseteq w, Uses(d, f, s) \subseteq w,
         NEW r, r = MergedRecord(d, i, f, s),
         BothCopied(d, i, f, s).ok, HasField(br[d].config, "matching_case"),
         OneRoleIn(d, w), HasCase(d), InRoles(d, f, s) \/ NamesApart(f, s)
  PROVE  /\ f # NullChannel => HasContents(d, r, f, NoPrefix, parts[d][1])
         /\ s # NullChannel => HasContents(d, r, s, PrefixOf(s), parts[d][2])
         /\ Value(r, FieldOf(br[d].config, "matching_case")) = 2 * MatchingCase(f, s)
<1> DEFINE c == br[d].config
<1>1. PICK a, b \in Sources :
        /\ parts[d] = <<a, b>> /\ MadeOf(c, a, b)
        /\ "matching_case" \in Names /\ br[b].config.name # NoPrefix
        /\ StoredFields(br[a].config) \subseteq StoredFields(c)
        /\ \A n \in Names : HasField(br[b].config, n) =>
             Prefixed(br[b].config.name, n) \in StoredFields(c)
        /\ HasMatchingCase(br[a].config, br[b].config) =>
             /\ "matching_case" \in StoredFields(c)
             /\ FieldOf(c, "matching_case").type = "int"
  BY TargetMade
<1>2. parts[d][1] = a /\ parts[d][2] = b /\ HasMatchingCase(br[a].config, br[b].config)
  BY <1>1 DEF HasCase
<1>3. b \in Live /\ Tidy(br[b].config) /\ br[b].config \in Config
  BY LiveWhole, WholeFacts DEF Sources, Tidy
<1>4. NamesApart(f, s)
  <2>1. CASE InRoles(d, f, s)
    BY <1>1, <1>2, <1>3, <2>1, RolesApart DEF InRoles
  <2> QED
    BY <2>1
<1>5. /\ f # NullChannel => Gives(c, r, f, NoPrefix)
      /\ s # NullChannel => Gives(c, r, s, PrefixOf(s))
      /\ Value(r, FieldOf(c, "matching_case")) = 2 * MatchingCase(f, s)
  BY <1>1, <1>2, <1>4, MergedRecordGood
<1>6. ASSUME f # NullChannel
      PROVE  HasContents(d, r, f, NoPrefix, parts[d][1])
  <2>1. \A n : Target(NoPrefix, n) = n
    BY DEF Target
  <2> QED
    BY <1>1, <1>2, <1>5, <1>6, <2>1, ContentsGiven
<1>7. ASSUME s # NullChannel
      PROVE  HasContents(d, r, s, PrefixOf(s), parts[d][2])
  <2>1. s.branch = b => \A n : Target(PrefixOf(s), n) = Prefixed(br[b].config.name, n)
    BY <1>1 DEF Target, PrefixOf
  <2>2. \A n \in StoredFields(br[b].config) : n \in Names /\ HasField(br[b].config, n)
    BY <1>3, FieldOfType, StoredId DEF StoredFields
  <2> QED
    BY <1>1, <1>2, <1>5, <1>7, <2>1, <2>2, ContentsGiven
<1> QED
  BY <1>5, <1>6, <1>7

\* What the contents are read from does not change while d does.
LEMMA SameView ==
  ASSUME MergeInv, NEW d \in Live \cap Targets, br'[d].config = br[d].config,
         \A b \in Sources : br'[b] = br[b],
         NEW f \in Channels, NEW s \in Channels, parts' = parts
  PROVE  /\ HasCase(d)' => HasCase(d)
         /\ (InRoles(d, f, s) \/ NamesApart(f, s))' => InRoles(d, f, s) \/ NamesApart(f, s)
         /\ s # NullChannel => PrefixOf(s)' = PrefixOf(s)
         /\ \A g \in {f, s} : \A r, p, b :
              g # NullChannel /\ HasContents(d, r, g, p, b) => HasContents(d, r, g, p, b)'
<1>1. \A g \in {f, s} : g # NullChannel => br'[g.branch] = br[g.branch]
  BY ChannelRecord
<1>2. HasCase(d)' => HasCase(d)
  <2>1. PICK a, b \in Sources : parts[d] = <<a, b>>
    BY TargetMade
  <2>2. parts[d][1] = a /\ parts[d][2] = b
    BY <2>1
  <2> QED
    BY <2>2 DEF HasCase
<1>3. InRoles(d, f, s)' => InRoles(d, f, s)
  BY DEF InRoles
<1>4. s # NullChannel => PrefixOf(s)' = PrefixOf(s)
  BY <1>1 DEF PrefixOf
<1>5. \A g \in {f, s} : \A p : g # NullChannel => Given(g, p)' = Given(g, p)
  BY <1>1 DEF Given
<1>6. NamesApart(f, s)' => NamesApart(f, s)
  BY <1>4, <1>5 DEF NamesApart
<1>7. \A g \in {f, s} : \A r, p, b :
        g # NullChannel /\ HasContents(d, r, g, p, b) => HasContents(d, r, g, p, b)'
  BY <1>1 DEF HasContents
<1> QED
  BY <1>2, <1>3, <1>4, <1>6, <1>7

\* MergeContentFromTwoChannels.
LEMMA MergeContentInv ==
  ASSUME MergeInv, NEW d \in Live \cap Targets, NEW i \in Records(d),
         NEW f \in Channels, NEW s \in Channels, MergeContentFromTwoChannels(d, i, f, s)
  PROVE  MergeInv' /\ MergedRecordHolds'
<1> DEFINE x == BothCopied(d, i, f, s)
           r == MergedRecord(d, i, f, s)
           m == x.mapping
           throws == ~x.ok \/ ~HasField(br[d].config, "matching_case")
<1>1. /\ br' = [br EXCEPT ![d].mapping = m, ![d].records[i] = r]
      /\ merged' = IF throws THEN NullChannel
                   ELSE [branch |-> d, row |-> i, first |-> f, second |-> s]
      /\ used \subseteq used' /\ Uses(d, f, s) \subseteq used' /\ parts' = parts
  BY DEF MergeContentFromTwoChannels, MergedRecord
<1>2. GoodCopy(d, x, used') /\ Sound(br[d].config.type, r) /\ Full(br[d].config, r)
  BY <1>1, MergedRecordGood
<1>3. /\ m \in [Branches -> (SUBSET (Field \X Field)) \cup {NoMapping}]
      /\ MapsUsed(d, m, used')
  BY <1>2 DEF GoodCopy
<1>4. /\ br' = [br EXCEPT ![d].mapping = m, ![d].records[i] = r]
      /\ throws <=> ~x.ok \/ ~HasField(br[d].config, "matching_case")
      /\ r = MergedRecord(d, i, f, s)
  BY <1>1
<1> HIDE DEF r, x, m, throws
<1> DEFINE rs == [br[d].records EXCEPT ![i] = r]
           z == [br[d] EXCEPT !.mapping = m, !.records = rs]
<1>5. br' = [br EXCEPT ![d] = z]
  BY <1>4
<1>6. rs = [br[d].records EXCEPT ![i] = r] /\ WholeBranch(br[d])
  BY LiveWhole
<1> HIDE DEF rs
<1>7. z = [config |-> br[d].config, mutable |-> br[d].mutable, frozen |-> br[d].frozen,
           hash |-> br[d].hash, records |-> rs, mapping |-> m]
  BY <1>6, Updates
<1> HIDE DEF z
<1>8. MergeInv'
  BY <1>1, <1>2, <1>3, <1>5, <1>6, <1>7, RecordMerge
<1>9. MergedRecordHolds'
  <2>1. CASE throws
    BY <1>1, <2>1 DEF MergedRecordHolds
  <2>2. CASE ~throws
    <3>1. /\ merged'.branch = d /\ merged'.row = i
          /\ merged'.first = f /\ merged'.second = s
      BY <1>1, <2>2
    <3>2. /\ br'[d] = z /\ \A b \in Sources : br'[b] = br[b]
      BY <1>5, LiveWhole DEF Sources, Targets
    <3>3. br'[d].config = br[d].config /\ br'[d].records[i] = r
      <4>1. br[d].records \in Seq(AnyRecord) /\ i \in DOMAIN br[d].records
        BY <1>6, WholeFacts, BranchParts DEF Records
      <4> QED
        BY <1>6, <1>7, <3>2, <4>1
    <3>4. PICK v : v = r
      OBVIOUS
    <3>5. SUFFICES ASSUME OneRoleEach(d)', HasCase(d)',
                          (InRoles(d, f, s) \/ NamesApart(f, s))'
                   PROVE  /\ f # NullChannel =>
                               HasContents(d, v, f, NoPrefix, parts[d][1])'
                          /\ s # NullChannel =>
                               HasContents(d, v, s, PrefixOf(s), parts[d][2])'
                          /\ Value(v, FieldOf(br[d].config, "matching_case"))'
                               = 2 * MatchingCase(f, s)
      BY <3>1, <3>3, <3>4 DEF MergedRecordHolds
    <3>6. OneRoleIn(d, used')
      BY <3>5 DEF OneRoleEach, OneRoleIn
    <3>7. HasCase(d) /\ (InRoles(d, f, s) \/ NamesApart(f, s))
      BY <1>1, <3>2, <3>3, <3>5, SameView
    <3>8. BothCopied(d, i, f, s).ok /\ HasField(br[d].config, "matching_case")
      BY <1>4, <2>2 DEF x
    <3>9. v = MergedRecord(d, i, f, s)
      BY <1>4, <3>4
    <3>10. PICK p, a, b : p = PrefixOf(s) /\ a = parts[d][1] /\ b = parts[d][2]
      OBVIOUS
    <3>11. /\ f # NullChannel => HasContents(d, v, f, NoPrefix, a)
           /\ s # NullChannel => HasContents(d, v, s, p, b)
           /\ Value(v, FieldOf(br[d].config, "matching_case")) = 2 * MatchingCase(f, s)
      BY <1>1, <3>6, <3>7, <3>8, <3>9, <3>10, MergedContents
    <3>12. /\ f # NullChannel => HasContents(d, v, f, NoPrefix, a)'
           /\ s # NullChannel => HasContents(d, v, s, p, b)'
      BY <1>1, <3>2, <3>3, <3>11, SameView
    <3>13. parts'[d][1] = a /\ parts'[d][2] = b /\ (s # NullChannel => PrefixOf(s)' = p)
      BY <1>1, <3>2, <3>3, <3>10, SameView
    <3> QED
      BY <3>3, <3>11, <3>12, <3>13
  <2> QED
    BY <2>1, <2>2
<1> QED
  BY <1>8, <1>9

LEMMA OtherCallInv ==
  ASSUME MergeInv, OtherCall, used' = used
  PROVE  MergeInv'
<1>1. parts' = parts /\ Sources \subseteq Live
  BY DEF OtherCall, Sources
<1>2. CASE \E b \in DOMAIN SourceName, t \in DetTypes, fs \in SUBSET NewFields :
             ReadSource(b, t, fs)
  BY <1>1, <1>2, ReadSourceInv
<1>3. CASE \E b \in Sources : Freeze(b, TRUE)
  BY <1>1, <1>3, FreezeMerge
<1>4. CASE \E d \in Live \cap Targets : SetMutable(d, TRUE) \/ NewChannel(d)
  BY <1>1, <1>4, SetMutableMerge, NewChannelMerge
<1>5. CASE \E b \in Sources : \E i \in Records(b), n \in UserNames, v \in Inputs :
             SetValue(b, i, n, v)
  BY <1>1, <1>5, SetValueMerge
<1> QED
  BY <1>2, <1>3, <1>4, <1>5 DEF OtherCall

LEMMA MergeNextInv ==
  ASSUME MergeInv, MergeNext
  PROVE  MergeInv' /\ MergedRecordHolds'
<1>1. ASSUME merged' = NullChannel
      PROVE  MergedRecordHolds'
  BY <1>1 DEF MergedRecordHolds
<1>2. CASE /\ OtherCall \/ \E d \in Targets, a, b \in Sources : ConstructMerged(d, a, b)
           /\ merged' = NullChannel
           /\ UNCHANGED used
  BY <1>1, <1>2, OtherCallInv, ConstructMergedInv
<1>3. CASE \E d \in Live \cap Targets : \E i \in Records(d) :
             \E s \in Channels \ {NullChannel} : CopyOne(d, i, s)
  <2>1. merged' = NullChannel
    BY <1>3 DEF CopyOne
  <2> QED
    BY <1>1, <1>3, <2>1, CopyOneMerge
<1>4. CASE \E d \in Live \cap Targets : \E i \in Records(d) : \E f, s \in Channels :
             MergeContentFromTwoChannels(d, i, f, s)
  BY <1>4, MergeContentInv
<1> QED
  BY <1>2, <1>3, <1>4 DEF MergeNext

LEMMA MergedStutter ==
  ASSUME MergedRecordHolds, UNCHANGED mvars
  PROVE  MergedRecordHolds'
<1>1. br' = br /\ merged' = merged /\ used' = used /\ parts' = parts
  BY DEF mvars
<1> QED
  BY <1>1 DEF MergedRecordHolds, OneRoleEach, HasCase, InRoles, NamesApart, Given,
              HasContents, PrefixOf

\* Targets stay made of the two branches they were, records keep a slot for
\* each field, and the mappings to a branch are those of copies into it.
LEMMA MergeInvariance == MergeSpec => []MergeInv
<1>1. MergeInv /\ [MergeNext]_mvars => MergeInv'
  BY MergeNextInv, MergeStutterInv
<1> QED
  BY <1>1, MergeInitInv, PTL DEF MergeSpec

\* After MergeContentFromTwoChannels the record holds what the two channels do,
\* under the names CloneAndMerge gave the fields, and the case.
THEOREM MergedRecordsHold == MergeSpec => []MergedRecordHolds
<1>1. MergeInit => MergedRecordHolds
  BY DEF MergeInit, MergedRecordHolds
<1>2. MergeInv /\ MergedRecordHolds /\ [MergeNext]_mvars => MergedRecordHolds'
  BY MergeNextInv, MergedStutter
<1> QED
  BY <1>1, <1>2, MergeInvariance, PTL DEF MergeSpec
=============================================================================
