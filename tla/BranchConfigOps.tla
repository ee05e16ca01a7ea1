-------------------------- MODULE BranchConfigOps --------------------------
(***************************************************************************)
(* The value of class BranchConfig (core/BranchConfig.hpp, .cpp) and the   *)
(* operations on it.  A BranchConfig is three VectorConfig<T> bases, each a *)
(* map_ from field name to id and a size_: here id[t][n], which is Undef   *)
(* when n is absent (what VectorConfig::GetId returns for it), and size[t].*)
(***************************************************************************)
EXTENDS FieldTables, Sequences, FiniteSets

CONSTANTS
  Names,          \* the field names
  DetTypes,       \* the detector types in use
  BranchNames,    \* the names branches can have
  Rank,           \* position of a name in the order of std::map<std::string,_>
  Prefixed(_, _)  \* Prefixed(b, n): the string b + "_" + n

\* Default ids are negative, differ within an elementary type, and no default
\* name is used by two elementary types.
ASSUME DefaultsAssumption ==
  /\ DetTypes \subseteq AllDetTypes
  /\ \A d \in DetTypes, t \in Types, n \in Names :
       /\ DefaultId(d, t, n) \in Int
       /\ DefaultId(d, t, n) < 0
       /\ \A m \in Names \ {n} :
            \/ DefaultId(d, t, n) = Undef
            \/ DefaultId(d, t, n) # DefaultId(d, t, m)
       /\ \A u \in Types \ {t} :
            DefaultId(d, t, n) = Undef \/ DefaultId(d, u, n) = Undef

ASSUME NamesAssumption ==
  /\ IsFiniteSet(Names)
  /\ Rank \in [Names -> Nat]
  /\ \A m, n \in Names : Rank[m] = Rank[n] => m = n
  /\ \A b \in BranchNames, m, n \in Names :
       Prefixed(b, m) = Prefixed(b, n) => m = n

Config ==
  [name : BranchNames, type : DetTypes,
   id   : [Types -> [Names -> Int]],
   size : [Types -> Nat]]

(***************************************************************************)
(* Lookups                                                                 *)
(***************************************************************************)
Has(c, t, n) == c.id[t][n] # Undef

Fields(c, t) == {n \in Names : Has(c, t, n)}

UserFields(c, t) == {n \in Names : c.id[t][n] >= 0}

\* Mutant of GetFieldType: the search forgets the bool fields.
GetFieldTypeNoBool(c, n) ==
  IF Has(c, "int", n) THEN "int"
  ELSE IF Has(c, "float", n) THEN "float" ELSE "none"

\* GetFieldType: int is searched first, then float, then bool.
GetFieldType(c, n) ==
  IF Has(c, "int", n) THEN "int"
  ELSE IF Has(c, "float", n) THEN "float"
  ELSE IF Has(c, "bool", n) THEN "bool" ELSE "none"

GetFieldId(c, n) ==
  IF GetFieldType(c, n) = "none" THEN Undef ELSE c.id[GetFieldType(c, n)][n]

HasField(c, n) == GetFieldId(c, n) # Undef

(***************************************************************************)
(* Construction and edits.  An edit is used only where its guard, the      *)
(* negation of the exception the code throws, holds.                       *)
(***************************************************************************)
NewConfig(b, d) ==
  [name |-> b, type |-> d,
   id   |-> [t \in Types |-> [n \in Names |-> DefaultId(d, t, n)]],
   size |-> [t \in Types |-> 0]]

\* AddField<T>(name, title) after GuaranteeFieldNameVacancy.
AddField(c, t, n) ==
  [c EXCEPT !.id[t][n] = c.size[t], !.size[t] = @ + 1]

\* AddFields<T>(names): the vacancy of every name is checked before the first
\* insertion.  A name repeated in the list is inserted once, size_ still grows.
AddFieldsOk(c, ns) == \A i \in 1 .. Len(ns) : ~HasField(c, ns[i])

FirstAt(ns, n) ==
  CHOOSE i \in 1 .. Len(ns) :
    ns[i] = n /\ \A j \in 1 .. Len(ns) : ns[j] = n => i <= j

AddFields(c, t, ns) ==
  [c EXCEPT
     !.id[t] = [n \in Names |->
                  IF \E i \in 1 .. Len(ns) : ns[i] = n
                  THEN c.size[t] + FirstAt(ns, n) - 1 ELSE c.id[t][n]],
     !.size[t] = @ + Len(ns)]

\* AddField<T>(name, id, title): the caller chooses the id, size_ stays.
AddFieldWithId(c, t, n, i) == [c EXCEPT !.id[t][n] = i]

\* RemoveField(name) of a user field: the higher ids move down by one and
\* size_ stays.
RemoveFieldOk(c, n) == HasField(c, n) /\ GetFieldId(c, n) >= 0

\* Mutant of RemoveField: gives the slot back but leaves the higher ids.
RemoveFieldNoShift(c, n) ==
  LET t == GetFieldType(c, n)
  IN [c EXCEPT !.id[t][n] = Undef, !.size[t] = @ - 1]

\* Mutant of RemoveField: every other field moves down, default ones too.
RemoveFieldShiftsAll(c, n) ==
  LET t == GetFieldType(c, n)
  IN [c EXCEPT !.id[t] = [m \in Names |->
        IF m = n \/ ~Has(c, t, m) THEN Undef ELSE c.id[t][m] - 1]]

RemoveField(c, n) ==
  LET t == GetFieldType(c, n)
      i == GetFieldId(c, n)
  IN [c EXCEPT !.id[t] = [m \in Names |->
        IF m = n THEN Undef
        ELSE IF c.id[t][m] > i THEN c.id[t][m] - 1 ELSE c.id[t][m]]]

\* Clone(name, type): the user fields keep their ids and the sizes are
\* copied; a user field whose name is a default field of the new type throws.
CloneOk(c, d) ==
  \A t, u \in Types : \A n \in UserFields(c, t) :
    /\ DefaultId(d, u, n) = Undef
    /\ u # t => c.id[u][n] < 0

\* Mutant of Clone: the sizes are not copied.
CloneForgetsSizes(c, b, d) ==
  [name |-> b, type |-> d,
   id   |-> [t \in Types |-> [n \in Names |->
               IF c.id[t][n] >= 0 THEN c.id[t][n] ELSE DefaultId(d, t, n)]],
   size |-> [t \in Types |-> 0]]

\* Mutant of Clone: the user fields are added anew, in the order of the map.
CloneRenumbers(c, b, d) ==
  [name |-> b, type |-> d,
   id   |-> [t \in Types |-> [n \in Names |->
               IF c.id[t][n] >= 0
               THEN Cardinality({m \in UserFields(c, t) : Rank[m] < Rank[n]})
               ELSE DefaultId(d, t, n)]],
   size |-> c.size]

Clone(c, b, d) ==
  [name |-> b, type |-> d,
   id   |-> [t \in Types |-> [n \in Names |->
               IF c.id[t][n] >= 0 THEN c.id[t][n] ELSE DefaultId(d, t, n)]],
   size |-> c.size]

(***************************************************************************)
(* CloneAndMerge(attached): every field of attached, its default ones too, *)
(* is added to a clone under the prefixed name and a new id, in the order  *)
(* of attached's map; two channelised branches get "matching_case".        *)
(***************************************************************************)
Position(c, t, n) ==
  Cardinality({m \in Fields(c, t) : Rank[m] < Rank[n]})

MergedSize(a, b, t) == a.size[t] + Cardinality(Fields(b, t))

HasMatchingCase(a, b) == a.type # "kEventHeader" /\ b.type # "kEventHeader"

MergeOk(a, b) ==
  /\ CloneOk(a, a.type)
  /\ \A t \in Types : \A n \in Fields(b, t) :
       /\ ~HasField(a, Prefixed(b.name, n))
       /\ \A u \in Types \ {t} : ~Has(b, u, n)
  /\ HasMatchingCase(a, b) =>
       /\ ~HasField(a, "matching_case")
       /\ \A t \in Types : \A n \in Fields(b, t) :
            Prefixed(b.name, n) # "matching_case"

Merged(a, b, name) ==
  [Clone(a, name, a.type) EXCEPT
     !.id = [t \in Types |-> [m \in Names |->
               IF \E n \in Fields(b, t) : m = Prefixed(b.name, n)
               THEN a.size[t] + Position(b, t, CHOOSE n \in Fields(b, t) :
                                                 m = Prefixed(b.name, n))
               ELSE @[t][m]]],
     !.size = [t \in Types |-> MergedSize(a, b, t)]]

CloneAndMerge(a, b, name) ==
  IF HasMatchingCase(a, b)
  THEN AddField(Merged(a, b, name), "int", "matching_case")
  ELSE Merged(a, b, name)
=============================================================================
