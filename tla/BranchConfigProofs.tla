------------------------- MODULE BranchConfigProofs -------------------------
(***************************************************************************)
(* The invariants of BranchConfig hold for every set of names, handles,    *)
(* caller ids and detector types.                                          *)
(***************************************************************************)
EXTENDS BranchConfig, FiniteSetTheorems, SequenceTheorems, TLAPS

\* What every object satisfies.
WellFormed(c) == c \in Config /\ OneTypePerName(c) /\ KeepsDefaults(c)

\* What it satisfies as long as its ids were chosen by the class.
SelfNumbered(c) == DistinctIds(c) /\ HasSlots(c)

\* The three elementary types and the id UndefValueShort of an absent field.
LEMMA TypesFact ==
  /\ Types = {"float", "int", "bool"}
  /\ Undef = -999
BY DEF Types, Undef

\* Giving an object new ids and sizes of the right types leaves it well typed.
LEMMA NewIdsAndSizes ==
  ASSUME NEW c \in Config, NEW f \in [Types -> [Names -> Int]],
         NEW s \in [Types -> Nat]
  PROVE  [c EXCEPT !.id = f, !.size = s] \in Config
BY DEF Config

\* Giving an object new ids alone leaves it well typed.
LEMMA NewIds ==
  ASSUME NEW c \in Config, NEW f \in [Types -> [Names -> Int]]
  PROVE  [c EXCEPT !.id = f] \in Config
BY DEF Config

\* The constructor makes a sound object: it has the default fields of its
\* detector type and nothing else.
LEMMA NewConfigSound ==
  ASSUME NEW b \in BranchNames, NEW d \in DetTypes
  PROVE  WellFormed(NewConfig(b, d)) /\ SelfNumbered(NewConfig(b, d))
<1> DEFINE c == NewConfig(b, d)
<1>1. c \in Config
  BY DefaultsAssumption DEF NewConfig, Config
<1>2. \A t \in Types, n \in Names : c.id[t][n] = DefaultId(d, t, n)
  BY DEF NewConfig
<1>3. c.type = d
  BY DEF NewConfig
<1> HIDE DEF c
<1>4. OneTypePerName(c) /\ KeepsDefaults(c)
  BY <1>2, <1>3, DefaultsAssumption DEF OneTypePerName, KeepsDefaults, Has
<1>5. DistinctIds(c)
  BY <1>2, DefaultsAssumption DEF DistinctIds, Fields, Has
<1>6. HasSlots(c)
  BY <1>2, DefaultsAssumption DEF HasSlots, UserFields
<1> QED
  BY <1>1, <1>4, <1>5, <1>6 DEF WellFormed, SelfNumbered, c

\* The ids after AddField.
LEMMA AddFieldIds ==
  ASSUME NEW c \in Config, NEW t \in Types, NEW n \in Names
  PROVE  LET e == AddField(c, t, n)
         IN  /\ e.type = c.type
             /\ \A u \in Types, m \in Names :
                  e.id[u][m] = IF u = t /\ m = n THEN c.size[t] ELSE c.id[u][m]
             /\ \A u \in Types :
                  e.size[u] = IF u = t THEN c.size[t] + 1 ELSE c.size[u]
BY DEF AddField, Config

\* AddField(name, title) of a new name keeps an object sound: the id it gives,
\* size_ before the call, is above every id of that type.
LEMMA AddFieldSound ==
  ASSUME NEW c, WellFormed(c), NEW t \in Types, NEW n \in Names,
         ~HasField(c, n)
  PROVE  /\ WellFormed(AddField(c, t, n))
         /\ SelfNumbered(c) => SelfNumbered(AddField(c, t, n))
<1> DEFINE e == AddField(c, t, n)
<1>1. \A u \in Types : c.id[u][n] = Undef
  BY TypesFact DEF HasField, GetFieldId, GetFieldType, Has
<1>2. c \in Config /\ OneTypePerName(c) /\ KeepsDefaults(c)
  BY DEF WellFormed
<1>3. c.size[t] \in Nat
  BY <1>2 DEF Config
<1>4. e \in Config
  <2> DEFINE f == [c.id EXCEPT ![t] = [@ EXCEPT ![n] = c.size[t]]]
             s == [c.size EXCEPT ![t] = @ + 1]
  <2>1. f \in [Types -> [Names -> Int]] /\ s \in [Types -> Nat]
    BY <1>2, <1>3 DEF Config
  <2>2. e = [c EXCEPT !.id = f, !.size = s]
    BY <1>2 DEF AddField, Config
  <2> HIDE DEF e, f, s
  <2> QED
    BY <1>2, <2>1, <2>2, NewIdsAndSizes
<1>5. /\ e.type = c.type
      /\ \A u \in Types, m \in Names :
           e.id[u][m] = IF u = t /\ m = n THEN c.size[t] ELSE c.id[u][m]
      /\ \A u \in Types : e.size[u] = IF u = t THEN c.size[t] + 1 ELSE c.size[u]
  BY <1>2, AddFieldIds
<1> HIDE DEF e
<1>6. OneTypePerName(e)
  BY <1>1, <1>2, <1>5 DEF OneTypePerName, Has
<1>7. KeepsDefaults(e)
  BY <1>1, <1>2, <1>3, <1>5, DefaultsAssumption, TypesFact
  DEF KeepsDefaults, Has, Config
<1>8. SelfNumbered(c) => HasSlots(e)
  BY <1>2, <1>3, <1>5 DEF SelfNumbered, HasSlots, UserFields, Config
<1>9. SelfNumbered(c) => DistinctIds(e)
  BY <1>2, <1>3, <1>5, TypesFact
  DEF SelfNumbered, HasSlots, UserFields, DistinctIds, Fields, Has, Config
<1> QED
  BY <1>4, <1>6, <1>7, <1>8, <1>9 DEF WellFormed, SelfNumbered, e

\* AddField(name, id, title) keeps names and default fields sound, for any id
\* of 0 or more; nothing is said of unique ids.
LEMMA AddFieldWithIdSound ==
  ASSUME NEW c, WellFormed(c), NEW t \in Types, NEW n \in Names,
         ~HasField(c, n), NEW i \in Nat
  PROVE  WellFormed(AddFieldWithId(c, t, n, i))
<1> DEFINE e == AddFieldWithId(c, t, n, i)
<1>1. \A u \in Types : c.id[u][n] = Undef
  BY TypesFact DEF HasField, GetFieldId, GetFieldType, Has
<1>2. c \in Config /\ OneTypePerName(c) /\ KeepsDefaults(c)
  BY DEF WellFormed
<1>3. e \in Config
  <2> DEFINE f == [c.id EXCEPT ![t] = [@ EXCEPT ![n] = i]]
  <2>1. f \in [Types -> [Names -> Int]]
    BY <1>2 DEF Config
  <2>2. e = [c EXCEPT !.id = f]
    BY <1>2 DEF AddFieldWithId, Config
  <2> HIDE DEF e, f
  <2> QED
    BY <1>2, <2>1, <2>2, NewIds
<1>4. /\ e.type = c.type
      /\ \A u \in Types, m \in Names :
           e.id[u][m] = IF u = t /\ m = n THEN i ELSE c.id[u][m]
  BY <1>2 DEF AddFieldWithId, Config
<1> HIDE DEF e
<1>5. OneTypePerName(e)
  BY <1>1, <1>2, <1>4 DEF OneTypePerName, Has
<1>6. KeepsDefaults(e)
  BY <1>1, <1>2, <1>4, DefaultsAssumption, TypesFact
  DEF KeepsDefaults, Has, Config
<1> QED
  BY <1>3, <1>5, <1>6 DEF WellFormed, e

\* The ids after RemoveField: in the type of the field, those above its own
\* moved down.
LEMMA RemoveFieldIds ==
  ASSUME NEW c \in Config, NEW n \in Names, RemoveFieldOk(c, n)
  PROVE  LET t == GetFieldType(c, n)
             i == c.id[t][n]
             e == RemoveField(c, n)
         IN  /\ t \in Types /\ i \in Nat /\ GetFieldId(c, n) = i
             /\ e.type = c.type /\ e.size = c.size
             /\ \A u \in Types, m \in Names :
                  e.id[u][m] = IF u # t THEN c.id[u][m]
                               ELSE IF m = n THEN Undef
                               ELSE IF c.id[t][m] > i THEN c.id[t][m] - 1
                               ELSE c.id[t][m]
<1> DEFINE t == GetFieldType(c, n)
           i == c.id[t][n]
           e == RemoveField(c, n)
<1>1. t \in Types /\ i \in Nat /\ GetFieldId(c, n) = i
  BY TypesFact DEF RemoveFieldOk, HasField, GetFieldId, GetFieldType, Has, Config
<1>2. /\ e.type = c.type /\ e.size = c.size
      /\ \A u \in Types, m \in Names :
           e.id[u][m] = IF u # t THEN c.id[u][m]
                        ELSE IF m = n THEN Undef
                        ELSE IF c.id[t][m] > i THEN c.id[t][m] - 1
                        ELSE c.id[t][m]
  BY <1>1 DEF RemoveField, Config
<1> QED
  BY <1>1, <1>2

\* RemoveField keeps an object sound: the ids above the removed one move down
\* by one, which keeps them distinct, and size_ stays.
LEMMA RemoveFieldSound ==
  ASSUME NEW c, WellFormed(c), NEW n \in Names, RemoveFieldOk(c, n)
  PROVE  /\ WellFormed(RemoveField(c, n))
         /\ SelfNumbered(c) => SelfNumbered(RemoveField(c, n))
<1> DEFINE t == GetFieldType(c, n)
           i == c.id[t][n]
           e == RemoveField(c, n)
<1>1. c \in Config /\ OneTypePerName(c) /\ KeepsDefaults(c)
  BY DEF WellFormed
<1>2. t \in Types /\ i \in Nat /\ GetFieldId(c, n) = i
  BY <1>1, RemoveFieldIds
<1>3. e \in Config
  <2> DEFINE g == [m \in Names |->
                     IF m = n THEN Undef
                     ELSE IF c.id[t][m] > i THEN c.id[t][m] - 1
                     ELSE c.id[t][m]]
             f == [c.id EXCEPT ![t] = g]
  <2>1. g \in [Names -> Int]
    BY <1>1, <1>2, TypesFact DEF Config
  <2>2. f \in [Types -> [Names -> Int]]
    BY <1>1, <1>2, <2>1 DEF Config
  <2>3. e = [c EXCEPT !.id = f]
    BY <1>1, <1>2 DEF RemoveField, Config
  <2> HIDE DEF e, f
  <2> QED
    BY <1>1, <2>2, <2>3, NewIds
<1>4. /\ e.type = c.type /\ e.size = c.size
      /\ \A u \in Types, m \in Names :
           e.id[u][m] = IF u # t THEN c.id[u][m]
                        ELSE IF m = n THEN Undef
                        ELSE IF c.id[t][m] > i THEN c.id[t][m] - 1
                        ELSE c.id[t][m]
  BY <1>1, RemoveFieldIds
<1> HIDE DEF e, t
<1>5. \A u \in Types, m \in Names : c.id[u][m] \in Int
  BY <1>1 DEF Config
<1>6. OneTypePerName(e)
  BY <1>1, <1>2, <1>4, <1>5, TypesFact DEF OneTypePerName, Has
<1>7. KeepsDefaults(e)
  BY <1>1, <1>2, <1>4, <1>5, DefaultsAssumption, TypesFact
  DEF KeepsDefaults, Has, Config
<1>8. SelfNumbered(c) => HasSlots(e)
  BY <1>1, <1>2, <1>4, <1>5, TypesFact
  DEF SelfNumbered, HasSlots, UserFields, Config
<1>9. SelfNumbered(c) => DistinctIds(e)
  <2> SUFFICES ASSUME DistinctIds(c), NEW u \in Types,
                      NEW m \in Fields(e, u), NEW k \in Fields(e, u),
                      e.id[u][m] = e.id[u][k]
               PROVE  m = k
    BY DEF SelfNumbered, DistinctIds
  <2>1. \A x \in Names : c.id[t][x] = i => x = n
    BY <1>2, TypesFact DEF DistinctIds, Fields, Has
  <2>2. m \in Fields(c, u) /\ k \in Fields(c, u)
    BY <1>2, <1>4, <1>5, TypesFact DEF Fields, Has
  <2>3. u = t => /\ m # n /\ c.id[t][m] # i
                 /\ k # n /\ c.id[t][k] # i
    BY <1>2, <1>4, <2>1 DEF Fields, Has
  <2>4. m \in Names /\ k \in Names
    BY DEF Fields
  <2>5. c.id[u][m] = c.id[u][k]
    <3>1. CASE u # t
      BY <1>4, <2>4, <3>1
    <3>2. CASE u = t
      BY <1>2, <1>4, <1>5, <2>3, <2>4, <3>2
    <3> QED
      BY <3>1, <3>2
  <2> QED
    BY <2>2, <2>5 DEF DistinctIds
<1> QED
  BY <1>3, <1>6, <1>7, <1>8, <1>9 DEF WellFormed, SelfNumbered, e

\* The ids after Clone.
LEMMA CloneIds ==
  ASSUME NEW c, NEW b, NEW d
  PROVE  LET e == Clone(c, b, d)
         IN  /\ e.type = d /\ e.size = c.size
             /\ \A t \in Types, n \in Names :
                  e.id[t][n] = IF c.id[t][n] >= 0 THEN c.id[t][n]
                               ELSE DefaultId(d, t, n)
BY DEF Clone

\* Clone keeps an object sound, also when it takes a branch of type kGeneric
\* over to another type, which adds that type's default fields.
LEMMA CloneSound ==
  ASSUME NEW c, WellFormed(c), NEW b \in BranchNames, NEW d \in DetTypes,
         CloneOk(c, d)
  PROVE  /\ WellFormed(Clone(c, b, d))
         /\ SelfNumbered(c) => SelfNumbered(Clone(c, b, d))
<1> DEFINE e == Clone(c, b, d)
<1>1. c \in Config /\ OneTypePerName(c) /\ KeepsDefaults(c)
  BY DEF WellFormed
<1>2. \A u \in Types, m \in Names : c.id[u][m] \in Int
  BY <1>1 DEF Config
<1>3. e \in Config
  BY <1>1, <1>2, DefaultsAssumption DEF Clone, Config
<1>4. /\ e.type = d /\ e.size = c.size
      /\ \A t \in Types, n \in Names :
           e.id[t][n] = IF c.id[t][n] >= 0 THEN c.id[t][n]
                        ELSE DefaultId(d, t, n)
  BY CloneIds
<1> HIDE DEF e
<1>5. \A t, u \in Types, n \in Names :
        c.id[t][n] >= 0 => /\ DefaultId(d, u, n) = Undef
                           /\ u # t => c.id[u][n] < 0
  BY DEF CloneOk, UserFields
<1>6. OneTypePerName(e)
  BY <1>2, <1>4, <1>5, DefaultsAssumption, TypesFact DEF OneTypePerName, Has
<1>7. KeepsDefaults(e)
  BY <1>2, <1>4, <1>5, DefaultsAssumption, TypesFact DEF KeepsDefaults, Has
<1>8. SelfNumbered(c) => HasSlots(e)
  BY <1>2, <1>4, DefaultsAssumption DEF SelfNumbered, HasSlots, UserFields
<1>9. SelfNumbered(c) => DistinctIds(e)
  BY <1>2, <1>4, DefaultsAssumption, TypesFact
  DEF SelfNumbered, DistinctIds, Fields, Has
<1> QED
  BY <1>3, <1>6, <1>7, <1>8, <1>9 DEF WellFormed, SelfNumbered, e

\* The ids CloneAndMerge deals out count the fields before one in the map.
LEMMA PositionBounds ==
  ASSUME NEW c, NEW t \in Types, NEW n \in Fields(c, t)
  PROVE  /\ Position(c, t, n) \in Nat
         /\ Cardinality(Fields(c, t)) \in Nat
         /\ Position(c, t, n) < Cardinality(Fields(c, t))
<1> DEFINE S == Fields(c, t)
           B == {m \in S : Rank[m] < Rank[n]}
<1>1. IsFiniteSet(S)
  BY NamesAssumption, FS_Subset DEF Fields
<1>2. B \subseteq S /\ n \notin B
  BY NamesAssumption DEF Fields
<1>3. IsFiniteSet(B) /\ Cardinality(B) <= Cardinality(S) /\ B # S
      /\ (Cardinality(B) = Cardinality(S) => B = S)
  BY <1>1, <1>2, FS_Subset
<1>4. Cardinality(B) \in Nat /\ Cardinality(S) \in Nat
  BY <1>1, <1>3, FS_CardinalityType
<1> QED
  BY <1>3, <1>4 DEF Position

\* Two names of a finite set have different positions in map order.
LEMMA PositionInjective ==
  ASSUME NEW c, NEW t \in Types, NEW m \in Fields(c, t), NEW n \in Fields(c, t),
         Position(c, t, m) = Position(c, t, n)
  PROVE  m = n
<1> DEFINE Before(k) == {l \in Fields(c, t) : Rank[l] < Rank[k]}
<1>1. \A k \in Names : Rank[k] \in Nat
  BY NamesAssumption
<1>2. \A k \in Fields(c, t) : k \in Names /\ IsFiniteSet(Before(k))
  BY NamesAssumption, FS_Subset DEF Fields
<1>3. ASSUME NEW k \in Fields(c, t), NEW l \in Fields(c, t),
             Rank[k] < Rank[l]
      PROVE  Position(c, t, k) # Position(c, t, l)
  <2>1. Before(k) \subseteq Before(l)
    <3> SUFFICES ASSUME NEW x \in Before(k)
                 PROVE  x \in Before(l)
      OBVIOUS
    <3>1. Rank[x] \in Nat /\ Rank[k] \in Nat /\ Rank[l] \in Nat
      BY <1>1, <1>2
    <3> QED
      BY <1>3, <3>1
  <2>3. k \in Before(l) /\ k \notin Before(k)
    <3>1. Rank[k] \in Nat
      BY <1>1, <1>2
    <3>2. ~(Rank[k] < Rank[k])
      BY <3>1
    <3> QED
      BY <1>3, <3>2
  <2>2. Cardinality(Before(k)) # Cardinality(Before(l))
    BY <1>2, <2>1, <2>3, FS_Subset
  <2> QED
    BY <2>2 DEF Position
<1>4. Rank[m] = Rank[n]
  <2>1. Rank[m] \in Nat /\ Rank[n] \in Nat
    BY <1>1, <1>2
  <2>2. ~(Rank[m] < Rank[n]) /\ ~(Rank[n] < Rank[m])
    BY <1>3
  <2> QED
    BY <2>1, <2>2
<1> QED
  BY <1>2, <1>4, NamesAssumption

\* The ids after the merge: the fields of the attached object follow under
\* their prefixed names, which none of the first object's types has.
LEMMA MergedIds ==
  ASSUME NEW a, NEW b, WellFormed(a), WellFormed(b), MergeOk(a, b), NEW name,
         \A t \in Types : \A n \in Fields(b, t) : Prefixed(b.name, n) \in Names
  PROVE  LET e == Merged(a, b, name)
         IN  /\ e.name = name /\ e.type = a.type
             /\ \A t \in Types : e.size[t] = MergedSize(a, b, t)
             /\ \A t \in Types : \A n \in Fields(b, t) :
                  e.id[t][Prefixed(b.name, n)] = a.size[t] + Position(b, t, n)
             /\ \A t \in Types, m \in Names :
                  (\A n \in Fields(b, t) : m # Prefixed(b.name, n)) =>
                    e.id[t][m] = a.id[t][m]
             /\ \A t, u \in Types : \A n \in Fields(b, t) :
                  a.id[u][Prefixed(b.name, n)] = Undef
<1> DEFINE e == Merged(a, b, name)
           P(n) == Prefixed(b.name, n)
           New(t) == {P(n) : n \in Fields(b, t)}
<1>1. /\ a \in Config /\ KeepsDefaults(a) /\ b.name \in BranchNames
      /\ \A t \in Types, n \in Names : a.id[t][n] \in Int
  BY DEF WellFormed, Config
<1>2. \A t \in Types : Fields(b, t) \subseteq Names
  BY DEF Fields
<1>3. \A t \in Types, n \in Names :
        (IF a.id[t][n] >= 0 THEN a.id[t][n] ELSE DefaultId(a.type, t, n))
          = a.id[t][n]
  BY <1>1, DefaultsAssumption, TypesFact DEF KeepsDefaults, Has
<1>4. \A t \in Types : \A n \in Fields(b, t) :
        (CHOOSE k \in Fields(b, t) : P(n) = P(k)) = n
  BY <1>1, <1>2, NamesAssumption
<1>5. /\ e.name = name /\ e.type = a.type
      /\ \A t \in Types : e.size[t] = MergedSize(a, b, t)
      /\ \A t \in Types, m \in Names :
           e.id[t][m] =
             IF m \in New(t)
             THEN a.size[t] + Position(b, t, CHOOSE n \in Fields(b, t) :
                                               m = P(n))
             ELSE a.id[t][m]
  BY <1>3 DEF Merged, Clone
<1>6. \A t \in Types : \A n \in Fields(b, t) :
        e.id[t][P(n)] = a.size[t] + Position(b, t, n)
  BY <1>4, <1>5
<1>7. \A t \in Types, m \in Names : m \notin New(t) => e.id[t][m] = a.id[t][m]
  BY <1>5
<1>8. \A t, u \in Types : \A n \in Fields(b, t) : a.id[u][P(n)] = Undef
  BY TypesFact DEF MergeOk, HasField, GetFieldId, GetFieldType, Has
<1> HIDE DEF e
<1> QED
  BY <1>5, <1>6, <1>7, <1>8 DEF e

\* One type of CloneAndMerge: the merged names get the ids after size_, one
\* each, so ids stay distinct and below the new size_.
LEMMA MergedSound ==
  ASSUME NEW a, NEW b, WellFormed(a), WellFormed(b), MergeOk(a, b),
         NEW name \in BranchNames,
         \A t \in Types : \A n \in Fields(b, t) : Prefixed(b.name, n) \in Names
  PROVE  LET e == Merged(a, b, name)
         IN  /\ WellFormed(e)
             /\ SelfNumbered(a) => SelfNumbered(e)
             /\ HasMatchingCase(a, b) /\ "matching_case" \in Names
                  => ~HasField(e, "matching_case")
<1> DEFINE e == Merged(a, b, name)
           P(n) == Prefixed(b.name, n)
           New(t) == {P(n) : n \in Fields(b, t)}
<1>1. /\ a \in Config /\ OneTypePerName(a) /\ KeepsDefaults(a)
      /\ b \in Config /\ OneTypePerName(b) /\ KeepsDefaults(b)
  BY DEF WellFormed
<1>2. /\ a.name \in BranchNames /\ b.name \in BranchNames
      /\ a.type \in DetTypes
      /\ \A t \in Types : a.size[t] \in Nat
      /\ \A t \in Types, n \in Names : a.id[t][n] \in Int
  BY <1>1 DEF Config
<1>3. \A t \in Types : Fields(b, t) \subseteq Names
  BY DEF Fields
<1>6. \A t \in Types : \A n \in Fields(b, t) :
        /\ Position(b, t, n) \in Nat
        /\ Position(b, t, n) < Cardinality(Fields(b, t))
        /\ Cardinality(Fields(b, t)) \in Nat
  BY PositionBounds
<1>7. \A t \in Types : MergedSize(a, b, t) \in Nat
                       /\ MergedSize(a, b, t) >= a.size[t]
  <2> TAKE t \in Types
  <2>1. Cardinality(Fields(b, t)) \in Nat
    BY <1>3, NamesAssumption, FS_Subset, FS_CardinalityType
  <2> QED
    BY <1>2, <2>1 DEF MergedSize
<1>8. /\ e.name = name /\ e.type = a.type
      /\ \A t \in Types : e.size[t] = MergedSize(a, b, t)
  BY MergedIds
<1>9. \A t \in Types : \A n \in Fields(b, t) :
        /\ P(n) \in Names
        /\ e.id[t][P(n)] = a.size[t] + Position(b, t, n)
  BY MergedIds
<1>10. \A t \in Types : \A m \in Names \ New(t) : e.id[t][m] = a.id[t][m]
  <2> HIDE DEF e
  <2>1. \A t \in Types, m \in Names :
          (\A n \in Fields(b, t) : m # P(n)) => e.id[t][m] = a.id[t][m]
    BY MergedIds DEF e
  <2> QED
    BY <2>1
<1>11. \A t, u \in Types : \A n \in Fields(b, t) :
         /\ a.id[u][P(n)] = Undef
         /\ u # t => P(n) \notin New(u)
  <2> TAKE t, u \in Types
  <2> TAKE n \in Fields(b, t)
  <2>1. a.id[u][P(n)] = Undef
    BY MergedIds
  <2>2. ASSUME u # t, NEW k \in Fields(b, u), P(n) = P(k)
        PROVE  FALSE
    <3>1. n = k
      BY <1>2, <1>3, <2>2, NamesAssumption
    <3> QED
      BY <1>1, <1>3, <2>2, <3>1 DEF OneTypePerName, Fields
  <2> QED
    BY <2>1, <2>2
<1>12. e \in Config
  <2>1. \A t \in Types, m \in Names : e.id[t][m] \in Int
    BY <1>2, <1>6, <1>9, <1>10
  <2> DEFINE k == Clone(a, name, a.type)
             f == [t \in Types |-> [m \in Names |->
                     IF \E n \in Fields(b, t) : m = Prefixed(b.name, n)
                     THEN a.size[t]
                          + Position(b, t, CHOOSE n \in Fields(b, t) :
                                             m = Prefixed(b.name, n))
                     ELSE k.id[t][m]]]
             s == [t \in Types |-> MergedSize(a, b, t)]
  <2>2. e.id = f /\ e = [k EXCEPT !.id = f, !.size = s]
    BY DEF Merged, Clone
  <2>3. f \in [Types -> [Names -> Int]]
    <3> HIDE DEF e
    <3> QED
      BY <2>1, <2>2
  <2>4. s \in [Types -> Nat]
    BY <1>7
  <2>5. k \in Config
    BY <1>2, CloneSound DEF MergeOk, WellFormed
  <2> HIDE DEF f, s, k
  <2>6. [k EXCEPT !.id = f, !.size = s] \in Config
    BY <2>3, <2>4, <2>5, NewIdsAndSizes
  <2> HIDE DEF e
  <2> QED
    BY <2>2, <2>6
<1> HIDE DEF e, P
<1>13. OneTypePerName(e)
  <2> SUFFICES ASSUME NEW m \in Names, NEW t \in Types, NEW u \in Types,
                      Has(e, t, m), Has(e, u, m), t # u
               PROVE  FALSE
    BY DEF OneTypePerName
  <2>1. m \notin New(t) /\ m \notin New(u)
    BY <1>10, <1>11 DEF Has
  <2> QED
    BY <1>1, <1>10, <2>1 DEF OneTypePerName, Has
<1>14. KeepsDefaults(e)
  <2> SUFFICES ASSUME NEW t \in Types, NEW m \in Names
               PROVE  IF DefaultId(e.type, t, m) # Undef
                      THEN e.id[t][m] = DefaultId(e.type, t, m)
                      ELSE Has(e, t, m) => e.id[t][m] >= 0
    BY DEF KeepsDefaults
  <2>1. CASE m \in New(t)
    <3>1. a.id[t][m] = Undef /\ e.id[t][m] >= 0
      BY <1>2, <1>6, <1>9, <1>11, <2>1
    <3> QED
      BY <1>1, <1>8, <3>1 DEF KeepsDefaults
  <2>2. CASE m \notin New(t)
    BY <1>1, <1>8, <1>10, <2>2 DEF KeepsDefaults, Has
  <2> QED
    BY <2>1, <2>2
<1>15. SelfNumbered(a) => HasSlots(e)
  <2> SUFFICES ASSUME HasSlots(a), NEW t \in Types, NEW m \in UserFields(e, t)
               PROVE  e.id[t][m] < e.size[t]
    BY DEF SelfNumbered, HasSlots
  <2>1. CASE m \in New(t)
    BY <1>2, <1>6, <1>8, <1>9, <2>1 DEF MergedSize
  <2>2. CASE m \notin New(t)
    <3>1. m \in UserFields(a, t) /\ e.id[t][m] = a.id[t][m]
      BY <1>10, <2>2 DEF UserFields
    <3>2. a.id[t][m] < a.size[t]
      BY <3>1 DEF HasSlots
    <3> QED
      BY <1>2, <1>7, <1>8, <3>1, <3>2 DEF UserFields
  <2> QED
    BY <2>1, <2>2
<1>16. SelfNumbered(a) => DistinctIds(e)
  <2> SUFFICES ASSUME DistinctIds(a), HasSlots(a), NEW t \in Types,
                      NEW m \in Fields(e, t), NEW k \in Fields(e, t),
                      e.id[t][m] = e.id[t][k]
               PROVE  m = k
    BY DEF SelfNumbered, DistinctIds
  <2>1. m \in Names /\ k \in Names
    BY DEF Fields
  <2>2. \A x \in Fields(e, t) : x \notin New(t) =>
          x \in Fields(a, t) /\ e.id[t][x] = a.id[t][x] /\ a.id[t][x] < a.size[t]
    <3> SUFFICES ASSUME NEW x \in Fields(e, t), x \notin New(t)
                 PROVE  x \in Fields(a, t) /\ e.id[t][x] = a.id[t][x]
                        /\ a.id[t][x] < a.size[t]
      OBVIOUS
    <3>1. x \in Fields(a, t) /\ e.id[t][x] = a.id[t][x]
      BY <1>10 DEF Fields, Has
    <3> QED
      BY <1>2, <3>1 DEF HasSlots, UserFields, Fields
  <2>3. \A x \in New(t) : e.id[t][x] >= a.size[t]
    BY <1>2, <1>6, <1>9
  <2>4. CASE m \in New(t) /\ k \in New(t)
    <3>1. PICK i \in Fields(b, t), j \in Fields(b, t) : m = P(i) /\ k = P(j)
      BY <2>4
    <3>2. Position(b, t, i) = Position(b, t, j)
      BY <1>2, <1>6, <1>9, <3>1
    <3> QED
      BY <3>1, <3>2, PositionInjective
  <2>5. CASE m \notin New(t) /\ k \notin New(t)
    BY <2>2, <2>5 DEF DistinctIds
  <2>6. CASE m \in New(t) /\ k \notin New(t)
    BY <1>2, <2>1, <2>2, <2>3, <2>6
  <2>7. CASE m \notin New(t) /\ k \in New(t)
    BY <1>2, <2>1, <2>2, <2>3, <2>7
  <2> QED
    BY <2>4, <2>5, <2>6, <2>7
<1>17. ASSUME HasMatchingCase(a, b), "matching_case" \in Names
       PROVE  ~HasField(e, "matching_case")
  <2>1. \A t \in Types : "matching_case" \notin New(t)
    BY <1>17 DEF MergeOk, P
  <2>2. \A t \in Types : e.id[t]["matching_case"] = Undef
    BY <1>10, <1>17, <2>1, TypesFact
    DEF MergeOk, HasField, GetFieldId, GetFieldType, Has
  <2> QED
    BY <2>2, TypesFact DEF HasField, GetFieldId, GetFieldType, Has
<1> QED
  BY <1>12, <1>13, <1>14, <1>15, <1>16, <1>17 DEF WellFormed, SelfNumbered, e

\* CloneAndMerge of two sound objects is sound.
LEMMA CloneAndMergeSound ==
  ASSUME NEW a, NEW b, WellFormed(a), WellFormed(b), MergeOk(a, b),
         NEW name \in BranchNames, "matching_case" \in Names,
         \A t \in Types : \A n \in Fields(b, t) : Prefixed(b.name, n) \in Names
  PROVE  /\ WellFormed(CloneAndMerge(a, b, name))
         /\ SelfNumbered(a) => SelfNumbered(CloneAndMerge(a, b, name))
<1> DEFINE e == Merged(a, b, name)
<1>1. /\ WellFormed(e)
      /\ SelfNumbered(a) => SelfNumbered(e)
      /\ HasMatchingCase(a, b) => ~HasField(e, "matching_case")
  BY MergedSound
<1> HIDE DEF e
<1>2. CASE HasMatchingCase(a, b)
  <2>1. /\ WellFormed(AddField(e, "int", "matching_case"))
        /\ SelfNumbered(e) => SelfNumbered(AddField(e, "int", "matching_case"))
    BY <1>1, <1>2, AddFieldSound, TypesFact
  <2> QED
    BY <1>1, <1>2, <2>1 DEF CloneAndMerge, e
<1>3. CASE ~HasMatchingCase(a, b)
  BY <1>1, <1>3 DEF CloneAndMerge, e
<1> QED
  BY <1>2, <1>3

\* Where two names first occur in the list of them.
LEMMA FirstOfTwo ==
  ASSUME NEW n, NEW m
  PROVE  LET ns == <<n, m>>
         IN  /\ FirstAt(ns, n) = 1
             /\ n # m => FirstAt(ns, m) = 2
             /\ \A k : (\E i \in 1 .. Len(ns) : ns[i] = k) <=> k \in {n, m}
             /\ Len(ns) = 2
<1> DEFINE ns == <<n, m>>
<1>1. Len(ns) = 2 /\ ns[1] = n /\ ns[2] = m /\ 1 .. Len(ns) = {1, 2}
  OBVIOUS
<1>2. \A i \in {1, 2} : ns[i] = n /\ (\A j \in {1, 2} : ns[j] = n => i <= j)
        <=> i = 1
  BY <1>1
<1>3. n # m => \A i \in {1, 2} :
        ns[i] = m /\ (\A j \in {1, 2} : ns[j] = m => i <= j) <=> i = 2
  BY <1>1
<1>4. FirstAt(ns, n) = 1
  BY <1>1, <1>2 DEF FirstAt
<1>5. n # m => FirstAt(ns, m) = 2
  BY <1>1, <1>3 DEF FirstAt
<1> QED
  BY <1>1, <1>4, <1>5

\* The ids after AddFields of two names.
LEMMA AddTwoIds ==
  ASSUME NEW c \in Config, NEW t \in Types, NEW n \in Names, NEW m \in Names
  PROVE  LET e == AddFields(c, t, <<n, m>>)
         IN  /\ e.type = c.type
             /\ \A u \in Types :
                  e.size[u] = IF u = t THEN c.size[t] + 2 ELSE c.size[u]
             /\ \A u \in Types, k \in Names :
                  e.id[u][k] = IF u # t \/ k \notin {n, m} THEN c.id[u][k]
                               ELSE IF k = n THEN c.size[t] ELSE c.size[t] + 1
<1> DEFINE ns == <<n, m>>
           e == AddFields(c, t, ns)
<1>1. c.size[t] \in Nat
  BY DEF Config
<1>2. /\ e.type = c.type
      /\ \A u \in Types : e.size[u] = IF u = t THEN c.size[t] + Len(ns)
                                      ELSE c.size[u]
      /\ \A u \in Types, k \in Names :
           e.id[u][k] = IF u = t /\ \E i \in 1 .. Len(ns) : ns[i] = k
                        THEN c.size[t] + FirstAt(ns, k) - 1 ELSE c.id[u][k]
  BY DEF AddFields, Config
<1>3. /\ FirstAt(ns, n) = 1 /\ (n # m => FirstAt(ns, m) = 2)
      /\ \A k : (\E i \in 1 .. Len(ns) : ns[i] = k) <=> k \in {n, m}
      /\ Len(ns) = 2
  BY FirstOfTwo
<1> HIDE DEF e, ns
<1>4. /\ \A u \in Types : e.size[u] = IF u = t THEN c.size[t] + 2 ELSE c.size[u]
      /\ \A u \in Types, k \in Names :
           e.id[u][k] = IF u # t \/ k \notin {n, m} THEN c.id[u][k]
                        ELSE IF k = n THEN c.size[t] ELSE c.size[t] + 1
  BY <1>1, <1>2, <1>3
<1> QED
  BY <1>2, <1>4 DEF e, ns

\* A list of two names, the second of which may repeat the first.
LEMMA AddTwoFieldsSound ==
  ASSUME NEW c, WellFormed(c), NEW t \in Types, NEW n \in Names, NEW m \in Names,
         AddFieldsOk(c, <<n, m>>)
  PROVE  /\ WellFormed(AddFields(c, t, <<n, m>>))
         /\ SelfNumbered(c) => SelfNumbered(AddFields(c, t, <<n, m>>))
<1> DEFINE ns == <<n, m>>
           e == AddFields(c, t, ns)
<1>1. c \in Config /\ OneTypePerName(c) /\ KeepsDefaults(c)
  BY DEF WellFormed
<1>2. /\ c.size[t] \in Nat
      /\ \A u \in Types, k \in Names : c.id[u][k] \in Int
  BY <1>1 DEF Config
<1>3. \A u \in Types : c.id[u][n] = Undef /\ c.id[u][m] = Undef
  <2>1. ~HasField(c, n) /\ ~HasField(c, m)
    BY DEF AddFieldsOk
  <2> QED
    BY <2>1, TypesFact DEF HasField, GetFieldId, GetFieldType, Has
<1>4. /\ FirstAt(ns, n) = 1
      /\ n # m => FirstAt(ns, m) = 2
      /\ \A k : (\E i \in 1 .. Len(ns) : ns[i] = k) <=> k \in {n, m}
      /\ Len(ns) = 2
  BY FirstOfTwo
<1>5. e \in Config
  <2> DEFINE g == [k \in Names |->
                     IF \E i \in 1 .. Len(ns) : ns[i] = k
                     THEN c.size[t] + FirstAt(ns, k) - 1 ELSE c.id[t][k]]
             f == [c.id EXCEPT ![t] = g]
             s == [c.size EXCEPT ![t] = @ + Len(ns)]
  <2>1. e = [c EXCEPT !.id = f, !.size = s]
    BY <1>1 DEF AddFields, Config
  <2> HIDE DEF e, ns
  <2>2. g \in [Names -> Int]
    BY <1>2, <1>4
  <2>3. f \in [Types -> [Names -> Int]] /\ s \in [Types -> Nat]
    BY <1>1, <1>4, <2>2 DEF Config
  <2> HIDE DEF f, s
  <2>4. [c EXCEPT !.id = f, !.size = s] \in Config
    BY <1>1, <2>3, NewIdsAndSizes
  <2> QED
    BY <2>1, <2>4
<1>6. e.type = c.type
  BY <1>1, AddTwoIds
<1>7. /\ \A u \in Types : e.size[u] = IF u = t THEN c.size[t] + 2 ELSE c.size[u]
      /\ \A u \in Types, k \in Names :
           e.id[u][k] = IF u # t \/ k \notin {n, m} THEN c.id[u][k]
                        ELSE IF k = n THEN c.size[t] ELSE c.size[t] + 1
  BY <1>1, AddTwoIds
<1> HIDE DEF e, ns
<1>8. OneTypePerName(e)
  BY <1>1, <1>3, <1>7 DEF OneTypePerName, Has
<1>9. KeepsDefaults(e)
  <2>1. \A u \in Types : /\ DefaultId(c.type, u, n) = Undef
                         /\ DefaultId(c.type, u, m) = Undef
    BY <1>1, <1>3 DEF KeepsDefaults
  <2>2. \A u \in Types, k \in Names \ {n, m} : e.id[u][k] = c.id[u][k]
    BY <1>7
  <2>3. \A u \in Types, k \in {n, m} : Has(e, u, k) => e.id[u][k] >= 0
    BY <1>2, <1>3, <1>7 DEF Has
  <2> QED
    BY <1>1, <1>6, <2>1, <2>2, <2>3 DEF KeepsDefaults, Has
<1>10. SelfNumbered(c) => HasSlots(e)
  BY <1>1, <1>2, <1>7 DEF SelfNumbered, HasSlots, UserFields, Config
<1>11. SelfNumbered(c) => DistinctIds(e)
  BY <1>1, <1>2, <1>7, TypesFact
  DEF SelfNumbered, HasSlots, UserFields, DistinctIds, Fields, Has
<1> QED
  BY <1>5, <1>8, <1>9, <1>10, <1>11 DEF WellFormed, SelfNumbered, e, ns

-----------------------------------------------------------------------------
(***************************************************************************)
(* The rows of slots                                                       *)
(***************************************************************************)
\* The row of a type has size_ slots, each with the field of its id or free.
LEMMA RowFacts ==
  ASSUME NEW c \in Config, NEW t \in Types
  PROVE  /\ RowsOf(c)[t] \in Seq(Names \cup {NoConfig})
         /\ Len(RowsOf(c)[t]) = c.size[t] /\ c.size[t] \in Nat
         /\ \A i \in 1 .. c.size[t] :
              /\ RowsOf(c)[t][i] # NoConfig =>
                   /\ RowsOf(c)[t][i] \in Names
                   /\ c.id[t][RowsOf(c)[t][i]] = i - 1
              /\ RowsOf(c)[t][i] = NoConfig =>
                   \A n \in Names : c.id[t][n] # i - 1
<1> DEFINE Here(i) == \E n \in Names : c.id[t][n] = i - 1
           at(i) == CHOOSE n \in Names : c.id[t][n] = i - 1
           row == [i \in 1 .. c.size[t] |-> IF Here(i) THEN at(i) ELSE NoConfig]
<1>1. RowsOf(c)[t] = row
  BY DEF RowsOf
<1>2. c.size[t] \in Nat
  BY DEF Config
<1>3. \A i \in 1 .. c.size[t] : Here(i) => at(i) \in Names /\ c.id[t][at(i)] = i - 1
  OBVIOUS
<1>4. \A i \in 1 .. c.size[t] : ~Here(i) => \A n \in Names : c.id[t][n] # i - 1
  OBVIOUS
<1> HIDE DEF Here, at
<1>5. \A i \in 1 .. c.size[t] : row[i] = IF Here(i) THEN at(i) ELSE NoConfig
  OBVIOUS
<1>6. row \in Seq(Names \cup {NoConfig}) /\ Len(row) = c.size[t]
  BY <1>2, <1>3
<1> HIDE DEF row
<1> QED
  BY <1>1, <1>2, <1>3, <1>4, <1>5, <1>6, HandlesAssumption

\* A field whose id is in the row is found there, where ids are distinct.
LEMMA RowHolds ==
  ASSUME NEW c \in Config, DistinctIds(c), NEW t \in Types, NEW n \in Names,
         NEW i \in 1 .. c.size[t], c.id[t][n] = i - 1
  PROVE  RowsOf(c)[t][i] = n
<1>1. c.size[t] \in Nat
  BY RowFacts
<1>2. RowsOf(c)[t][i] \in Names /\ c.id[t][RowsOf(c)[t][i]] = i - 1
  BY RowFacts
<1>3. i - 1 # Undef
  BY <1>1, TypesFact
<1> QED
  BY <1>2, <1>3 DEF DistinctIds, Fields, Has

\* What makes a sequence of names and free slots the row of a type.
LEMMA RowIs ==
  ASSUME NEW c \in Config, DistinctIds(c), NEW t \in Types,
         NEW s \in Seq(Names \cup {NoConfig}), Len(s) = c.size[t],
         \A i \in 1 .. Len(s) :
           IF s[i] = NoConfig THEN \A n \in Names : c.id[t][n] # i - 1
           ELSE c.id[t][s[i]] = i - 1
  PROVE  RowsOf(c)[t] = s
<1> DEFINE row == RowsOf(c)[t]
<1>1. /\ row \in Seq(Names \cup {NoConfig})
      /\ Len(row) = c.size[t] /\ c.size[t] \in Nat
  BY RowFacts
<1>2. ASSUME NEW i \in 1 .. c.size[t]
      PROVE  row[i] = s[i]
  <2>1. CASE s[i] = NoConfig
    <3>1. \A n \in Names : c.id[t][n] # i - 1
      BY <2>1
    <3> QED
      BY <2>1, <3>1, RowFacts
  <2>2. CASE s[i] # NoConfig
    <3>1. s[i] \in Names /\ c.id[t][s[i]] = i - 1
      BY <1>1, <2>2
    <3> QED
      BY <3>1, RowHolds
  <2> QED
    BY <2>1, <2>2
<1> HIDE DEF row
<1>3. row = s
  BY <1>1, <1>2, SeqEqual
<1> QED
  BY <1>3 DEF row

\* Two objects with the same user fields in a type have the same row there.
LEMMA SameRow ==
  ASSUME NEW c \in Config, NEW e \in Config, DistinctIds(e), NEW t \in Types,
         e.size[t] = c.size[t],
         \A n \in Names : c.id[t][n] >= 0 \/ e.id[t][n] >= 0 =>
                            e.id[t][n] = c.id[t][n]
  PROVE  RowsOf(e)[t] = RowsOf(c)[t]
<1>1. /\ RowsOf(c)[t] \in Seq(Names \cup {NoConfig})
      /\ Len(RowsOf(c)[t]) = c.size[t] /\ c.size[t] \in Nat
  BY RowFacts
<1>2. \A n \in Names : c.id[t][n] \in Int /\ e.id[t][n] \in Int
  BY DEF Config
<1>3. ASSUME NEW i \in 1 .. c.size[t]
      PROVE  IF RowsOf(c)[t][i] = NoConfig
             THEN \A n \in Names : e.id[t][n] # i - 1
             ELSE e.id[t][RowsOf(c)[t][i]] = i - 1
  <2>1. i - 1 >= 0
    BY <1>1
  <2>2. RowsOf(c)[t][i] # NoConfig =>
          /\ RowsOf(c)[t][i] \in Names
          /\ c.id[t][RowsOf(c)[t][i]] = i - 1
    BY RowFacts
  <2>3. RowsOf(c)[t][i] = NoConfig => \A n \in Names : c.id[t][n] # i - 1
    BY RowFacts
  <2> QED
    BY <1>2, <2>1, <2>2, <2>3
<1> QED
  BY <1>1, <1>3, RowIs

\* Rows are tables, and no table is the absent object.
LEMMA RowsAreTables ==
  ASSUME NEW c \in Config
  PROVE  /\ RowsOf(c) \in [Types -> Seq(Names \cup {NoConfig})]
         /\ RowsOf(c) # NoConfig
<1>1. RowsOf(c) = [t \in Types |-> RowsOf(c)[t]]
  BY DEF RowsOf
<1>2. \A t \in Types : RowsOf(c)[t] \in Seq(Names \cup {NoConfig})
  BY RowFacts
<1>3. RowsOf(c) \in [Types -> Seq(Names \cup {NoConfig})]
  BY <1>1, <1>2
<1> QED
  BY <1>3, HandlesAssumption

\* Object e has the slots of c in a type, with the same fields, and after them
\* slots of fields that c does not have in any type.
Continues(c, e, t) ==
  /\ c.size[t] <= e.size[t]
  /\ \A n \in Names : c.id[t][n] >= 0 => e.id[t][n] = c.id[t][n]
  /\ \A n \in Names : e.id[t][n] >= 0 =>
       \/ e.id[t][n] = c.id[t][n]
       \/ e.id[t][n] >= c.size[t] /\ \A u \in Types : c.id[u][n] < 0

\* Then the row of e is that of c, grown at its end.
LEMMA RowGrows ==
  ASSUME NEW c \in Config, SelfNumbered(c), NEW e \in Config, SelfNumbered(e),
         OneTypePerName(e), NEW t \in Types, Continues(c, e, t)
  PROVE  Layout!GrowsAtEnd(RowsOf(c), RowsOf(e), t)
<1> DEFINE s == RowsOf(c)[t]
           r == RowsOf(e)[t]
<1>1. /\ s \in Seq(Names \cup {NoConfig}) /\ r \in Seq(Names \cup {NoConfig})
      /\ Len(s) = c.size[t] /\ Len(r) = e.size[t]
      /\ c.size[t] \in Nat /\ e.size[t] \in Nat /\ c.size[t] <= e.size[t]
  BY RowFacts DEF Continues
<1>2. \A u \in Types, n \in Names : c.id[u][n] \in Int /\ e.id[u][n] \in Int
  BY DEF Config
<1>3. \A n \in Names : c.id[t][n] >= 0 => c.id[t][n] < c.size[t]
  BY DEF SelfNumbered, HasSlots, UserFields
<1>4. ASSUME NEW i \in 1 .. Len(s)
      PROVE  r[i] = s[i]
  <2>1. i \in 1 .. c.size[t] /\ i \in 1 .. e.size[t] /\ i - 1 >= 0 /\ i - 1 < c.size[t]
    BY <1>1
  <2>2. CASE s[i] = NoConfig
    <3>1. \A n \in Names : c.id[t][n] # i - 1
      BY <2>1, <2>2, RowFacts
    <3>2. \A n \in Names : e.id[t][n] # i - 1
      BY <1>1, <1>2, <2>1, <3>1 DEF Continues
    <3>3. r[i] # NoConfig => r[i] \in Names /\ e.id[t][r[i]] = i - 1
      BY <2>1, RowFacts
    <3> QED
      BY <2>2, <3>2, <3>3
  <2>3. CASE s[i] # NoConfig
    <3>1. s[i] \in Names /\ c.id[t][s[i]] = i - 1
      BY <2>1, <2>3, RowFacts
    <3>2. e.id[t][s[i]] = i - 1
      BY <2>1, <3>1 DEF Continues
    <3> QED
      BY <2>1, <3>1, <3>2, RowHolds DEF SelfNumbered
  <2> QED
    BY <2>2, <2>3
<1>5. Layout!IsPrefix(s, r)
  <2> HIDE DEF s, r
  <2>1. SubSeq(s, 1, Len(s)) = s
    BY <1>1, SubSeqFull
  <2>2. \A i \in 1 .. Len(s) : r[i] \in Names \cup {NoConfig}
    BY <1>1
  <2>3. /\ SubSeq(r, 1, Len(s)) \in Seq(Names \cup {NoConfig})
        /\ Len(SubSeq(r, 1, Len(s))) = Len(s)
        /\ \A i \in 1 .. Len(s) : SubSeq(r, 1, Len(s))[i] = r[i]
    BY <1>1, <2>2, SubSeqProperties
  <2>4. SubSeq(r, 1, Len(s)) = s
    BY <1>1, <1>4, <2>3, SeqEqual
  <2> QED
    BY <1>1, <2>1, <2>4 DEF Layout!IsPrefix
<1>6. ASSUME NEW i \in Len(s) + 1 .. Len(r), r[i] # NoConfig
      PROVE  /\ ~Layout!Holds(RowsOf(c), r[i])
             /\ \A u \in Types : \A j \in DOMAIN RowsOf(e)[u] :
                  RowsOf(e)[u][j] = r[i] => u = t /\ j = i
  <2>1. i \in 1 .. e.size[t] /\ i - 1 >= c.size[t] /\ i - 1 >= 0 /\ i \in Int
    BY <1>1
  <2>2. r[i] \in Names /\ e.id[t][r[i]] = i - 1
    BY <1>6, <2>1, RowFacts
  <2>3. \A u \in Types : c.id[u][r[i]] < 0
    <3> DEFINE n == r[i]
    <3>1. n \in Names /\ e.id[t][n] >= 0 /\ e.id[t][n] >= c.size[t]
      BY <2>1, <2>2
    <3> HIDE DEF n
    <3>2. e.id[t][n] # c.id[t][n]
      BY <1>1, <1>2, <1>3, <3>1
    <3>3. \A u \in Types : c.id[u][n] < 0
      BY <3>1, <3>2 DEF Continues
    <3> QED
      BY <3>3 DEF n
  <2>4. ASSUME NEW u \in Types, NEW j \in 1 .. Len(RowsOf(c)[u]), RowsOf(c)[u][j] = r[i]
        PROVE  FALSE
    <3>1. j \in 1 .. c.size[u] /\ j - 1 >= 0
      BY RowFacts
    <3>2. c.id[u][r[i]] = j - 1
      BY <1>6, <2>4, <3>1, RowFacts
    <3> QED
      BY <2>3, <3>1, <3>2
  <2>5. ASSUME NEW u \in Types, NEW j \in DOMAIN RowsOf(e)[u], RowsOf(e)[u][j] = r[i]
        PROVE  u = t /\ j = i
    <3>1. DOMAIN RowsOf(e)[u] = 1 .. e.size[u]
      BY RowFacts, LenProperties
    <3>2. j \in 1 .. e.size[u] /\ j - 1 >= 0 /\ j \in Int
      BY <3>1
    <3>3. e.id[u][r[i]] = j - 1
      BY <1>6, <2>5, <3>2, RowFacts
    <3>4. Has(e, u, r[i]) /\ Has(e, t, r[i])
      BY <2>1, <2>2, <3>2, <3>3, TypesFact DEF Has
    <3>5. u = t
      BY <2>2, <3>4 DEF OneTypePerName
    <3> QED
      BY <2>1, <2>2, <3>2, <3>3, <3>5
  <2> QED
    BY <2>4, <2>5 DEF Layout!Holds, Layout!Contains
<1> QED
  BY <1>5, <1>6 DEF Layout!GrowsAtEnd

\* A new object has no slots.
LEMMA NewConfigLayout ==
  ASSUME NEW b \in BranchNames, NEW d \in DetTypes
  PROVE  RowsOf(NewConfig(b, d)) = Layout!EmptyRows
<1> DEFINE c == NewConfig(b, d)
<1>1. c \in Config
  BY NewConfigSound DEF WellFormed
<1>2. \A t \in Types : c.size[t] = 0
  BY DEF NewConfig
<1> HIDE DEF c
<1>3. ASSUME NEW t \in Types
      PROVE  RowsOf(c)[t] = <<>>
  <2>1. RowsOf(c)[t] \in Seq(Names \cup {NoConfig}) /\ Len(RowsOf(c)[t]) = 0
    BY <1>1, <1>2, RowFacts
  <2> QED
    BY <2>1, EmptySeq
<1>4. RowsOf(c) = [t \in Types |-> RowsOf(c)[t]]
  BY DEF RowsOf
<1>5. RowsOf(c) = [t \in Types |-> <<>>]
  BY <1>3, <1>4
<1> QED
  BY <1>5 DEF Layout!EmptyRows, c

\* AddField appends the slot of its field.
LEMMA AddFieldLayout ==
  ASSUME NEW c, WellFormed(c), SelfNumbered(c), NEW t \in Types,
         NEW n \in Names, ~HasField(c, n)
  PROVE  Layout!Appends(RowsOf(c), RowsOf(AddField(c, t, n)))
<1> DEFINE e == AddField(c, t, n)
<1>1. c \in Config /\ WellFormed(e) /\ SelfNumbered(e) /\ e \in Config
  BY AddFieldSound DEF WellFormed
<1>2. /\ \A u \in Types, m \in Names :
           e.id[u][m] = IF u = t /\ m = n THEN c.size[t] ELSE c.id[u][m]
      /\ \A u \in Types : e.size[u] = IF u = t THEN c.size[t] + 1 ELSE c.size[u]
  BY <1>1, AddFieldIds
<1>3. \A u \in Types : c.id[u][n] = Undef
  BY TypesFact DEF HasField, GetFieldId, GetFieldType, Has
<1> HIDE DEF e
<1>4. /\ \A u \in Types : c.size[u] \in Nat
      /\ \A u \in Types, m \in Names : c.id[u][m] \in Int
  BY <1>1 DEF Config
<1>5. \A u \in Types \ {t} : RowsOf(e)[u] = RowsOf(c)[u]
  <2> TAKE u \in Types \ {t}
  <2>1. e.size[u] = c.size[u] /\ \A m \in Names : e.id[u][m] = c.id[u][m]
    BY <1>2
  <2> QED
    BY <1>1, <2>1, SameRow DEF SelfNumbered
<1>6. Layout!GrowsAtEnd(RowsOf(c), RowsOf(e), t)
  <2>1. Continues(c, e, t)
    BY <1>2, <1>3, <1>4, TypesFact DEF Continues
  <2> QED
    BY <1>1, <2>1, RowGrows DEF WellFormed
<1>7. /\ Len(RowsOf(c)[t]) = c.size[t] /\ Len(RowsOf(e)[t]) = c.size[t] + 1
      /\ c.size[t] \in Nat
  BY <1>1, <1>2, RowFacts
<1>8. RowsOf(e)[t][c.size[t] + 1] = n
  <2>1. c.size[t] + 1 \in 1 .. e.size[t] /\ e.id[t][n] = (c.size[t] + 1) - 1
    BY <1>2, <1>4
  <2> QED
    BY <1>1, <2>1, RowHolds DEF SelfNumbered
<1>9. n # NoConfig
  BY HandlesAssumption
<1> QED
  BY <1>5, <1>6, <1>7, <1>8, <1>9 DEF Layout!Appends, e

\* AddFields appends a slot for each of two names, of which the second is free
\* if it repeats the first.
LEMMA AddTwoFieldsLayout ==
  ASSUME NEW c, WellFormed(c), SelfNumbered(c), NEW t \in Types,
         NEW n \in Names, NEW m \in Names, AddFieldsOk(c, <<n, m>>)
  PROVE  Layout!Appends(RowsOf(c), RowsOf(AddFields(c, t, <<n, m>>)))
<1> DEFINE e == AddFields(c, t, <<n, m>>)
<1>1. c \in Config /\ WellFormed(e) /\ SelfNumbered(e) /\ e \in Config
  BY AddTwoFieldsSound DEF WellFormed
<1>2. /\ \A u \in Types : e.size[u] = IF u = t THEN c.size[t] + 2 ELSE c.size[u]
      /\ \A u \in Types, k \in Names :
           e.id[u][k] = IF u # t \/ k \notin {n, m} THEN c.id[u][k]
                        ELSE IF k = n THEN c.size[t] ELSE c.size[t] + 1
  BY <1>1, AddTwoIds
<1>3. \A u \in Types : c.id[u][n] = Undef /\ c.id[u][m] = Undef
  <2>1. ~HasField(c, n) /\ ~HasField(c, m)
    BY DEF AddFieldsOk
  <2> QED
    BY <2>1, TypesFact DEF HasField, GetFieldId, GetFieldType, Has
<1> HIDE DEF e
<1>4. /\ \A u \in Types : c.size[u] \in Nat
      /\ \A u \in Types, k \in Names : c.id[u][k] \in Int
  BY <1>1 DEF Config
<1>5. \A u \in Types \ {t} : RowsOf(e)[u] = RowsOf(c)[u]
  <2> TAKE u \in Types \ {t}
  <2>1. e.size[u] = c.size[u] /\ \A k \in Names : e.id[u][k] = c.id[u][k]
    BY <1>2
  <2> QED
    BY <1>1, <2>1, SameRow DEF SelfNumbered
<1>6. Layout!GrowsAtEnd(RowsOf(c), RowsOf(e), t)
  <2>1. c.size[t] <= e.size[t]
    BY <1>2, <1>4
  <2>2. \A k \in Names : c.id[t][k] >= 0 => e.id[t][k] = c.id[t][k]
    BY <1>2, <1>3, TypesFact
  <2>3. \A k \in {n, m} : /\ e.id[t][k] >= c.size[t]
                          /\ \A u \in Types : c.id[u][k] < 0
    BY <1>2, <1>3, <1>4, TypesFact
  <2>4. \A k \in Names \ {n, m} : e.id[t][k] = c.id[t][k]
    BY <1>2
  <2>5. Continues(c, e, t)
    BY <2>1, <2>2, <2>3, <2>4 DEF Continues
  <2> QED
    BY <1>1, <2>5, RowGrows DEF WellFormed
<1>7. /\ Len(RowsOf(c)[t]) = c.size[t] /\ Len(RowsOf(e)[t]) = c.size[t] + 2
      /\ c.size[t] \in Nat
  BY <1>1, <1>2, RowFacts
<1>8. RowsOf(e)[t][c.size[t] + 1] = n
  <2>1. c.size[t] + 1 \in 1 .. e.size[t] /\ e.id[t][n] = (c.size[t] + 1) - 1
    BY <1>2, <1>4
  <2> QED
    BY <1>1, <2>1, RowHolds DEF SelfNumbered
<1>9. n # NoConfig
  BY HandlesAssumption
<1>10. Len(RowsOf(e)[t]) - Len(RowsOf(c)[t]) \in 1 .. 2
  BY <1>7
<1> QED
  BY <1>5, <1>6, <1>7, <1>8, <1>9, <1>10 DEF Layout!Appends, e

\* Closing a gap moves the later slots down.
LEMMA CloseGapSlots ==
  ASSUME NEW S, NoConfig \in S, NEW s \in Seq(S), NEW i \in 1 .. Len(s)
  PROVE  /\ Layout!CloseGap(s, i) \in Seq(S)
         /\ Len(Layout!CloseGap(s, i)) = Len(s)
         /\ \A j \in 1 .. Len(s) :
              Layout!CloseGap(s, i)[j] =
                IF j < i THEN s[j] ELSE IF j < Len(s) THEN s[j + 1] ELSE NoConfig
<1> DEFINE front == SubSeq(s, 1, i - 1)
           back == SubSeq(s, i + 1, Len(s))
<1>1. Len(s) \in Nat /\ i \in Int /\ \A j \in 1 .. Len(s) : s[j] \in S
  OBVIOUS
<1>2. /\ front \in Seq(S) /\ Len(front) = i - 1
      /\ \A j \in 1 .. i - 1 : front[j] = s[j]
  <2>1. \A j \in 1 .. i - 1 : s[j] \in S
    BY <1>1
  <2>2. /\ front \in Seq(S)
        /\ Len(front) = IF 1 <= i - 1 THEN i - 1 - 1 + 1 ELSE 0
        /\ \A j \in 1 .. i - 1 - 1 + 1 : front[j] = s[1 + j - 1]
    BY <1>1, <2>1, SubSeqProperties
  <2> HIDE DEF front
  <2> QED
    BY <1>1, <2>2
<1>3. /\ back \in Seq(S) /\ Len(back) = Len(s) - i
      /\ \A j \in 1 .. Len(s) - i : back[j] = s[i + j]
  <2>1. \A j \in i + 1 .. Len(s) : s[j] \in S
    BY <1>1
  <2>2. /\ back \in Seq(S)
        /\ Len(back) = IF i + 1 <= Len(s) THEN Len(s) - (i + 1) + 1 ELSE 0
        /\ \A j \in 1 .. Len(s) - (i + 1) + 1 : back[j] = s[(i + 1) + j - 1]
    BY <1>1, <2>1, SubSeqProperties
  <2> HIDE DEF back
  <2> QED
    BY <1>1, <2>2
<1>4. Layout!CloseGap(s, i) = Append(front \o back, NoConfig)
  BY DEF Layout!CloseGap, Layout!RemoveAt
<1> HIDE DEF front, back
<1> DEFINE r == front \o back
<1>5. /\ r \in Seq(S) /\ Len(r) = Len(s) - 1
      /\ \A j \in 1 .. Len(s) - 1 : r[j] = IF j < i THEN s[j] ELSE s[j + 1]
  <2>1. /\ r \in Seq(S) /\ Len(r) = Len(front) + Len(back)
        /\ \A j \in 1 .. Len(front) + Len(back) :
             r[j] = IF j <= Len(front) THEN front[j] ELSE back[j - Len(front)]
    BY <1>2, <1>3, ConcatProperties
  <2> HIDE DEF r
  <2>2. Len(r) = Len(s) - 1
    BY <1>1, <1>2, <1>3, <2>1
  <2>3. ASSUME NEW j \in 1 .. Len(s) - 1
        PROVE  r[j] = IF j < i THEN s[j] ELSE s[j + 1]
    <3>1. j \in 1 .. Len(front) + Len(back) /\ j \in Int
      BY <1>1, <1>2, <1>3
    <3>2. r[j] = IF j <= Len(front) THEN front[j] ELSE back[j - Len(front)]
      BY <2>1, <3>1
    <3>3. r[j] = IF j < i THEN front[j] ELSE back[j - (i - 1)]
      BY <1>1, <1>2, <3>1, <3>2
    <3>4. CASE j < i
      <4>1. j \in 1 .. i - 1
        BY <1>1, <3>1, <3>4
      <4> QED
        BY <1>2, <3>3, <3>4, <4>1
    <3>5. CASE ~ (j < i)
      <4>1. j - (i - 1) \in 1 .. Len(s) - i /\ i + (j - (i - 1)) = j + 1
        BY <1>1, <3>5
      <4>2. back[j - (i - 1)] = s[i + (j - (i - 1))]
        BY <1>3, <4>1
      <4> QED
        BY <3>3, <3>5, <4>1, <4>2
    <3> QED
      BY <3>4, <3>5
  <2> QED
    BY <2>1, <2>2, <2>3
<1> HIDE DEF r
<1>6. /\ Append(r, NoConfig) \in Seq(S)
      /\ Len(Append(r, NoConfig)) = Len(r) + 1
      /\ \A j \in 1 .. Len(r) + 1 :
           Append(r, NoConfig)[j] = IF j <= Len(r) THEN r[j] ELSE NoConfig
  BY <1>5, AppendProperties
<1>7. ASSUME NEW j \in 1 .. Len(s)
      PROVE  Append(r, NoConfig)[j] =
               IF j < i THEN s[j] ELSE IF j < Len(s) THEN s[j + 1] ELSE NoConfig
  <2>1. Append(r, NoConfig)[j] = IF j <= Len(s) - 1 THEN r[j] ELSE NoConfig
    BY <1>1, <1>5, <1>6
  <2>2. j <= Len(s) - 1 => r[j] = IF j < i THEN s[j] ELSE s[j + 1]
    BY <1>5
  <2> QED
    BY <1>1, <2>1, <2>2
<1> QED
  BY <1>1, <1>4, <1>5, <1>6, <1>7 DEF r

\* RemoveField closes the gap its field leaves.
LEMMA RemoveFieldLayout ==
  ASSUME NEW c, WellFormed(c), SelfNumbered(c), NEW n \in Names, RemoveFieldOk(c, n)
  PROVE  \E t \in Types : \E i \in DOMAIN RowsOf(c)[t] :
           /\ RowsOf(c)[t][i] # NoConfig
           /\ RowsOf(RemoveField(c, n)) =
                [RowsOf(c) EXCEPT ![t] = Layout!CloseGap(@, i)]
<1> DEFINE t == GetFieldType(c, n)
           i == c.id[t][n] + 1
           e == RemoveField(c, n)
           s == RowsOf(c)[t]
           gap == Layout!CloseGap(s, i)
<1>1. /\ c \in Config /\ WellFormed(e) /\ SelfNumbered(e) /\ e \in Config
      /\ DistinctIds(c) /\ DistinctIds(e)
  BY RemoveFieldSound DEF WellFormed, SelfNumbered
<1>2. /\ t \in Types /\ c.id[t][n] \in Nat /\ e.size = c.size
      /\ \A u \in Types, m \in Names :
           e.id[u][m] = IF u # t THEN c.id[u][m]
                        ELSE IF m = n THEN Undef
                        ELSE IF c.id[t][m] > i - 1 THEN c.id[t][m] - 1
                        ELSE c.id[t][m]
  <2>1. c.id[t][n] \in Nat => i - 1 = c.id[t][n]
    OBVIOUS
  <2> QED
    BY <1>1, <2>1, RemoveFieldIds
<1>3. /\ s \in Seq(Names \cup {NoConfig})
      /\ Len(s) = c.size[t] /\ c.size[t] \in Nat
  BY <1>1, <1>2, RowFacts
<1>4. i \in 1 .. c.size[t] /\ s[i] = n
  <2>1. c.id[t][n] < c.size[t]
    BY <1>2 DEF SelfNumbered, HasSlots, UserFields
  <2>2. i \in 1 .. c.size[t] /\ c.id[t][n] = i - 1
    BY <1>2, <1>3, <2>1
  <2> QED
    BY <1>1, <1>2, <2>2, RowHolds
<1>5. /\ gap \in Seq(Names \cup {NoConfig}) /\ Len(gap) = c.size[t]
      /\ \A j \in 1 .. c.size[t] :
           gap[j] = IF j < i THEN s[j]
                    ELSE IF j < c.size[t] THEN s[j + 1] ELSE NoConfig
  <2> HIDE DEF s, t, i
  <2> QED
    BY <1>3, <1>4, CloseGapSlots
<1>6. /\ \A m \in Names : c.id[t][m] \in Int /\ c.id[t][m] < c.size[t]
      /\ \A m \in Names : c.id[t][m] = i - 1 => m = n
  <2>1. \A m \in Names : c.id[t][m] \in Int
    BY <1>1, <1>2 DEF Config
  <2>2. \A m \in Names : c.id[t][m] >= 0 => c.id[t][m] < c.size[t]
    BY <1>2 DEF SelfNumbered, HasSlots, UserFields
  <2>3. i - 1 = c.id[t][n] /\ i - 1 >= 0
    BY <1>2
  <2>4. \A m \in Names : c.id[t][m] = i - 1 => m = n
    BY <1>1, <1>2, <2>3, TypesFact DEF DistinctIds, Fields, Has
  <2> QED
    BY <1>3, <2>1, <2>2, <2>4
<1>7. \A j \in 1 .. c.size[t] :
        /\ s[j] # NoConfig => s[j] \in Names /\ c.id[t][s[j]] = j - 1
        /\ s[j] = NoConfig => \A m \in Names : c.id[t][m] # j - 1
  BY <1>1, <1>2, RowFacts
<1> HIDE DEF e, t, i, s, gap
<1>8. ASSUME NEW j \in 1 .. c.size[t]
      PROVE  IF gap[j] = NoConfig THEN \A m \in Names : e.id[t][m] # j - 1
             ELSE e.id[t][gap[j]] = j - 1
  <2>1. \A m \in Names :
          e.id[t][m] = IF m = n THEN Undef
                       ELSE IF c.id[t][m] > i - 1 THEN c.id[t][m] - 1
                       ELSE c.id[t][m]
    BY <1>2
  <2>2. i \in Int /\ j \in Int /\ j - 1 # Undef
    BY <1>3, <1>4, TypesFact
  <2>3. CASE j < i
    <3>1. gap[j] = s[j]
      BY <1>5, <2>3
    <3> QED
      BY <1>4, <1>6, <1>7, <2>1, <2>2, <2>3, <3>1
  <2>4. CASE ~ (j < i) /\ j < c.size[t]
    <3>1. gap[j] = s[j + 1] /\ j + 1 \in 1 .. c.size[t]
      BY <1>3, <1>5, <2>4
    <3>2. /\ gap[j] # NoConfig => gap[j] \in Names /\ c.id[t][gap[j]] = j
          /\ gap[j] = NoConfig => \A m \in Names : c.id[t][m] # j
      BY <1>7, <2>2, <3>1
    <3>3. CASE gap[j] = NoConfig
      BY <1>6, <2>1, <2>2, <2>4, <3>2, <3>3
    <3>4. CASE gap[j] # NoConfig
      <4>1. gap[j] \in Names /\ c.id[t][gap[j]] = j /\ gap[j] # n
        BY <1>4, <1>7, <2>2, <2>4, <3>2, <3>4
      <4> QED
        BY <2>1, <2>2, <2>4, <3>4, <4>1
    <3> QED
      BY <3>3, <3>4
  <2>5. CASE j = c.size[t]
    <3>1. gap[j] = NoConfig
      BY <1>3, <1>4, <1>5, <2>5
    <3>2. \A m \in Names : e.id[t][m] # j - 1
      BY <1>3, <1>4, <1>6, <2>1, <2>2, <2>5
    <3> QED
      BY <3>1, <3>2
  <2> QED
    BY <1>3, <2>3, <2>4, <2>5
<1>9. RowsOf(e)[t] = gap
  <2>1. e.size[t] = c.size[t]
    BY <1>2
  <2> QED
    BY <1>1, <1>2, <1>5, <1>8, <2>1, RowIs
<1>10. \A u \in Types : u # t => RowsOf(e)[u] = RowsOf(c)[u]
  <2> SUFFICES ASSUME NEW u \in Types, u # t PROVE RowsOf(e)[u] = RowsOf(c)[u]
    OBVIOUS
  <2>1. e.size[u] = c.size[u] /\ \A m \in Names : e.id[u][m] = c.id[u][m]
    BY <1>2
  <2> QED
    BY <1>1, <2>1, SameRow
<1>11. RowsOf(e) = [RowsOf(c) EXCEPT ![t] = gap]
  <2>1. /\ RowsOf(e) \in [Types -> Seq(Names \cup {NoConfig})]
        /\ RowsOf(c) \in [Types -> Seq(Names \cup {NoConfig})]
    BY <1>1, RowsAreTables
  <2> QED
    BY <1>2, <1>9, <1>10, <2>1
<1>12. i \in DOMAIN s /\ s[i] # NoConfig
  BY <1>3, <1>4, HandlesAssumption
<1> QED
  BY <1>2, <1>11, <1>12 DEF e, gap, s

\* An object that continues another one in each type, and leaves no new slot
\* free, is a merged copy of it.
LEMMA RowsExtend ==
  ASSUME NEW c, WellFormed(c), SelfNumbered(c),
         NEW e, WellFormed(e), SelfNumbered(e),
         \A t \in Types : Continues(c, e, t),
         \A t \in Types, i \in Nat :
           c.size[t] <= i /\ i < e.size[t] => \E n \in Names : e.id[t][n] = i
  PROVE  Layout!Extends(RowsOf(c), RowsOf(e))
<1>1. c \in Config /\ e \in Config /\ OneTypePerName(e)
  BY DEF WellFormed
<1>2. ASSUME NEW t \in Types
      PROVE  Layout!GrowsAtEnd(RowsOf(c), RowsOf(e), t)
  BY <1>1, RowGrows
<1>3. ASSUME NEW t \in Types,
             NEW i \in Len(RowsOf(c)[t]) + 1 .. Len(RowsOf(e)[t])
      PROVE  RowsOf(e)[t][i] # NoConfig
  <2>1. /\ Len(RowsOf(c)[t]) = c.size[t] /\ Len(RowsOf(e)[t]) = e.size[t]
        /\ c.size[t] \in Nat /\ e.size[t] \in Nat
    BY <1>1, RowFacts
  <2>2. i - 1 \in Nat /\ c.size[t] <= i - 1 /\ i - 1 < e.size[t] /\ i \in 1 .. e.size[t]
    BY <2>1
  <2>3. \E n \in Names : e.id[t][n] = i - 1
    BY <2>2
  <2> QED
    BY <1>1, <2>2, <2>3, RowFacts
<1> QED
  BY <1>2, <1>3 DEF Layout!Extends

\* Clone takes the rows over as they are.
LEMMA CloneLayout ==
  ASSUME NEW c, WellFormed(c), SelfNumbered(c), NEW b \in BranchNames,
         NEW d \in DetTypes, CloneOk(c, d)
  PROVE  Layout!Extends(RowsOf(c), RowsOf(Clone(c, b, d)))
<1> DEFINE e == Clone(c, b, d)
<1>1. WellFormed(e) /\ SelfNumbered(e) /\ c \in Config
  BY CloneSound DEF WellFormed
<1>2. /\ e.size = c.size
      /\ \A t \in Types, n \in Names :
           e.id[t][n] = IF c.id[t][n] >= 0 THEN c.id[t][n] ELSE DefaultId(d, t, n)
  BY CloneIds
<1> HIDE DEF e
<1>3. /\ \A t \in Types : c.size[t] \in Nat
      /\ \A t \in Types, n \in Names : c.id[t][n] \in Int
  BY <1>1 DEF Config
<1>4. \A t \in Types : Continues(c, e, t)
  BY <1>2, <1>3, DefaultsAssumption DEF Continues
<1>5. \A t \in Types, i \in Nat : ~ (c.size[t] <= i /\ i < e.size[t])
  BY <1>2, <1>3
<1> QED
  BY <1>1, <1>4, <1>5, RowsExtend DEF e

\* Each number below the number of fields is the position of one of them.
LEMMA PositionOnto ==
  ASSUME NEW c, NEW t \in Types, NEW i \in 0 .. Cardinality(Fields(c, t)) - 1
  PROVE  \E n \in Fields(c, t) : Position(c, t, n) = i
<1> DEFINE S == Fields(c, t)
           T == 0 .. Cardinality(S) - 1
           f == [n \in S |-> Position(c, t, n)]
<1>1. IsFiniteSet(S) /\ Cardinality(S) \in Nat
  <2>1. S \subseteq Names
    BY DEF Fields
  <2> QED
    BY <2>1, NamesAssumption, FS_Subset, FS_CardinalityType
<1>2. IsFiniteSet(T) /\ Cardinality(T) = Cardinality(S)
  BY <1>1, FS_Interval
<1>3. f \in Injection(S, T)
  <2>1. \A n \in S : Position(c, t, n) \in T
    BY PositionBounds
  <2>2. \A m \in S, n \in S : Position(c, t, m) = Position(c, t, n) => m = n
    BY PositionInjective
  <2> HIDE DEF T, S
  <2> QED
    BY <2>1, <2>2 DEF Injection, IsInjective
<1> HIDE DEF T, S
<1>4. f \in Surjection(S, T)
  BY <1>1, <1>2, <1>3, FS_Injection
<1>5. \E n \in S : f[n] = i
  BY <1>4 DEF Surjection, T, S
<1> QED
  BY <1>5 DEF S

\* CloneAndMerge continues each row with the fields of the attached object.
LEMMA MergeLayout ==
  ASSUME NEW a, NEW b, WellFormed(a), SelfNumbered(a), WellFormed(b), MergeOk(a, b),
         NEW name \in BranchNames, "matching_case" \in Names,
         \A t \in Types : \A n \in Fields(b, t) : Prefixed(b.name, n) \in Names
  PROVE  Layout!Extends(RowsOf(a), RowsOf(CloneAndMerge(a, b, name)))
<1> DEFINE m == Merged(a, b, name)
           e == CloneAndMerge(a, b, name)
           P(n) == Prefixed(b.name, n)
<1>1. /\ WellFormed(m) /\ SelfNumbered(m) /\ WellFormed(e) /\ SelfNumbered(e)
      /\ m \in Config /\ a \in Config
      /\ HasMatchingCase(a, b) => ~HasField(m, "matching_case")
  BY MergedSound, CloneAndMergeSound DEF WellFormed
<1>2. /\ \A t \in Types : m.size[t] = MergedSize(a, b, t)
      /\ \A t \in Types : \A n \in Fields(b, t) :
           m.id[t][P(n)] = a.size[t] + Position(b, t, n)
      /\ \A t \in Types, k \in Names :
           (\A n \in Fields(b, t) : k # P(n)) => m.id[t][k] = a.id[t][k]
      /\ \A t, u \in Types : \A n \in Fields(b, t) : a.id[u][P(n)] = Undef
  BY MergedIds
<1>3. e = IF HasMatchingCase(a, b) THEN AddField(m, "int", "matching_case") ELSE m
  BY DEF CloneAndMerge
<1> HIDE DEF m, e, P
<1>4. /\ \A t \in Types : a.size[t] \in Nat /\ m.size[t] \in Nat
      /\ \A t \in Types, k \in Names : a.id[t][k] \in Int /\ m.id[t][k] \in Int
  BY <1>1 DEF Config
<1>5. \A t \in Types : \A n \in Fields(b, t) :
        /\ P(n) \in Names /\ m.id[t][P(n)] >= a.size[t]
        /\ \A u \in Types : a.id[u][P(n)] < 0
  <2> SUFFICES ASSUME NEW t \in Types, NEW n \in Fields(b, t)
               PROVE  /\ P(n) \in Names /\ m.id[t][P(n)] >= a.size[t]
                      /\ \A u \in Types : a.id[u][P(n)] < 0
    OBVIOUS
  <2>1. Position(b, t, n) \in Nat
    BY PositionBounds
  <2> QED
    BY <1>2, <1>4, <2>1, TypesFact DEF P
<1>6. \A t \in Types : a.size[t] <= m.size[t]
  <2> TAKE t \in Types
  <2>1. Fields(b, t) \subseteq Names
    BY DEF Fields
  <2>2. Cardinality(Fields(b, t)) \in Nat
    BY <2>1, NamesAssumption, FS_Subset, FS_CardinalityType
  <2> QED
    BY <1>2, <1>4, <2>2 DEF MergedSize
<1>7. \A t \in Types : Continues(a, m, t)
  <2> TAKE t \in Types
  <2>1. ASSUME NEW k \in Names
        PROVE  \/ m.id[t][k] = a.id[t][k]
               \/ m.id[t][k] >= a.size[t] /\ \A u \in Types : a.id[u][k] < 0
    <3>1. CASE \A n \in Fields(b, t) : k # P(n)
      BY <1>2, <3>1
    <3>2. CASE \E n \in Fields(b, t) : k = P(n)
      <4>1. PICK n \in Fields(b, t) : k = P(n)
        BY <3>2
      <4> QED
        BY <1>5, <4>1
    <3> QED
      BY <3>1, <3>2
  <2>2. \A k \in Names : a.id[t][k] \in Int /\ m.id[t][k] \in Int
    BY <1>4
  <2>3. \A k \in Names : a.id[t][k] >= 0 => m.id[t][k] = a.id[t][k]
    BY <2>1, <2>2
  <2> QED
    BY <1>6, <2>1, <2>3 DEF Continues
<1>8. \A t \in Types, i \in Nat :
        a.size[t] <= i /\ i < m.size[t] => \E k \in Names : m.id[t][k] = i
  <2> SUFFICES ASSUME NEW t \in Types, NEW i \in Nat, a.size[t] <= i, i < m.size[t]
               PROVE  \E k \in Names : m.id[t][k] = i
    OBVIOUS
  <2>1. Cardinality(Fields(b, t)) \in Nat
    BY NamesAssumption, FS_Subset, FS_CardinalityType DEF Fields
  <2>2. i - a.size[t] \in 0 .. Cardinality(Fields(b, t)) - 1
    BY <1>2, <1>4, <2>1 DEF MergedSize
  <2>3. PICK n \in Fields(b, t) : Position(b, t, n) = i - a.size[t]
    BY <2>2, PositionOnto
  <2>4. P(n) \in Names /\ m.id[t][P(n)] = i
    BY <1>2, <1>4, <1>5, <2>3
  <2> QED
    BY <2>4
<1>9. CASE ~HasMatchingCase(a, b)
  <2>1. e = m
    BY <1>3, <1>9
  <2> QED
    BY <1>1, <1>7, <1>8, <2>1, RowsExtend DEF e
<1>10. CASE HasMatchingCase(a, b)
  <2>1. \A u \in Types : m.id[u]["matching_case"] = Undef
    BY <1>1, <1>10, TypesFact DEF HasField, GetFieldId, GetFieldType, Has
  <2>2. \A u \in Types : a.id[u]["matching_case"] = Undef
    BY <1>10, TypesFact DEF MergeOk, HasField, GetFieldId, GetFieldType, Has
  <2>3. /\ \A u \in Types, k \in Names :
             e.id[u][k] = IF u = "int" /\ k = "matching_case" THEN m.size["int"]
                          ELSE m.id[u][k]
        /\ \A u \in Types :
             e.size[u] = IF u = "int" THEN m.size["int"] + 1 ELSE m.size[u]
    BY <1>1, <1>3, <1>10, AddFieldIds, TypesFact
  <2>4. ASSUME NEW t \in Types
        PROVE  Continues(a, e, t)
    <3>1. a.size[t] <= e.size[t]
      BY <1>4, <1>6, <2>3
    <3>2. ASSUME NEW k \in Names
          PROVE  /\ a.id[t][k] >= 0 => e.id[t][k] = a.id[t][k]
                 /\ e.id[t][k] >= 0 =>
                      \/ e.id[t][k] = a.id[t][k]
                      \/ e.id[t][k] >= a.size[t] /\ \A u \in Types : a.id[u][k] < 0
      <4>1. CASE t = "int" /\ k = "matching_case"
        <5>1. e.id[t][k] = m.size[t] /\ \A u \in Types : a.id[u][k] < 0
          BY <2>2, <2>3, <4>1, TypesFact
        <5> QED
          BY <1>4, <1>6, <5>1
      <4>2. CASE ~ (t = "int" /\ k = "matching_case")
        <5>1. e.id[t][k] = m.id[t][k]
          BY <2>3, <4>2
        <5> QED
          BY <1>7, <5>1 DEF Continues
      <4> QED
        BY <4>1, <4>2
    <3> QED
      BY <3>1, <3>2 DEF Continues
  <2>5. ASSUME NEW t \in Types, NEW i \in Nat, a.size[t] <= i, i < e.size[t]
        PROVE  \E k \in Names : e.id[t][k] = i
    <3>1. CASE i < m.size[t]
      <4>1. PICK k \in Names : m.id[t][k] = i
        BY <1>8, <2>5, <3>1
      <4>2. ~ (t = "int" /\ k = "matching_case")
        BY <2>1, <4>1, TypesFact
      <4> QED
        BY <2>3, <4>1, <4>2
    <3>2. CASE ~ (i < m.size[t])
      <4>1. t = "int" /\ i = m.size["int"]
        BY <1>4, <2>3, <2>5, <3>2
      <4> QED
        BY <2>3, <4>1, TypesFact
    <3> QED
      BY <3>1, <3>2
  <2> QED
    BY <1>1, <2>4, <2>5, RowsExtend DEF e
<1> QED
  BY <1>9, <1>10

-----------------------------------------------------------------------------
(***************************************************************************)
(* The inductive invariant.                                                *)
(***************************************************************************)
IInv ==
  /\ TypeOK
  /\ \A h \in Live : /\ WellFormed(cfg[h])
                     /\ h \notin chosen => SelfNumbered(cfg[h])

\* An operation that leaves a sound object in a handle preserves the invariant.
LEMMA ResultSound ==
  ASSUME IInv, NEW h \in Handles, NEW c, WellFormed(c),
         cfg' = [cfg EXCEPT ![h] = c],
         chosen' = chosen \cup {h} \/ chosen' = chosen \ {h},
         h \notin chosen' => SelfNumbered(c)
  PROVE  IInv'
<1>1. c \in Config /\ c # NoConfig
  BY HandlesAssumption DEF WellFormed
<1>2. TypeOK'
  BY <1>1 DEF IInv, TypeOK
<1>3. ASSUME NEW k \in Live'
      PROVE  WellFormed(cfg'[k]) /\ (k \notin chosen' => SelfNumbered(cfg'[k]))
  <2>1. CASE k = h
    BY <2>1 DEF IInv, TypeOK
  <2>2. CASE k # h
    <3>1. k \in Live /\ cfg'[k] = cfg[k] /\ (k \in chosen' <=> k \in chosen)
      BY <1>3, <2>2 DEF IInv, TypeOK, Live
    <3> QED
      BY <3>1 DEF IInv
  <2> QED
    BY <2>1, <2>2
<1> QED
  BY <1>2, <1>3 DEF IInv, WellFormed, SelfNumbered

\* The inductive invariant holds when no object exists.
LEMMA InitSound == Init => IInv
BY DEF Init, IInv, TypeOK, Live

\* Every call of the class keeps the inductive invariant, whatever the bounds.
LEMMA NextSound ==
  ASSUME IInv, [Next]_vars
  PROVE  IInv'
<1> USE HandlesAssumption
<1>1. CASE UNCHANGED vars
  BY <1>1 DEF vars, IInv, TypeOK, Live, WellFormed, SelfNumbered
<1>2. ASSUME NEW h \in Handles, Destroy(h)
      PROVE  IInv'
  <2>1. TypeOK'
    BY <1>2 DEF IInv, TypeOK, Destroy
  <2>2. ASSUME NEW k \in Live'
        PROVE  WellFormed(cfg'[k]) /\ (k \notin chosen' => SelfNumbered(cfg'[k]))
    <3>1. k # h /\ k \in Live /\ cfg'[k] = cfg[k]
          /\ (k \in chosen' <=> k \in chosen)
      BY <1>2, <2>2 DEF IInv, TypeOK, Destroy, Live
    <3> QED
      BY <3>1 DEF IInv
  <2> QED
    BY <2>1, <2>2 DEF IInv, WellFormed, SelfNumbered
<1>3. ASSUME NEW h \in Handles, NEW b \in BranchNames, NEW d \in DetTypes,
             Construct(h, b, d)
      PROVE  IInv'
  BY <1>3, NewConfigSound, ResultSound DEF Construct, Returns
<1>4. ASSUME NEW h \in Handles, NEW t \in Types, NEW n \in UserNames,
             AddAField(h, t, n)
      PROVE  IInv'
  <2>1. /\ WellFormed(AddField(cfg[h], t, n))
        /\ h \notin chosen => SelfNumbered(AddField(cfg[h], t, n))
    BY <1>4, AddFieldSound DEF AddAField, IInv
  <2> QED
    BY <1>4, <2>1, ResultSound DEF AddAField, Returns
<1>5. ASSUME NEW h \in Handles, NEW t \in Types, NEW n \in UserNames,
             NEW m \in UserNames, AddTwoFields(h, t, <<n, m>>)
      PROVE  IInv'
  <2>1. /\ WellFormed(AddFields(cfg[h], t, <<n, m>>))
        /\ h \notin chosen => SelfNumbered(AddFields(cfg[h], t, <<n, m>>))
    BY <1>5, AddTwoFieldsSound DEF AddTwoFields, IInv
  <2> QED
    BY <1>5, <2>1, ResultSound DEF AddTwoFields, Returns
<1>6. ASSUME NEW h \in Handles, NEW t \in Types, NEW n \in UserNames,
             NEW i \in CallerIds, AddAFieldWithId(h, t, n, i)
      PROVE  IInv'
  <2>1. WellFormed(AddFieldWithId(cfg[h], t, n, i))
    BY <1>6, AddFieldWithIdSound DEF AddAFieldWithId, IInv
  <2> QED
    BY <1>6, <2>1, ResultSound DEF AddAFieldWithId, Returns
<1>7. ASSUME NEW h \in Handles, NEW n \in UserNames, RemoveOne(h, n)
      PROVE  IInv'
  <2>1. /\ WellFormed(RemoveField(cfg[h], n))
        /\ h \notin chosen => SelfNumbered(RemoveField(cfg[h], n))
    BY <1>7, RemoveFieldSound DEF RemoveOne, IInv
  <2> QED
    BY <1>7, <2>1, ResultSound DEF RemoveOne, Returns
<1>8. ASSUME NEW h \in Handles, NEW n \in UserNames, NEW m \in UserNames,
             RemoveTwo(h, n, m)
      PROVE  IInv'
  <2> DEFINE once == RemoveField(cfg[h], n)
             end == IF RemoveFieldOk(once, m) THEN RemoveField(once, m)
                    ELSE once
  <2>1. /\ WellFormed(once)
        /\ h \notin chosen => SelfNumbered(once)
    BY <1>8, RemoveFieldSound DEF RemoveTwo, IInv
  <2> HIDE DEF once
  <2>2. RemoveFieldOk(once, m) =>
          /\ WellFormed(RemoveField(once, m))
          /\ h \notin chosen => SelfNumbered(RemoveField(once, m))
    BY <2>1, RemoveFieldSound
  <2>3. WellFormed(end) /\ (h \notin chosen => SelfNumbered(end))
    BY <2>1, <2>2
  <2>4. Returns(h, end, h \in chosen)
    BY <1>8 DEF RemoveTwo, once
  <2> QED
    BY <2>3, <2>4, ResultSound DEF Returns
<1>9. ASSUME NEW h \in Handles, NEW k \in Handles, NEW b \in BranchNames,
             NEW d \in DetTypes, CloneInto(h, k, b, d)
      PROVE  IInv'
  <2>1. /\ WellFormed(Clone(cfg[h], b, d))
        /\ h \notin chosen => SelfNumbered(Clone(cfg[h], b, d))
    BY <1>9, CloneSound DEF CloneInto, IInv
  <2> QED
    BY <1>9, <2>1, ResultSound DEF CloneInto, Returns
<1>10. ASSUME NEW g \in Handles, NEW h \in Handles, NEW k \in Handles,
              NEW b \in BranchNames, MergeInto(g, h, k, b)
       PROVE  IInv'
  <2>1. WellFormed(cfg[g]) /\ WellFormed(cfg[h])
        /\ (g \notin chosen => SelfNumbered(cfg[g]))
    BY <1>10 DEF MergeInto, IInv
  <2>2. /\ WellFormed(CloneAndMerge(cfg[g], cfg[h], b))
        /\ SelfNumbered(cfg[g]) => SelfNumbered(CloneAndMerge(cfg[g], cfg[h], b))
    BY <1>10, <2>1, CloneAndMergeSound DEF MergeInto
  <2> QED
    BY <1>10, <2>1, <2>2, ResultSound DEF MergeInto, Returns
<1> QED
  BY <1>1, <1>2, <1>3, <1>4, <1>5, <1>6, <1>7, <1>8, <1>9, <1>10 DEF Next

\* The inductive invariant holds in every reachable state.
LEMMA InductiveInvariant == Spec => []IInv
<1>1. IInv /\ [Next]_vars => IInv'
  BY NextSound
<1> QED
  BY <1>1, InitSound, PTL DEF Spec

-----------------------------------------------------------------------------
\* Every object keeps the shape of a BranchConfig: an integer id for each name
\* and a size of 0 or more for each elementary type.
THEOREM TypeCorrect == Spec => []TypeOK
<1>1. IInv => TypeOK
  BY DEF IInv
<1> QED
  BY <1>1, InductiveInvariant, PTL

\* No two fields of a branch share a slot of its records.
THEOREM SlotPerField == Spec => []FieldIdsUnique
<1>1. IInv => FieldIdsUnique
  BY DEF IInv, SelfNumbered, FieldIdsUnique
<1> QED
  BY <1>1, InductiveInvariant, PTL

\* Every user field's id is below the size that records are made for.
THEOREM SlotsSuffice == Spec => []SlotsReserved
<1>1. IInv => SlotsReserved
  BY DEF IInv, SelfNumbered, SlotsReserved
<1> QED
  BY <1>1, InductiveInvariant, PTL

\* Each name is a field of one elementary type, in every object, also with ids
\* of the callers.
THEOREM NamesKeepMeaning == Spec => []OneElementaryType
<1>1. IInv => OneElementaryType
  BY DEF IInv, WellFormed, OneElementaryType
<1> QED
  BY <1>1, InductiveInvariant, PTL

\* The default fields keep the ids of their detector type and the others never
\* get a negative one, also with ids of the callers.
THEOREM DefaultsKeepIds == Spec => []DefaultFieldsKept
<1>1. IInv => DefaultFieldsKept
  BY DEF IInv, WellFormed, DefaultFieldsKept
<1> QED
  BY <1>1, InductiveInvariant, PTL

-----------------------------------------------------------------------------
(***************************************************************************)
(* The refinement: each call changes the rows of one handle as             *)
(* RecordLayout allows.                                                    *)
(***************************************************************************)
LEMMA RowsOfHandle ==
  ASSUME NEW h \in Handles
  PROVE  LayoutRows[h] = IF h \in Live \ chosen THEN RowsOf(cfg[h]) ELSE NoConfig
BY DEF LayoutRows

LEMMA RowsOfHandleNext ==
  ASSUME NEW h \in Handles
  PROVE  LayoutRows'[h] =
           IF h \in Live' \ chosen' THEN RowsOf(cfg'[h]) ELSE NoConfig
BY DEF LayoutRows, RowsOf

\* A call that leaves an object in one handle, or none, changes the rows of no
\* other handle.
LEMMA OneHandleChanges ==
  ASSUME IInv, NEW h \in Handles, NEW c \in Config \cup {NoConfig},
         cfg' = [cfg EXCEPT ![h] = c],
         chosen' = chosen \cup {h} \/ chosen' = chosen \ {h}
  PROVE  /\ \A k \in Handles \ {h} : LayoutRows'[k] = LayoutRows[k]
         /\ LayoutRows'[h] =
              IF c = NoConfig \/ h \in chosen' THEN NoConfig ELSE RowsOf(c)
<1>1. cfg \in [Handles -> Config \cup {NoConfig}]
  BY DEF IInv, TypeOK
<1>2. cfg'[h] = c /\ \A k \in Handles \ {h} : cfg'[k] = cfg[k]
  BY <1>1
<1>3. ASSUME NEW k \in Handles \ {h}
      PROVE  LayoutRows'[k] = LayoutRows[k]
  <2>1. k \in Live' \ chosen' <=> k \in Live \ chosen
    BY <1>2 DEF Live
  <2> QED
    BY <1>2, <2>1, RowsOfHandle, RowsOfHandleNext
<1>4. h \in Live' <=> c # NoConfig
  BY <1>2 DEF Live
<1> QED
  BY <1>2, <1>3, <1>4, RowsOfHandleNext

\* A call is a step of RecordLayout when the object it leaves in a handle, if
\* its ids are the class's own, changes the handle's rows as RecordLayout allows.
LEMMA ResultIsChange ==
  ASSUME IInv, NEW h \in Handles, NEW c, WellFormed(c),
         cfg' = [cfg EXCEPT ![h] = c],
         chosen' = chosen \cup {h} \/ chosen' = chosen \ {h},
         h \notin chosen' => Layout!Change(LayoutRows[h], RowsOf(c))
  PROVE  Layout!RNext
<1>1. c \in Config /\ c # NoConfig
  BY HandlesAssumption DEF WellFormed
<1>2. /\ \A k \in Handles \ {h} : LayoutRows'[k] = LayoutRows[k]
      /\ LayoutRows'[h] = IF h \in chosen' THEN NoConfig ELSE RowsOf(c)
  BY <1>1, OneHandleChanges
<1>3. Layout!Change(LayoutRows[h], LayoutRows'[h])
  <2>1. Layout!Change(LayoutRows[h], NoConfig)
    BY DEF Layout!Change
  <2> QED
    BY <1>2, <2>1
<1> QED
  BY <1>2, <1>3 DEF Layout!RNext

\* An object whose ids are the class's own has its rows in RecordLayout.
LEMMA RowsOfOwnIds ==
  ASSUME IInv, NEW h \in Live, h \notin chosen
  PROVE  /\ h \in Handles /\ WellFormed(cfg[h]) /\ SelfNumbered(cfg[h])
         /\ LayoutRows[h] = RowsOf(cfg[h])
         /\ LayoutRows[h] # NoConfig
<1>1. h \in Handles /\ WellFormed(cfg[h]) /\ SelfNumbered(cfg[h])
  BY DEF IInv, Live
<1>2. LayoutRows[h] = RowsOf(cfg[h])
  BY <1>1, RowsOfHandle
<1> QED
  BY <1>1, <1>2, RowsAreTables DEF WellFormed

\* Replacing the object of a handle by a changed one: the new rows are the old
\* ones with slots appended or a gap or two closed.
LEMMA EditIsChange ==
  ASSUME IInv, NEW h \in Live, h \notin chosen, NEW c, WellFormed(c),
         \/ Layout!Appends(RowsOf(cfg[h]), RowsOf(c))
         \/ Layout!DropsOne(RowsOf(cfg[h]), RowsOf(c))
         \/ Layout!DropsTwo(RowsOf(cfg[h]), RowsOf(c))
  PROVE  Layout!Change(LayoutRows[h], RowsOf(c))
<1>1. RowsOf(c) # NoConfig
  BY RowsAreTables DEF WellFormed
<1> QED
  BY <1>1, RowsOfOwnIds DEF Layout!Change

\* Removing a field that may be removed closes one gap.
LEMMA RemovalDropsOne ==
  ASSUME NEW c, WellFormed(c), SelfNumbered(c), NEW n \in Names, RemoveFieldOk(c, n)
  PROVE  Layout!DropsOne(RowsOf(c), RowsOf(RemoveField(c, n)))
BY RemoveFieldLayout DEF Layout!DropsOne

\* Removing two fields, the second of which may be gone or a default field,
\* closes one gap or two.
LEMMA RemovalDropsTwo ==
  ASSUME NEW c, WellFormed(c), SelfNumbered(c), NEW n \in Names, NEW m \in Names,
         RemoveFieldOk(c, n), RemoveFieldOk(RemoveField(c, n), m)
  PROVE  Layout!DropsTwo(RowsOf(c), RowsOf(RemoveField(RemoveField(c, n), m)))
<1> DEFINE once == RemoveField(c, n)
<1>1. WellFormed(once) /\ SelfNumbered(once)
  BY RemoveFieldSound
<1>2. PICK t \in Types : \E i \in DOMAIN RowsOf(c)[t] :
        /\ RowsOf(c)[t][i] # NoConfig
        /\ RowsOf(once) = [RowsOf(c) EXCEPT ![t] = Layout!CloseGap(@, i)]
  BY RemoveFieldLayout
<1>3. PICK i \in DOMAIN RowsOf(c)[t] :
        /\ RowsOf(c)[t][i] # NoConfig
        /\ RowsOf(once) = [RowsOf(c) EXCEPT ![t] = Layout!CloseGap(@, i)]
  BY <1>2
<1> HIDE DEF once
<1>4. Layout!DropsOne(RowsOf(once), RowsOf(RemoveField(once, m)))
  BY <1>1, RemovalDropsOne DEF once
<1>5. Layout!DropsOne([RowsOf(c) EXCEPT ![t] = Layout!CloseGap(@, i)],
                      RowsOf(RemoveField(once, m)))
  BY <1>3, <1>4
<1> QED
  BY <1>3, <1>5 DEF Layout!DropsTwo, once

\* A merged copy of an object whose ids are the class's own is a change of the
\* rows of the handle that takes it.
LEMMA CopyIsChange ==
  ASSUME IInv, NEW g \in Live, g \notin chosen, NEW k \in Handles,
         NEW c, WellFormed(c), Layout!Extends(RowsOf(cfg[g]), RowsOf(c))
  PROVE  Layout!Change(LayoutRows[k], RowsOf(c))
<1>1. RowsOf(c) # NoConfig
  BY RowsAreTables DEF WellFormed
<1> QED
  BY <1>1, RowsOfOwnIds DEF Layout!Change

\* Every call is a step of RecordLayout, or leaves all rows as they are.
LEMMA NextIsChange ==
  ASSUME IInv, [Next]_vars
  PROVE  Layout!RNext \/ LayoutRows' = LayoutRows
<1> USE HandlesAssumption
<1>1. CASE UNCHANGED vars
  BY <1>1 DEF vars, LayoutRows, RowsOf, Live
<1>2. ASSUME NEW h \in Handles, Destroy(h)
      PROVE  Layout!RNext
  <2>1. /\ \A k \in Handles \ {h} : LayoutRows'[k] = LayoutRows[k]
        /\ LayoutRows'[h] = NoConfig
    BY <1>2, OneHandleChanges DEF Destroy
  <2>2. Layout!Change(LayoutRows[h], LayoutRows'[h])
    BY <2>1 DEF Layout!Change
  <2> QED
    BY <2>1, <2>2 DEF Layout!RNext
<1>3. ASSUME NEW h \in Handles, NEW b \in BranchNames, NEW d \in DetTypes,
             Construct(h, b, d)
      PROVE  Layout!RNext
  <2>1. Layout!Change(LayoutRows[h], RowsOf(NewConfig(b, d)))
    BY NewConfigLayout DEF Layout!Change
  <2> QED
    BY <1>3, <2>1, NewConfigSound, ResultIsChange DEF Construct, Returns
<1>4. ASSUME NEW h \in Handles, NEW t \in Types, NEW n \in UserNames,
             AddAField(h, t, n)
      PROVE  Layout!RNext
  <2> DEFINE c == AddField(cfg[h], t, n)
  <2>1. h \in Live /\ WellFormed(cfg[h]) /\ WellFormed(c) /\ ~HasField(cfg[h], n)
    BY <1>4, AddFieldSound DEF AddAField, IInv
  <2>2. h \notin chosen => Layout!Appends(RowsOf(cfg[h]), RowsOf(c))
    BY <2>1, AddFieldLayout DEF IInv
  <2>3. Returns(h, c, h \in chosen)
    BY <1>4 DEF AddAField
  <2> HIDE DEF c
  <2>4. h \notin chosen => Layout!Change(LayoutRows[h], RowsOf(c))
    BY <2>1, <2>2, EditIsChange
  <2> QED
    BY <2>1, <2>3, <2>4, ResultIsChange DEF Returns
<1>5. ASSUME NEW h \in Handles, NEW t \in Types, NEW n \in UserNames,
             NEW m \in UserNames, AddTwoFields(h, t, <<n, m>>)
      PROVE  Layout!RNext
  <2> DEFINE c == AddFields(cfg[h], t, <<n, m>>)
  <2>1. /\ h \in Live /\ WellFormed(cfg[h]) /\ WellFormed(c)
        /\ AddFieldsOk(cfg[h], <<n, m>>)
    BY <1>5, AddTwoFieldsSound DEF AddTwoFields, IInv
  <2>2. h \notin chosen => Layout!Appends(RowsOf(cfg[h]), RowsOf(c))
    BY <2>1, AddTwoFieldsLayout DEF IInv
  <2>3. Returns(h, c, h \in chosen)
    BY <1>5 DEF AddTwoFields
  <2> HIDE DEF c
  <2>4. h \notin chosen => Layout!Change(LayoutRows[h], RowsOf(c))
    BY <2>1, <2>2, EditIsChange
  <2> QED
    BY <2>1, <2>3, <2>4, ResultIsChange DEF Returns
<1>6. ASSUME NEW h \in Handles, NEW t \in Types, NEW n \in UserNames,
             NEW i \in CallerIds, AddAFieldWithId(h, t, n, i)
      PROVE  Layout!RNext
  <2>1. WellFormed(AddFieldWithId(cfg[h], t, n, i))
    BY <1>6, AddFieldWithIdSound DEF AddAFieldWithId, IInv
  <2> QED
    BY <1>6, <2>1, ResultIsChange DEF AddAFieldWithId, Returns
<1>7. ASSUME NEW h \in Handles, NEW n \in UserNames, RemoveOne(h, n)
      PROVE  Layout!RNext
  <2> DEFINE c == RemoveField(cfg[h], n)
  <2>1. /\ h \in Live /\ WellFormed(cfg[h]) /\ WellFormed(c)
        /\ RemoveFieldOk(cfg[h], n)
    BY <1>7, RemoveFieldSound DEF RemoveOne, IInv
  <2>2. h \notin chosen => Layout!DropsOne(RowsOf(cfg[h]), RowsOf(c))
    BY <2>1, RemovalDropsOne DEF IInv
  <2>3. Returns(h, c, h \in chosen)
    BY <1>7 DEF RemoveOne
  <2> HIDE DEF c
  <2>4. h \notin chosen => Layout!Change(LayoutRows[h], RowsOf(c))
    BY <2>1, <2>2, EditIsChange
  <2> QED
    BY <2>1, <2>3, <2>4, ResultIsChange DEF Returns
<1>8. ASSUME NEW h \in Handles, NEW n \in UserNames, NEW m \in UserNames,
             RemoveTwo(h, n, m)
      PROVE  Layout!RNext
  <2> DEFINE once == RemoveField(cfg[h], n)
             c == IF RemoveFieldOk(once, m) THEN RemoveField(once, m) ELSE once
  <2>1. /\ h \in Live /\ WellFormed(cfg[h]) /\ WellFormed(once)
        /\ h \notin chosen => SelfNumbered(cfg[h]) /\ SelfNumbered(once)
        /\ RemoveFieldOk(cfg[h], n)
    BY <1>8, RemoveFieldSound DEF RemoveTwo, IInv
  <2>2. h \notin chosen => Layout!DropsOne(RowsOf(cfg[h]), RowsOf(once))
    BY <2>1, RemovalDropsOne
  <2>3. h \notin chosen /\ RemoveFieldOk(once, m) =>
          Layout!DropsTwo(RowsOf(cfg[h]), RowsOf(RemoveField(once, m)))
    BY <2>1, RemovalDropsTwo
  <2>4. Returns(h, c, h \in chosen)
    BY <1>8 DEF RemoveTwo
  <2> HIDE DEF once
  <2>5. /\ WellFormed(c)
        /\ h \notin chosen => \/ Layout!DropsOne(RowsOf(cfg[h]), RowsOf(c))
                              \/ Layout!DropsTwo(RowsOf(cfg[h]), RowsOf(c))
    BY <2>1, <2>2, <2>3, RemoveFieldSound
  <2> HIDE DEF c
  <2>6. h \notin chosen => Layout!Change(LayoutRows[h], RowsOf(c))
    BY <2>1, <2>5, EditIsChange
  <2> QED
    BY <2>4, <2>5, <2>6, ResultIsChange DEF Returns
<1>9. ASSUME NEW h \in Handles, NEW k \in Handles, NEW b \in BranchNames,
             NEW d \in DetTypes, CloneInto(h, k, b, d)
      PROVE  Layout!RNext
  <2> DEFINE c == Clone(cfg[h], b, d)
  <2>1. /\ h \in Live /\ WellFormed(cfg[h]) /\ WellFormed(c)
        /\ CloneOk(cfg[h], d)
    BY <1>9, CloneSound DEF CloneInto, IInv
  <2>2. h \notin chosen => Layout!Extends(RowsOf(cfg[h]), RowsOf(c))
    BY <2>1, CloneLayout DEF IInv
  <2>3. Returns(k, c, h \in chosen)
    BY <1>9 DEF CloneInto
  <2> HIDE DEF c
  <2>4. h \notin chosen => Layout!Change(LayoutRows[k], RowsOf(c))
    BY <2>1, <2>2, CopyIsChange
  <2>5. k \notin chosen' => h \notin chosen
    BY <2>3 DEF Returns
  <2> QED
    BY <2>1, <2>3, <2>4, <2>5, ResultIsChange DEF Returns
<1>10. ASSUME NEW g \in Handles, NEW h \in Handles, NEW k \in Handles,
              NEW b \in BranchNames, MergeInto(g, h, k, b)
       PROVE  Layout!RNext
  <2> DEFINE c == CloneAndMerge(cfg[g], cfg[h], b)
  <2>1. /\ g \in Live /\ WellFormed(cfg[g]) /\ WellFormed(cfg[h]) /\ WellFormed(c)
        /\ MergeOk(cfg[g], cfg[h]) /\ "matching_case" \in Names
        /\ \A t \in Types : \A n \in Fields(cfg[h], t) :
             Prefixed(cfg[h].name, n) \in Names
    BY <1>10, CloneAndMergeSound DEF MergeInto, IInv
  <2>2. g \notin chosen => Layout!Extends(RowsOf(cfg[g]), RowsOf(c))
    BY <2>1, MergeLayout DEF IInv
  <2>3. Returns(k, c, g \in chosen)
    BY <1>10 DEF MergeInto
  <2> HIDE DEF c
  <2>4. g \notin chosen => Layout!Change(LayoutRows[k], RowsOf(c))
    BY <2>1, <2>2, CopyIsChange
  <2>5. k \notin chosen' => g \notin chosen
    BY <2>3 DEF Returns
  <2> QED
    BY <2>1, <2>3, <2>4, <2>5, ResultIsChange DEF Returns
<1> QED
  BY <1>1, <1>2, <1>3, <1>4, <1>5, <1>6, <1>7, <1>8, <1>9, <1>10 DEF Next

\* The ids of the objects that number their own fields implement the rows of
\* slots that the records built from them rely on: slots are appended, a
\* removal closes one gap, and a copy continues the rows it was made from.
THEOREM Refinement == Spec => ImplementsLayout
<1>1. Init => Layout!RInit
  BY DEF Init, Layout!RInit, LayoutRows, Live
<1>2. ASSUME IInv, [Next]_vars
      PROVE  [Layout!RNext]_LayoutRows
  BY <1>2, NextIsChange
<1> QED
  BY <1>1, <1>2, InductiveInvariant, PTL
  DEF Spec, ImplementsLayout, Layout!RSpec
=============================================================================
