-------------------- MODULE GenericContainerFillerProofs --------------------
(***************************************************************************)
(* The invariants of GenericContainerFiller hold for inputs of any length, *)
(* all options and any number of runs.                                     *)
(***************************************************************************)
EXTENDS GenericContainerFiller, WellFoundedInduction, SequenceTheorems, TLAPS

(***************************************************************************)
(* Joining the written entries                                             *)
(***************************************************************************)
\* A set of natural numbers that is not empty has a least element.
LEMMA Least ==
  ASSUME NEW B, B \subseteq Nat, B # {}
  PROVE  \E k \in B : \A m \in B : k <= m
<1> DEFINE R == {p \in Nat \X Nat : p[1] < p[2]}
<1>1. IsWellFoundedOn(R, Nat)
  BY NatLessThanWellFounded, Zenon DEF OpToRel
<1>2. \A m, k \in Nat : <<m, k>> \in R <=> m < k
  OBVIOUS
<1> HIDE DEF R
<1>3. PICK k \in B : \A m \in B : ~ (<<m, k>> \in R)
  BY <1>1, WFMin
<1>4. \A m \in B : ~ (m < k)
  BY <1>2, <1>3
<1> QED
  BY <1>4

\* g joins the first k of the sequences s, one after the other.
Joins(g, s, k) ==
  \A i \in 1 .. k : g[i] = IF i = 1 THEN s[i] ELSE g[i - 1] \o s[i]

\* There is such a function,
LEMMA JoinsExists ==
  ASSUME NEW S, NEW s \in Seq(Seq(S)), NEW k \in 0 .. Len(s)
  PROVE  \E g : Joins(g, s, k)
<1> DEFINE B == {m \in Nat : m <= Len(s) /\ ~ \E g : Joins(g, s, m)}
<1> SUFFICES B = {}
  OBVIOUS
<1> SUFFICES ASSUME B # {} PROVE FALSE
  OBVIOUS
<1>1. PICK m \in B : \A j \in B : m <= j
  <2>1. B \subseteq Nat
    OBVIOUS
  <2> HIDE DEF B
  <2> QED
    BY <2>1, Least
<1>2. m # 0
  <2>1. Joins([i \in 1 .. 0 |-> <<>>], s, 0)
    BY DEF Joins
  <2> QED
    BY <2>1
<1>3. PICK g : Joins(g, s, m - 1)
  <2>1. m - 1 \in Nat /\ m - 1 <= Len(s) /\ ~ (m <= m - 1)
    BY <1>2
  <2> QED
    BY <1>1, <2>1
<1> DEFINE h == [i \in 1 .. m |-> IF i = 1 THEN s[i] ELSE g[i - 1] \o s[i]]
<1>4. ASSUME NEW i \in 1 .. m
      PROVE  h[i] = IF i = 1 THEN s[i] ELSE h[i - 1] \o s[i]
  <2>1. CASE i = 1
    BY <2>1
  <2>2. CASE i # 1
    <3>1. i - 1 \in 1 .. m /\ i - 1 \in 1 .. m - 1
      BY <1>1, <2>2
    <3>2. /\ h[i] = g[i - 1] \o s[i]
          /\ h[i - 1] = IF i - 1 = 1 THEN s[i - 1] ELSE g[i - 1 - 1] \o s[i - 1]
      BY <2>2, <3>1
    <3>3. g[i - 1] = IF i - 1 = 1 THEN s[i - 1] ELSE g[i - 1 - 1] \o s[i - 1]
      BY <1>3, <3>1 DEF Joins
    <3> QED
      BY <2>2, <3>2, <3>3
  <2> QED
    BY <2>1, <2>2
<1>5. Joins(h, s, m)
  BY <1>4 DEF Joins
<1> QED
  BY <1>1, <1>5

\* its values are determined by the sequences joined,
LEMMA JoinsAgree ==
  ASSUME NEW s, NEW t, NEW k \in Nat, NEW g, NEW h,
         Joins(g, s, k), Joins(h, t, k),
         \A i \in 1 .. k : s[i] = t[i]
  PROVE  \A i \in 1 .. k : g[i] = h[i]
<1> DEFINE B == {m \in 1 .. k : g[m] # h[m]}
<1> SUFFICES ASSUME B # {} PROVE FALSE
  OBVIOUS
<1>1. PICK m \in B : \A j \in B : m <= j
  <2>1. B \subseteq Nat
    OBVIOUS
  <2> HIDE DEF B
  <2> QED
    BY <2>1, Least
<1>2. /\ g[m] = IF m = 1 THEN s[m] ELSE g[m - 1] \o s[m]
      /\ h[m] = IF m = 1 THEN t[m] ELSE h[m - 1] \o t[m]
  BY DEF Joins
<1>3. m # 1 => g[m - 1] = h[m - 1]
  <2>1. m # 1 => m - 1 \in 1 .. k /\ ~ (m <= m - 1)
    OBVIOUS
  <2> QED
    BY <1>1, <2>1
<1> QED
  BY <1>2, <1>3

\* and they are sequences.
LEMMA JoinsType ==
  ASSUME NEW S, NEW s \in Seq(Seq(S)), NEW k \in 0 .. Len(s),
         NEW g, Joins(g, s, k)
  PROVE  \A i \in 1 .. k : g[i] \in Seq(S)
<1> DEFINE B == {m \in 1 .. k : g[m] \notin Seq(S)}
<1> SUFFICES ASSUME B # {} PROVE FALSE
  OBVIOUS
<1>1. PICK m \in B : \A j \in B : m <= j
  <2>1. B \subseteq Nat
    OBVIOUS
  <2> HIDE DEF B
  <2> QED
    BY <2>1, Least
<1>2. g[m] = IF m = 1 THEN s[m] ELSE g[m - 1] \o s[m]
  BY DEF Joins
<1>3. s[m] \in Seq(S)
  OBVIOUS
<1>4. m # 1 => g[m - 1] \in Seq(S)
  <2>1. m # 1 => m - 1 \in 1 .. k /\ ~ (m <= m - 1)
    OBVIOUS
  <2> QED
    BY <1>1, <2>1
<1> QED
  BY <1>2, <1>3, <1>4, ConcatProperties

\* FlattenSeq is the last value of any function that joins.
LEMMA FlattenJoins ==
  ASSUME NEW S, NEW s \in Seq(Seq(S)), Len(s) # 0
  PROVE  \E g : Joins(g, s, Len(s)) /\ FlattenSeq(s) = g[Len(s)]
<1> DEFINE Is(g) == g = [i \in 1 .. Len(s) |->
                           IF i = 1 THEN s[i] ELSE g[i - 1] \o s[i]]
           g == CHOOSE g : Is(g)
<1>1. \A h : Is(h) => Joins(h, s, Len(s))
  BY DEF Joins
<1>2. FlattenSeq(s) = g[Len(s)]
  BY DEF FlattenSeq
<1>3. \E h : Is(h)
  <2>1. PICK h : Joins(h, s, Len(s))
    BY JoinsExists
  <2> DEFINE f == [i \in 1 .. Len(s) |-> h[i]]
  <2>2. ASSUME NEW i \in 1 .. Len(s)
        PROVE  f[i] = IF i = 1 THEN s[i] ELSE f[i - 1] \o s[i]
    <3>1. i # 1 => i - 1 \in 1 .. Len(s)
      OBVIOUS
    <3>2. f[i] = h[i] /\ (i # 1 => f[i - 1] = h[i - 1])
      BY <3>1
    <3> QED
      BY <2>1, <3>2 DEF Joins
  <2>3. Is(f)
    BY <2>2
  <2> QED
    BY <2>3
<1> HIDE DEF Is
<1> QED
  BY <1>1, <1>2, <1>3

\* Writing one more entry appends its rows to those written before.
LEMMA FlattenAppend ==
  ASSUME NEW S, NEW s \in Seq(Seq(S)), NEW x \in Seq(S)
  PROVE  /\ FlattenSeq(s) \in Seq(S)
         /\ FlattenSeq(Append(s, x)) = FlattenSeq(s) \o x
<1> DEFINE t == Append(s, x)
           k == Len(s)
<1>1. /\ k \in Nat /\ t \in Seq(Seq(S)) /\ Len(t) = k + 1 /\ t[k + 1] = x
      /\ \A i \in 1 .. k : t[i] = s[i]
  OBVIOUS
<1> HIDE DEF t, k
<1>2. PICK h : Joins(h, t, k + 1) /\ FlattenSeq(t) = h[k + 1]
  BY <1>1, FlattenJoins
<1>3. h[k + 1] = IF k = 0 THEN x ELSE h[k] \o x
  BY <1>1, <1>2 DEF Joins
<1>4. CASE k = 0
  <2>1. FlattenSeq(s) = <<>> /\ s = <<>>
    BY <1>4 DEF FlattenSeq, k
  <2> QED
    BY <1>2, <1>3, <1>4, <2>1, ConcatEmptySeq DEF t
<1>5. CASE k # 0
  <2>1. PICK g : Joins(g, s, k) /\ FlattenSeq(s) = g[k]
    BY <1>5, FlattenJoins DEF k
  <2>2. g[k] \in Seq(S)
    <3>1. k \in 0 .. Len(s) /\ k \in 1 .. k
      BY <1>1, <1>5 DEF k
    <3> QED
      BY <2>1, <3>1, JoinsType
  <2>3. g[k] = h[k]
    <3>1. \A i \in 1 .. k : i \in 1 .. k + 1
      BY <1>1
    <3>2. Joins(h, t, k)
      BY <1>2, <3>1 DEF Joins
    <3>3. \A i \in 1 .. k : s[i] = t[i]
      BY <1>1
    <3>4. k \in Nat /\ Joins(g, s, k)
      BY <1>1, <2>1
    <3>5. \A i \in 1 .. k : g[i] = h[i]
      BY <3>2, <3>3, <3>4, JoinsAgree
    <3> QED
      BY <1>1, <1>5, <3>5
  <2> QED
    BY <1>2, <1>3, <1>5, <2>1, <2>2, <2>3 DEF t
<1> QED
  BY <1>1, <1>4, <1>5

(***************************************************************************)
(* The inductive invariant                                                 *)
(***************************************************************************)
\* The input has values of its leaf's type and no more rows than the bound.
InputOK ==
  leaf \in Leaves /\ rows \in Seq(Values(leaf)) /\ Len(rows) <= MaxRows

\* A run is over when its rows are.
RunsCounted ==
  /\ phase # "idle" => runs # 0
  /\ Done => iEntry = nRun

\* The channels counted by n are those of the entry not yet written.
CountedByN ==
  phase = "running" /\ ~trigger /\ n > 0 =>
    /\ \A k \in DOMAIN written : Len(written[k]) = n
    /\ iEntry = n * Len(written) + Len(channels)
    /\ Len(channels) \in (IF iEntry = 0 THEN 0 ELSE 1) .. n

\* The first rows of the entries after the first, the one not yet written too.
Starts ==
  Splits \cup (IF written = <<>> THEN {} ELSE {channels[1]})

\* Where the first k rows are cut: the integer value of the trigger changes or
\* the rows before are a multiple of n.
CutsTo(k) ==
  {r \in 2 .. k : \/ AsInt(rows[r]) # AsInt(rows[r - 1])
                  \/ n > 0 /\ (r - 1) % n = 0}

\* previousTriggerVar is the row before, and entries start at the cuts.
CutByTrigger ==
  phase = "running" /\ runs = 1 /\ trigger =>
    /\ Starts = CutsTo(iEntry)
    /\ IF iEntry = 0 THEN written = <<>>
       ELSE channels # <<>> /\ previous = AsInt(rows[iEntry])

Inv ==
  /\ InputOK /\ TypeOK /\ RunsCounted
  /\ RowsKept /\ FullEntries /\ SplitsFollowTrigger
  /\ CountedByN /\ CutByTrigger

\* The value the trigger is compared by is an integer.
LEMMA AsIntType == \A v \in Int : AsInt(v) \in Int
<1>1. \A i \in Int : NearestFloat(i) \in Int
  BY DEF NearestFloat
<1>2. \A v \in Int : Truncated(v) \in Int
  BY DEF Truncated
<1>3. \A v \in Int : v \div 2 \in Int
  OBVIOUS
<1> QED
  BY <1>1, <1>2, <1>3 DEF AsInt

\* The rows are integers, and as many as Len says.
LEMMA RowsType ==
  ASSUME InputOK
  PROVE  /\ Len(rows) \in 0 .. MaxRows
         /\ \A r \in 1 .. Len(rows) : rows[r] \in Int
BY FillerAssumption DEF InputOK

\* The rows from 1 to k, and one more.
Count(k) == [r \in 1 .. k |-> r]

LEMMA CountNext ==
  ASSUME NEW k \in Nat
  PROVE  /\ Count(k) \in Seq(1 .. k) /\ Len(Count(k)) = k
         /\ Count(k) \o <<k + 1>> = Count(k + 1)
BY DEF Count

\* The k-th row of an entry starts a new one exactly when the entry is full.
LEMMA FullWhenDivisible ==
  ASSUME NEW m \in Nat \ {0}, NEW k \in Nat, NEW c \in 1 .. m
  PROVE  (m * k + c) % m = 0 <=> c = m
OBVIOUS

\* Before the first run there is nothing to keep.
LEMMA InitInv == Init => Inv
<1> SUFFICES ASSUME Init PROVE Inv
  OBVIOUS
<1>1. InputOK
  BY FillerAssumption DEF Init, InputOK, BoundedSeq, SeqOf
<1>2. TypeOK
  <2>1. /\ phase = "idle" /\ trigger = FALSE /\ n = -1 /\ runs = 0 /\ nRun = 0
        /\ iEntry = 0 /\ previous = -799 /\ slot = Unwritten(leaf)
        /\ channels = <<>> /\ written = <<>>
    BY DEF Init
  <2>2. slot \in Int /\ Len(rows) \in Nat /\ MaxRuns \in Nat
    BY <1>1, <2>1, RowsType, FillerAssumption DEF Unwritten
  <2>3. channels \in Seq(1 .. MaxRows) /\ written \in Seq(Seq(1 .. MaxRows))
    BY <2>1
  <2>4. nRun \in 0 .. Len(rows) /\ iEntry \in 0 .. nRun /\ runs \in 0 .. MaxRuns
    BY <2>1, <2>2
  <2>5. trigger \in BOOLEAN
    BY <2>1
  <2>6. n \in Counts \cup {-1} /\ previous \in Int
    BY <2>1
  <2>7. phase \in {"idle", "running", "done", "thrown", "trapped"}
    BY <2>1
  <2> QED
    BY <2>2, <2>3, <2>4, <2>5, <2>6, <2>7 DEF TypeOK
<1>3. phase = "idle"
  BY DEF Init
<1> QED
  BY <1>1, <1>2, <1>3
  DEF Inv, RunsCounted, Done, RowsKept, FullEntries, SplitsFollowTrigger,
      CountedByN, CutByTrigger

\* The options are set between runs, of which nothing is said until the next.
LEMMA SetOptionsInv ==
  ASSUME Inv, NEW t \in BOOLEAN, NEW k \in Counts, SetOptions(t, k)
  PROVE  Inv'
<1>1. phase' = "idle" /\ UNCHANGED <<input, runs, nRun, iEntry, previous, slot,
                                     channels, written>>
  BY DEF SetOptions
<1>2. InputOK'
  BY <1>1 DEF Inv, InputOK, input
<1>3. TypeOK'
  BY <1>1 DEF Inv, TypeOK, SetOptions, input
<1> QED
  BY <1>1, <1>2, <1>3
  DEF Inv, RunsCounted, Done, RowsKept, FullEntries, SplitsFollowTrigger,
      CountedByN, CutByTrigger

\* A run starts with no channel and no entry.
LEMMA StartRunInv ==
  ASSUME Inv, NEW limit \in Limits, StartRun(limit)
  PROVE  Inv'
<1>1. /\ phase' = "running" /\ runs' = runs + 1 /\ runs < MaxRuns
      /\ nRun' = IF limit < 0 \/ limit > Len(rows) THEN Len(rows) ELSE limit
      /\ iEntry' = 0 /\ previous' = -799 /\ channels' = <<>> /\ written' = <<>>
      /\ UNCHANGED <<leaf, rows, trigger, n, slot>>
  BY DEF StartRun, input, options
<1>2. InputOK'
  BY <1>1 DEF Inv, InputOK
<1>3. limit \in Int /\ MaxRuns \in Nat
  BY FillerAssumption
<1>4. nRun' \in 0 .. Len(rows)
  BY <1>1, <1>3, RowsType DEF Inv
<1>5. TypeOK'
  BY <1>1, <1>3, <1>4 DEF Inv, TypeOK
<1>6. RunsCounted' /\ FullEntries' /\ SplitsFollowTrigger'
  BY <1>1 DEF Inv, TypeOK, RunsCounted, Done, FullEntries, SplitsFollowTrigger
<1>7. RowsKept'
  <2>1. FlattenSeq(<<>>) = <<>>
    BY DEF FlattenSeq
  <2>2. <<>> \o <<>> = [r \in 1 .. 0 |-> r]
    OBVIOUS
  <2> QED
    BY <1>1, <2>1, <2>2 DEF RowsKept, Done
<1>8. CountedByN'
  <2>1. n \in Int /\ n * 0 = 0
    BY FillerAssumption DEF Inv, TypeOK
  <2> QED
    BY <1>1, <2>1 DEF CountedByN
<1>9. CutByTrigger'
  BY <1>1 DEF CutByTrigger, Starts, Splits, CutsTo
<1> QED
  BY <1>2, <1>5, <1>6, <1>7, <1>8, <1>9 DEF Inv
\* A row on which Exec stops, at an exception or a division by zero.
LEMMA StoppedInv ==
  ASSUME Inv, phase' \in {"thrown", "trapped"}, slot' = SlotRead,
         phase = "running", iEntry < nRun,
         UNCHANGED <<leaf, rows, trigger, n, runs, nRun, iEntry, previous,
                     channels, written>>
  PROVE  Inv'
<1>1. InputOK'
  BY DEF Inv, InputOK
<1>2. TypeOK'
  <2>1. slot' \in Int
    BY RowsType DEF Inv, TypeOK, SlotRead
  <2> QED
    BY <2>1 DEF Inv, TypeOK
<1>3. phase # "idle" /\ phase' # "running" /\ phase' # "done"
  OBVIOUS
<1> QED
  BY <1>1, <1>2, <1>3
  DEF Inv, RunsCounted, Done, RowsKept, FullEntries, SplitsFollowTrigger,
      CountedByN, CutByTrigger

\* The facts the two lemmas after this share: what Exec does with a row.
Row ==
  /\ Inv /\ phase = "running" /\ iEntry < nRun
  /\ slot' = SlotRead /\ previous' = Current /\ iEntry' = iEntry + 1
  /\ ~DividesByZero
  /\ UNCHANGED <<leaf, rows, trigger, n, phase, runs, nRun>>

\* What Exec leaves well typed, whether it starts an entry or not.
LEMMA RowTyped ==
  ASSUME Row, channels' \in Seq(1 .. MaxRows),
         written' \in Seq(Seq(1 .. MaxRows))
  PROVE  /\ InputOK' /\ TypeOK' /\ RunsCounted'
         /\ FullEntries' /\ SplitsFollowTrigger'
<1>1. InputOK' /\ RunsCounted' /\ FullEntries' /\ SplitsFollowTrigger'
  BY DEF Row, Inv, InputOK, RunsCounted, Done, FullEntries, SplitsFollowTrigger
<1>2. slot' \in Int /\ previous' \in Int
  <2>1. SlotRead \in Int
    <3>1. iEntry + 1 \in 1 .. Len(rows)
      BY RowsType DEF Row, Inv, TypeOK
    <3> QED
      BY <3>1, RowsType DEF Row, Inv, TypeOK, SlotRead
  <2>2. Current \in Int
    BY <2>1, AsIntType DEF Row, Inv, TypeOK, Current
  <2> QED
    BY <2>1, <2>2 DEF Row
<1>3. TypeOK'
  BY <1>2 DEF Row, Inv, TypeOK
<1> QED
  BY <1>1, <1>3

\* The row read is the trigger's in the first run, and the next to be counted.
LEMMA RowFacts ==
  ASSUME Row
  PROVE  /\ iEntry \in Nat /\ iEntry + 1 \in 1 .. MaxRows
         /\ channels \in Seq(1 .. MaxRows) /\ written \in Seq(Seq(1 .. MaxRows))
         /\ FlattenSeq(written) \in Seq(1 .. MaxRows)
         /\ FlattenSeq(written) \o channels = Count(iEntry)
         /\ runs = 1 /\ trigger => Current = AsInt(rows[iEntry + 1])
<1>1. Len(rows) \in 0 .. MaxRows /\ nRun \in 0 .. Len(rows) /\ iEntry \in 0 .. nRun
  BY RowsType DEF Row, Inv, TypeOK
<1>2. iEntry \in Nat /\ iEntry + 1 \in 1 .. MaxRows
  BY <1>1, FillerAssumption DEF Row
<1>3. channels \in Seq(1 .. MaxRows) /\ written \in Seq(Seq(1 .. MaxRows))
  BY DEF Row, Inv, TypeOK
<1>4. FlattenSeq(written) \in Seq(1 .. MaxRows)
  BY <1>3, FlattenAppend
<1>5. FlattenSeq(written) \o channels = Count(iEntry)
  BY DEF Row, Inv, RowsKept, Count
<1>6. runs = 1 /\ trigger => Current = AsInt(rows[iEntry + 1])
  BY DEF Current, SlotRead
<1> QED
  BY <1>2, <1>3, <1>4, <1>5, <1>6

\* Writing the channels adds their first row to the splits.
LEMMA WrittenSplits ==
  ASSUME written \in Seq(Seq(1 .. MaxRows)), channels \in Seq(1 .. MaxRows),
         written' = Append(written, channels)
  PROVE  Splits' = Starts
<1>1. /\ Len(written) \in Nat /\ Len(written') = Len(written) + 1
      /\ \A k \in 1 .. Len(written) : written'[k] = written[k]
      /\ written'[Len(written) + 1] = channels
  OBVIOUS
<1>2. CASE written = <<>>
  BY <1>1, <1>2 DEF Splits, Starts
<1>3. CASE written # <<>>
  <2>1. Len(written) >= 1
    BY <1>3
  <2> QED
    BY <1>1, <1>3, <2>1 DEF Splits, Starts
<1> QED
  BY <1>2, <1>3

\* A row that starts an entry: the entry before, if there is one, is written.
LEMMA NewEntryInv ==
  ASSUME Row, IsNewATEntry, channels' = <<iEntry + 1>>,
         written' = IF iEntry # 0 THEN Append(written, channels) ELSE written
  PROVE  Inv'
<1>1. /\ iEntry \in Nat /\ iEntry + 1 \in 1 .. MaxRows
      /\ channels \in Seq(1 .. MaxRows) /\ written \in Seq(Seq(1 .. MaxRows))
      /\ FlattenSeq(written) \in Seq(1 .. MaxRows)
      /\ FlattenSeq(written) \o channels = Count(iEntry)
      /\ runs = 1 /\ trigger => Current = AsInt(rows[iEntry + 1])
  BY RowFacts
<1>2. /\ phase = "running" /\ phase' = "running" /\ iEntry' = iEntry + 1
      /\ previous' = Current
      /\ UNCHANGED <<rows, trigger, n, runs, nRun>>
      /\ n \in Int
  BY FillerAssumption DEF Row, Inv, TypeOK
<1>3. InputOK' /\ TypeOK' /\ RunsCounted' /\ FullEntries' /\ SplitsFollowTrigger'
  <2>1. channels' \in Seq(1 .. MaxRows)
    BY <1>1
  <2>2. written' \in Seq(Seq(1 .. MaxRows))
    <3>1. Append(written, channels) \in Seq(Seq(1 .. MaxRows))
      BY <1>1, AppendProperties
    <3> QED
      BY <1>1, <3>1
  <2> QED
    BY <2>1, <2>2, RowTyped
<1>4. RowsKept'
  <2>1. FlattenSeq(written') = Count(iEntry)
    <3>1. CASE iEntry # 0
      BY <1>1, <3>1, FlattenAppend
    <3>2. CASE iEntry = 0
      <4>1. Count(0) = <<>>
        BY DEF Count
      <4>2. FlattenSeq(written) = <<>>
        BY <1>1, <3>2, <4>1, ConcatEqualIffEmpty, EmptySeq
      <4> QED
        BY <3>2, <4>1, <4>2
    <3> QED
      BY <3>1, <3>2
  <2>2. FlattenSeq(written') \o channels' = Count(iEntry')
    BY <1>1, <1>2, <2>1, CountNext
  <2> QED
    BY <1>2, <2>2 DEF RowsKept, Count
<1>5. CountedByN'
  <2> SUFFICES ASSUME ~trigger, n > 0
               PROVE  /\ \A k \in DOMAIN written' : Len(written'[k]) = n
                      /\ iEntry + 1 = n * Len(written') + 1
                      /\ 1 \in 1 .. n
    BY <1>1, <1>2 DEF CountedByN
  <2>1. /\ \A k \in DOMAIN written : Len(written[k]) = n
        /\ iEntry = n * Len(written) + Len(channels)
        /\ Len(channels) \in (IF iEntry = 0 THEN 0 ELSE 1) .. n
    BY <1>2 DEF Row, Inv, CountedByN
  <2>2. n \in Nat \ {0} /\ Len(written) \in Nat /\ Len(channels) \in Nat
    BY <1>1, <1>2
  <2>3. CASE iEntry = 0
    <3>1. Len(written) = 0
      <4>1. n * Len(written) = 0
        <5>1. n * Len(written) \in Nat
          BY <2>2
        <5> QED
          BY <2>1, <2>2, <2>3, <5>1
      <4> QED
        BY <2>2, <4>1
    <3> QED
      BY <2>1, <2>2, <2>3, <3>1
  <2>4. CASE iEntry # 0
    <3>1. Current = previous
      BY DEF Current
    <3>2. iEntry % n = 0
      BY <2>4, <3>1 DEF IsNewATEntry
    <3>3. Len(channels) = n
      BY <2>1, <2>2, <2>4, <3>2, FullWhenDivisible
    <3>4. /\ Len(written') = Len(written) + 1
          /\ \A k \in DOMAIN written' :
               written'[k] = IF k = Len(written) + 1 THEN channels ELSE written[k]
          /\ \A k \in DOMAIN written' : k # Len(written) + 1 => k \in DOMAIN written
      BY <1>1, <2>4
    <3>5. n * (Len(written) + 1) = n * Len(written) + n
      BY <2>2
    <3> QED
      BY <2>1, <2>2, <3>3, <3>4, <3>5
  <2> QED
    BY <2>3, <2>4
<1>6. CutByTrigger'
  <2> SUFFICES ASSUME runs = 1, trigger
               PROVE  /\ Starts' = CutsTo(iEntry + 1)
                      /\ channels' # <<>> /\ previous' = AsInt(rows[iEntry + 1])
    <3>1. CutsTo(iEntry)' = CutsTo(iEntry + 1)
      BY <1>2 DEF CutsTo
    <3>2. iEntry + 1 # 0
      BY <1>1
    <3> QED
      BY <1>2, <3>1, <3>2 DEF CutByTrigger
  <2>1. /\ Starts = CutsTo(iEntry)
        /\ IF iEntry = 0 THEN written = <<>>
           ELSE channels # <<>> /\ previous = AsInt(rows[iEntry])
    BY <1>2 DEF Row, Inv, CutByTrigger
  <2>2. Current = AsInt(rows[iEntry + 1])
    BY <1>1
  <2>4. CASE iEntry = 0
    <3>1. written' = <<>>
      BY <2>1, <2>4
    <3>2. CutsTo(1) = {}
      BY DEF CutsTo
    <3> QED
      BY <1>2, <2>2, <2>4, <3>1, <3>2 DEF Starts, Splits
  <2>5. CASE iEntry # 0
    <3>1. \/ AsInt(rows[iEntry + 1]) # AsInt(rows[iEntry])
          \/ n > 0 /\ iEntry % n = 0
      <4>1. ~(Current = previous /\ n = 0)
        BY <2>5 DEF Row, DividesByZero
      <4>2. Current # previous \/ (n >= 0 /\ iEntry % n = 0)
        BY <2>5 DEF IsNewATEntry
      <4>3. previous = AsInt(rows[iEntry])
        BY <2>1, <2>5
      <4>4. CASE Current # previous
        BY <2>2, <4>3, <4>4
      <4>5. CASE Current = previous
        <5>1. n # 0 /\ n >= 0 /\ iEntry % n = 0
          BY <4>1, <4>2, <4>5
        <5>2. n > 0
          BY <1>2, <5>1
        <5> QED
          BY <5>1, <5>2
      <4> QED
        BY <4>4, <4>5
    <3>2. CutsTo(iEntry + 1) = CutsTo(iEntry) \cup {iEntry + 1}
      <4>1. \A r \in 2 .. iEntry + 1 : r \in 2 .. iEntry \/ r = iEntry + 1
        BY <1>1
      <4>2. iEntry + 1 \in 2 .. iEntry + 1 /\ (iEntry + 1) - 1 = iEntry
            /\ \A r \in 2 .. iEntry : r \in 2 .. iEntry + 1
        BY <1>1, <2>5
      <4> QED
        BY <3>1, <4>1, <4>2 DEF CutsTo
    <3>3. written' # <<>>
      <4>1. written' = Append(written, channels)
        BY <2>5
      <4> QED
        BY <1>1, <4>1, AppendProperties
    <3>4. Splits' = Starts
      BY <1>1, <2>5, WrittenSplits
    <3>5. Starts' = Starts \cup {iEntry + 1}
      BY <3>3, <3>4 DEF Starts
    <3> QED
      BY <1>2, <2>1, <2>2, <3>2, <3>5
  <2> QED
    BY <2>4, <2>5
<1> QED
  BY <1>3, <1>4, <1>5, <1>6 DEF Inv

\* A row that continues the entry: without a trigger the entry is not full yet,
\* with one the row's value is the row's before.
LEMMA SameEntryInv ==
  ASSUME Row, ~IsNewATEntry, channels' = Append(channels, iEntry + 1),
         written' = written
  PROVE  Inv'
<1>1. /\ iEntry \in Nat /\ iEntry + 1 \in 1 .. MaxRows
      /\ channels \in Seq(1 .. MaxRows) /\ written \in Seq(Seq(1 .. MaxRows))
      /\ FlattenSeq(written) \in Seq(1 .. MaxRows)
      /\ FlattenSeq(written) \o channels = Count(iEntry)
      /\ runs = 1 /\ trigger => Current = AsInt(rows[iEntry + 1])
  BY RowFacts
<1>2. /\ phase = "running" /\ phase' = "running" /\ iEntry' = iEntry + 1
      /\ previous' = Current
      /\ UNCHANGED <<rows, trigger, n, runs, nRun>>
      /\ n \in Int
  BY FillerAssumption DEF Row, Inv, TypeOK
<1>3. InputOK' /\ TypeOK' /\ RunsCounted' /\ FullEntries' /\ SplitsFollowTrigger'
  BY <1>1, RowTyped
<1>4. iEntry # 0 /\ Current = previous /\ (n >= 0 => iEntry % n # 0)
  BY <1>2 DEF IsNewATEntry
<1>5. RowsKept'
  <2> DEFINE all == FlattenSeq(written)
             last == iEntry + 1
  <2>1. all \in Seq(1 .. MaxRows) /\ channels \in Seq(1 .. MaxRows)
        /\ last \in 1 .. MaxRows /\ all \o channels = Count(iEntry)
    BY <1>1
  <2> HIDE DEF all, last
  <2>2. all \o Append(channels, last) = (all \o channels) \o <<last>>
    <3>1. Append(channels, last) = channels \o <<last>>
      BY <2>1
    <3>2. <<last>> \in Seq(1 .. MaxRows)
      BY <2>1
    <3> DEFINE S == 1 .. MaxRows
               one == <<last>>
    <3> HIDE DEF S, one
    <3>3. all \in Seq(S) /\ channels \in Seq(S) /\ one \in Seq(S)
      BY <2>1, <3>2 DEF S, one
    <3>4. (all \o channels) \o one = all \o (channels \o one)
      BY <3>3, ConcatAssociative
    <3> QED
      BY <3>1, <3>4 DEF one
  <2>3. FlattenSeq(written') \o channels' = Count(iEntry')
    BY <1>1, <1>2, <2>1, <2>2, CountNext DEF all, last
  <2> QED
    BY <1>2, <2>3 DEF RowsKept, Count
<1>6. CountedByN'
  <2> SUFFICES ASSUME ~trigger, n > 0
               PROVE  /\ \A k \in DOMAIN written : Len(written[k]) = n
                      /\ iEntry + 1 = n * Len(written) + Len(channels')
                      /\ Len(channels') \in 1 .. n
    BY <1>1, <1>2 DEF CountedByN
  <2>1. /\ \A k \in DOMAIN written : Len(written[k]) = n
        /\ iEntry = n * Len(written) + Len(channels)
        /\ Len(channels) \in 1 .. n
    BY <1>2, <1>4 DEF Row, Inv, CountedByN
  <2>2. n \in Nat \ {0} /\ Len(written) \in Nat
    BY <1>1, <1>2
  <2>3. Len(channels) # n
    BY <1>4, <2>1, <2>2, FullWhenDivisible
  <2>4. Len(channels') = Len(channels) + 1
    BY <1>1
  <2>5. n * Len(written) \in Nat
    BY <2>2
  <2> QED
    BY <2>1, <2>2, <2>3, <2>4, <2>5
<1>7. CutByTrigger'
  <2> SUFFICES ASSUME runs = 1, trigger
               PROVE  /\ Starts' = CutsTo(iEntry + 1)
                      /\ channels' # <<>> /\ previous' = AsInt(rows[iEntry + 1])
    <3>1. CutsTo(iEntry)' = CutsTo(iEntry + 1)
      BY <1>2 DEF CutsTo
    <3>2. iEntry + 1 # 0
      BY <1>1
    <3> QED
      BY <1>2, <3>1, <3>2 DEF CutByTrigger
  <2>1. /\ Starts = CutsTo(iEntry)
        /\ channels # <<>> /\ previous = AsInt(rows[iEntry])
    BY <1>2, <1>4 DEF Row, Inv, CutByTrigger
  <2>2. Current = AsInt(rows[iEntry + 1])
    BY <1>1
  <2>4. CutsTo(iEntry + 1) = CutsTo(iEntry)
    <3>1. \A r \in 2 .. iEntry + 1 : r \in 2 .. iEntry \/ r = iEntry + 1
      BY <1>1
    <3>2. (iEntry + 1) - 1 = iEntry /\ \A r \in 2 .. iEntry : r \in 2 .. iEntry + 1
      BY <1>1
    <3>3. AsInt(rows[iEntry + 1]) = AsInt(rows[iEntry])
          /\ ~(n > 0 /\ iEntry % n = 0)
      BY <1>2, <1>4, <2>1, <2>2
    <3> QED
      BY <3>1, <3>2, <3>3 DEF CutsTo
  <2>5. channels' # <<>> /\ channels'[1] = channels[1]
    BY <1>1, <2>1
  <2>6. Starts' = Starts
    BY <2>5 DEF Starts, Splits
  <2> QED
    BY <1>2, <2>1, <2>2, <2>4, <2>5, <2>6
<1> QED
  BY <1>3, <1>5, <1>6, <1>7 DEF Inv

\* Exec, whatever it does with the row.
LEMMA ExecInv == Inv /\ Exec => Inv'
<1> SUFFICES ASSUME Inv, Exec PROVE Inv'
  OBVIOUS
<1>1. CASE \/ trigger /\ GetThrows(SlotRead)
           \/ DividesByZero
  BY <1>1, StoppedInv DEF Exec, input, options
<1>2. CASE ~(trigger /\ GetThrows(SlotRead)) /\ ~DividesByZero
  <2>1. /\ Row
        /\ written' = IF IsNewATEntry /\ iEntry # 0
                      THEN Append(written, channels) ELSE written
        /\ channels' = IF IsNewATEntry THEN <<iEntry + 1>>
                       ELSE Append(channels, iEntry + 1)
    BY <1>2 DEF Exec, Row, input, options
  <2>2. CASE IsNewATEntry
    BY <2>1, <2>2, NewEntryInv
  <2>3. CASE ~IsNewATEntry
    BY <2>1, <2>3, SameEntryInv
  <2> QED
    BY <2>2, <2>3
<1> QED
  BY <1>1, <1>2

\* The end of a run: the channels not yet written become its last entry.
LEMMA EndRunInv == Inv /\ EndRun => Inv'
<1> SUFFICES ASSUME Inv, EndRun PROVE Inv'
  OBVIOUS
<1>1. /\ phase = "running" /\ phase' = "done" /\ iEntry = nRun
      /\ written' = Append(written, channels)
      /\ UNCHANGED <<leaf, rows, trigger, n, runs, nRun, iEntry, previous,
                     slot, channels>>
  BY DEF EndRun, input, options
<1>2. /\ channels \in Seq(1 .. MaxRows) /\ written \in Seq(Seq(1 .. MaxRows))
      /\ written' \in Seq(Seq(1 .. MaxRows))
      /\ Len(rows) \in Nat /\ nRun \in Nat
  BY <1>1, RowsType DEF Inv, TypeOK
<1>3. InputOK' /\ TypeOK' /\ RunsCounted'
  BY <1>1, <1>2 DEF Inv, InputOK, TypeOK, RunsCounted, Done
<1>4. RowsKept'
  <2>1. FlattenSeq(written') = FlattenSeq(written) \o channels
    BY <1>1, <1>2, FlattenAppend
  <2> QED
    BY <1>1, <2>1 DEF Inv, RowsKept, Done
<1>5. FullEntries'
  <2> SUFFICES ASSUME nRun > 0, ~trigger, n > 0
               PROVE  /\ \A k \in 1 .. Len(written') - 1 : Len(written'[k]) = n
                      /\ Len(Last(written')) \in 1 .. n
    BY <1>1 DEF FullEntries
  <2>1. /\ \A k \in 1 .. Len(written) : Len(written[k]) = n
        /\ Len(channels) \in 1 .. n
    BY <1>1, <1>2 DEF Inv, CountedByN
  <2>2. /\ Len(written') = Len(written) + 1
        /\ \A k \in 1 .. Len(written) : written'[k] = written[k]
        /\ Last(written') = channels
    BY <1>1, <1>2 DEF Last
  <2>3. \A k \in 1 .. Len(written') - 1 : k \in 1 .. Len(written)
    BY <1>2, <2>2
  <2> QED
    BY <2>1, <2>2, <2>3
<1>6. SplitsFollowTrigger'
  <2> SUFFICES ASSUME runs = 1, trigger
               PROVE  Splits' = CutsTo(nRun)
    <3>1. IntChanges' = {r \in 2 .. nRun : AsInt(rows[r]) # AsInt(rows[r - 1])}
      BY <1>1 DEF IntChanges, AsInt
    <3> QED
      BY <1>1, <3>1 DEF SplitsFollowTrigger, CutsTo
  <2>1. Starts = CutsTo(nRun)
    BY <1>1 DEF Inv, CutByTrigger
  <2> QED
    BY <1>1, <1>2, <2>1, WrittenSplits
<1> QED
  BY <1>1, <1>3, <1>4, <1>5, <1>6 DEF Inv, CountedByN, CutByTrigger

\* The steps of Next preserve the invariant, and so does a stutter.
LEMMA StepInv == Inv /\ [Next]_vars => Inv'
<1> SUFFICES ASSUME Inv, [Next]_vars PROVE Inv'
  OBVIOUS
<1>1. ASSUME NEW t \in BOOLEAN, NEW k \in Counts, SetOptions(t, k)
      PROVE  Inv'
  BY <1>1, SetOptionsInv
<1>2. ASSUME NEW limit \in Limits, StartRun(limit)
      PROVE  Inv'
  BY <1>2, StartRunInv
<1>3. CASE Exec
  BY <1>3, ExecInv
<1>4. CASE EndRun
  BY <1>4, EndRunInv
<1>5. CASE UNCHANGED vars
  <2>1. UNCHANGED <<leaf, rows, trigger, n, phase, runs, nRun, iEntry, previous,
                    slot, channels, written>>
    BY <1>5 DEF vars
  <2> QED
    BY <2>1
    DEF Inv, InputOK, TypeOK, RunsCounted, Done, RowsKept, FullEntries,
        SplitsFollowTrigger, IntChanges, Splits, CountedByN, CutByTrigger,
        Starts, CutsTo
<1> QED
  BY <1>1, <1>2, <1>3, <1>4, <1>5 DEF Next

(***************************************************************************)
(* The theorems                                                            *)
(***************************************************************************)
\* Whatever options are set and whatever the input, every state a filler can
\* be in satisfies the invariant.
THEOREM Invariance == Spec => []Inv
<1>1. Init => Inv
  BY InitInv
<1>2. Inv /\ [Next]_vars => Inv'
  BY StepInv
<1> QED
  BY <1>1, <1>2, PTL DEF Spec

\* The counters stay in the input, and the entries hold rows of it.
THEOREM TypeCorrect == Spec => []TypeOK
<1>1. Inv => TypeOK
  BY DEF Inv
<1> QED
  BY <1>1, Invariance, PTL

\* Run loses, repeats and moves no row, whatever ends an entry: at any moment
\* of Exec's loop the entries written and the channels not yet written are the
\* rows read, in order, and after Finish the entries are all of them.
THEOREM RowsAlwaysKept == Spec => []RowsKept
<1>1. Inv => RowsKept
  BY DEF Inv
<1> QED
  BY <1>1, Invariance, PTL

\* Without a trigger variable IsNewATEntry cuts entries of n channels each, for
\* every n, and only the last one may have fewer.
THEOREM EntriesStayFull == Spec => []FullEntries
<1>1. Inv => FullEntries
  BY DEF Inv
<1> QED
  BY <1>1, Invariance, PTL

\* With a trigger variable the first run ends an entry at each change of the
\* trigger's integer value, and only where the value changes or n rows are
\* counted, whatever the values and n are.
THEOREM SplitsAlwaysFollowTrigger == Spec => []SplitsFollowTrigger
<1>1. Inv => SplitsFollowTrigger
  BY DEF Inv
<1> QED
  BY <1>1, Invariance, PTL
=============================================================================
