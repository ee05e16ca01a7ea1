---------------------------- MODULE NamedRecords ----------------------------
(***************************************************************************)
(* What the Branches of a program promise to the tasks that fill them: a   *)
(* branch is a table whose rows hold a value under the name of each field. *)
(* Writing under one name changes nothing else, and copying between tables *)
(* moves values between fields of the same (or the prefixed) name.         *)
(***************************************************************************)
EXTENDS Integers, Sequences, Functions

CONSTANTS
  Branches,
  Blank,            \* the value of a field nobody has written
  Stored(_, _),     \* Stored(t, v): what a field of type t keeps of v
  Renamed(_, _),    \* Renamed(m, n): n is m, or m with a prefix
  Computed,         \* the fields a getter computes; what it gives is Blank here
  Nothing           \* the table of a branch that does not exist

VARIABLES
  table,            \* table[b].types is name -> type, .rows[i] is name -> value
  mixed             \* tables with a row that was taken from other fields as it is

Blanks(types) == [n \in DOMAIN types |-> Blank]

AllBlank(t) == \A i \in DOMAIN t.rows : t.rows[i] = Blanks(t.types)

\* A new table takes the place of the old one; a caller may hand it rows.
Replaces(b, new) ==
  (new # Nothing => AllBlank(new)) /\ mixed' = mixed \ {b}

Widens(old, new) ==
  DOMAIN old \subseteq DOMAIN new /\ \A n \in DOMAIN old : new[n] = old[n]

\* Fields are declared.  Rows that exist do not have them, or all of them do;
\* those of a mixed table may have, and with any value.
Declares(b, old, new) ==
  /\ Widens(old.types, new.types)
  /\ \/ new.rows = old.rows
     \/ /\ DOMAIN new.rows = DOMAIN old.rows
        /\ \A i \in DOMAIN old.rows :
             /\ Widens(old.rows[i], new.rows[i])
             /\ \A n \in DOMAIN new.rows[i] \ DOMAIN old.rows[i] :
                  b \in mixed \/ new.rows[i][n] = Blank

GainsRow(old, new) == new = [old EXCEPT !.rows = Append(@, Blanks(old.types))]

Clears(b, old, new) ==
  new = [old EXCEPT !.rows = <<>>] /\ mixed' = mixed \ {b}

WritesOne(old, new) ==
  \E i \in DOMAIN old.rows : \E n \in DOMAIN old.rows[i] :
    /\ DOMAIN new.rows = DOMAIN old.rows
    /\ DOMAIN new.rows[i] = DOMAIN old.rows[i]
    /\ new = [old EXCEPT !.rows[i][n] = new.rows[i][n]]
    /\ new.rows[i][n] = Stored(old.types[n], new.rows[i][n])

\* Row i takes over fields of a row of another (or the same) table, by name.
TakesOver(tables, old, new) ==
  \E i \in DOMAIN old.rows : \E s \in Branches :
    /\ tables[s] # Nothing
    /\ DOMAIN new.rows = DOMAIN old.rows
    /\ DOMAIN new.rows[i] = DOMAIN old.rows[i]
    /\ new = [old EXCEPT !.rows[i] = new.rows[i]]
    /\ \E j \in DOMAIN tables[s].rows : \A n \in DOMAIN old.rows[i] :
         \/ new.rows[i][n] = old.rows[i][n]
         \/ \E m \in DOMAIN tables[s].rows[j] :
              /\ Renamed(m, n)
              /\ new.rows[i][n] = Stored(old.types[n], tables[s].rows[j][m])
         \/ \E m \in Computed \ DOMAIN tables[s].types :
              Renamed(m, n) /\ new.rows[i][n] = Blank

\* All rows, or one, become those of a table with the same fields.
TakesRows(tables, b, old, new) ==
  \E s \in Branches :
    /\ tables[s] # Nothing
    /\ tables[s].types = old.types
    /\ new = [old EXCEPT !.rows = tables[s].rows]
    /\ mixed' = IF s \in mixed THEN mixed \cup {b} ELSE mixed \ {b}

TakesRow(tables, old, new) ==
  \E s \in Branches : \E i \in DOMAIN old.rows :
    /\ tables[s] # Nothing
    /\ tables[s].types = old.types
    /\ DOMAIN new.rows = DOMAIN old.rows
    /\ new = [old EXCEPT !.rows[i] = new.rows[i]]
    /\ \E j \in DOMAIN tables[s].rows :
         /\ DOMAIN new.rows[i] = DOMAIN tables[s].rows[j]
         /\ \A n \in DOMAIN new.rows[i] :
              new.rows[i][n] \in {tables[s].rows[j][n], Blank}

\* One row takes what a row of a table with other fields holds, under whatever
\* names that ends up.
MixesRow(b, old, new) ==
  /\ \E i \in DOMAIN old.rows : new = [old EXCEPT !.rows[i] = new.rows[i]]
  /\ DOMAIN new.rows = DOMAIN old.rows
  /\ mixed' = mixed \cup {b}

NInit == table = [b \in Branches |-> Nothing] /\ mixed = {}

Change(tables, b, old, new) ==
  \/ Replaces(b, new)
  \/ /\ old # Nothing /\ new # Nothing
     /\ \/ /\ UNCHANGED mixed
           /\ \/ Declares(b, old, new)
              \/ GainsRow(old, new)
              \/ WritesOne(old, new)
              \/ TakesOver(tables, old, new)
              \/ TakesRow(tables, old, new)
        \/ Clears(b, old, new)
        \/ TakesRows(tables, b, old, new)
        \/ MixesRow(b, old, new)

NNext ==
  \E before \in {table}, after \in {table'} : \E b \in Branches :
    /\ after = [before EXCEPT ![b] = after[b]]
    /\ Change(before, b, before[b], after[b])

NSpec == NInit /\ [][NNext]_<<table, mixed>>
=============================================================================
