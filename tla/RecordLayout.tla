---------------------------- MODULE RecordLayout ----------------------------
(***************************************************************************)
(* What a BranchConfig promises to the Containers built from it: for each  *)
(* elementary type a row of slots, slot i holding the field with id i - 1. *)
(* Fields are appended at the end of a row; removing one closes the gap    *)
(* and leaves a free slot at the end, so that the row, and with it every   *)
(* existing and future Container, keeps its length.                        *)
(***************************************************************************)
EXTENDS Integers, SequencesExt

CONSTANTS Handles, Types, Free

VARIABLE rows   \* rows[h][t] is a sequence of names and Free; or rows[h] = Free

EmptyRows == [t \in Types |-> <<>>]

Holds(table, n) == \E t \in Types : Contains(table[t], n)

\* The row grew at its end by slots whose fields, if any, are new to the old
\* table and occur once in the new one.
GrowsAtEnd(old, new, t) ==
  /\ IsPrefix(old[t], new[t])
  /\ \A i \in Len(old[t]) + 1 .. Len(new[t]) : new[t][i] # Free =>
       /\ ~Holds(old, new[t][i])
       /\ \A u \in Types : \A j \in DOMAIN new[u] :
            new[u][j] = new[t][i] => u = t /\ j = i

\* One or two slots are appended to one row; a name the caller lists twice
\* leaves its second slot free.
Appends(old, new) ==
  \E t \in Types :
    /\ \A u \in Types \ {t} : new[u] = old[u]
    /\ GrowsAtEnd(old, new, t)
    /\ Len(new[t]) - Len(old[t]) \in 1 .. 2
    /\ new[t][Len(old[t]) + 1] # Free

CloseGap(row, i) == Append(RemoveAt(row, i), Free)

DropsOne(old, new) ==
  \E t \in Types : \E i \in DOMAIN old[t] :
    /\ old[t][i] # Free
    /\ new = [old EXCEPT ![t] = CloseGap(@, i)]

DropsTwo(old, new) ==
  \E t \in Types : \E i \in DOMAIN old[t] :
    /\ old[t][i] # Free
    /\ DropsOne([old EXCEPT ![t] = CloseGap(@, i)], new)

\* A merged copy of old continues each row and leaves no new slot free.
Extends(old, new) ==
  \A t \in Types :
    /\ GrowsAtEnd(old, new, t)
    /\ \A i \in Len(old[t]) + 1 .. Len(new[t]) : new[t][i] # Free

\* What may happen to the row table of one handle: its object is created,
\* copied from another handle's (merging more fields in), changed or destroyed.
Change(old, new) ==
  \/ new \in {Free, EmptyRows}
  \/ new # Free /\ \E k \in Handles : rows[k] # Free /\ Extends(rows[k], new)
  \/ old # Free /\ new # Free /\
       (Appends(old, new) \/ DropsOne(old, new) \/ DropsTwo(old, new))

RInit == rows = [h \in Handles |-> Free]

RNext == \E h \in Handles :
  /\ \A k \in Handles \ {h} : rows'[k] = rows[k]
  /\ Change(rows[h], rows'[h])

RSpec == RInit /\ [][RNext]_rows
=============================================================================
