-------------------------- MODULE MatchedBranches --------------------------
(***************************************************************************)
(* What a Configuration promises to its users: branches by id and, for     *)
(* some ordered pairs of branch names, the name of the data branch that    *)
(* holds their matching.  A matching is added once for two branches, never *)
(* changes, and disappears only with one of its branches; a file gives     *)
(* back what was written to it.                                            *)
(***************************************************************************)
EXTENDS Integers, FiniteSets

CONSTANTS Objects, Files, Nothing

VARIABLES object, stored

mvars == <<object, stored>>

Empty == [branches |-> <<>>, matches |-> <<>>]

\* g is f with more entries.
Grows(f, g) == DOMAIN f \subseteq DOMAIN g /\ \A x \in DOMAIN f : g[x] = f[x]

GainsBranches(old, new) ==
  Grows(old.branches, new.branches) /\ new.matches = old.matches

GainsMatch(old, new) ==
  /\ new.branches = old.branches
  /\ Grows(old.matches, new.matches)
  /\ \E p \in DOMAIN new.matches :
       /\ DOMAIN new.matches \ DOMAIN old.matches = {p}
       /\ <<p[2], p[1]>> \notin DOMAIN old.matches

\* The names of branches and in matchings.
NamesIn(view) ==
  {view.branches[i] : i \in DOMAIN view.branches}
    \cup UNION {{p[1], p[2]} : p \in DOMAIN view.matches}

\* A name leaves with every branch that has it and every matching of it.
LosesName(old, new) ==
  \E n \in NamesIn(old) :
    /\ Grows(new.branches, old.branches) /\ Grows(new.matches, old.matches)
    /\ DOMAIN new.branches = {i \in DOMAIN old.branches : old.branches[i] # n}
    /\ DOMAIN new.matches = {p \in DOMAIN old.matches : n \notin {p[1], p[2]}}

Change(o) ==
  \/ object'[o] \in {Nothing, Empty}
  \/ \E q \in Objects : object'[o] = object[q]
  \/ object[o] = Nothing /\ \E f \in Files : object'[o] = stored[f]
  \/ /\ object[o] # Nothing /\ object'[o] # Nothing
     /\ \/ GainsBranches(object[o], object'[o])
        \/ GainsMatch(object[o], object'[o])
        \/ LosesName(object[o], object'[o])

MInit == object = [o \in Objects |-> Nothing]

MNext ==
  \/ /\ UNCHANGED stored
     /\ \E o \in Objects :
          /\ \A q \in Objects \ {o} : object'[q] = object[q]
          /\ Change(o)
  \/ /\ UNCHANGED object
     /\ \E f \in Files, o \in Objects :
          object[o] # Nothing /\ stored' = [stored EXCEPT ![f] = object[o]]

MSpec == MInit /\ [][MNext]_mvars
=============================================================================
