--------------------------- MODULE EntryVariables ---------------------------
(***************************************************************************)
(* The columns of a table: the variables of an AnalysisEntry (infra) or a  *)
(* VarManagerEntry (infra-1.0).  Both compare and add variables the same   *)
(* way.  A variable is [key, branches, fn]: key stands for its name and    *)
(* fields, which are compared, fn for its function, which is not.          *)
(***************************************************************************)
EXTENDS InOrder

\* operator== of Variable.
SameVariable(v, w) == v.key = w.key

\* What a variable yields for the channels at.
Value(v, at) == <<v.key, v.fn, [b \in v.branches |-> at[b]]>>

\* Mutant of AddVariable: the size after the insertion is returned.
AddVariableSize(acc, v) ==
  LET same == {i \in DOMAIN acc.vars : SameVariable(acc.vars[i], v)}
  IN IF same = {}
     THEN [vars |-> Append(acc.vars, v), ids |-> Append(acc.ids, Len(acc.vars) + 1)]
     ELSE [acc EXCEPT !.ids = Append(@, Min(same) - 1)]

\* AnalysisEntry::AddVariable, on the variables and the ids returned so far.
AddVariable(acc, v) ==
  LET same == {i \in DOMAIN acc.vars : SameVariable(acc.vars[i], v)}
  IN IF same = {}
     THEN [vars |-> Append(acc.vars, v), ids |-> Append(acc.ids, Len(acc.vars))]
     ELSE [acc EXCEPT !.ids = Append(@, Min(same) - 1)]

\* The loop of AddEntry over the variables of the new entry.
AddVariables(old, new) ==
  LET acc[i \in 0 .. Len(new)] ==
        IF i = 0 THEN [vars |-> old, ids |-> <<>>]
        ELSE AddVariable(acc[i - 1], new[i])
  IN acc[Len(new)]
=============================================================================
