--------------------------- MODULE MCBranchConfig ---------------------------
(* Constants for model checking BranchConfig.  "s" is the name of the       *)
(* branches; the names with prefix s_ are those a merge produces.           *)
EXTENDS BranchConfig, TLC

MCSymmetry == Permutations(Handles)

MCBranchNames == {"s"}

MCDetTypes == {"kModule", "kGeneric"}

\* In the order std::map keeps them ('_' sorts between capitals and letters).
MCOrder == <<"f", "id", "matching_case", "number", "s_f", "s_id",
             "s_matching_case", "s_number", "s_signal", "signal">>

MCNames == {MCOrder[i] : i \in DOMAIN MCOrder}

MCRank == [n \in MCNames |-> CHOOSE i \in DOMAIN MCOrder : MCOrder[i] = n]

MCPrefixed(b, n) == b \o "_" \o n

\* A user field, and a name that is free in kGeneric but default in kModule.
MCUserNames == {"f", "signal"}

\* Every detector type's table, not only those of this instance, is well
\* formed: negative ids, distinct in an elementary type, one type per name.
ASSUME TablesAssumption ==
  \A d \in AllDetTypes : \A t, u \in Types :
    \A n \in DOMAIN DefaultFields[d][t], m \in DOMAIN DefaultFields[d][u] :
      /\ DefaultFields[d][t][n] < 0 /\ DefaultFields[d][t][n] # Undef
      /\ t # u => m # n
      /\ (t = u /\ m # n) => DefaultFields[d][t][n] # DefaultFields[d][t][m]
=============================================================================
