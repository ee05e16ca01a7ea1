--------------------------- MODULE MCBranchMerge ---------------------------
(* Constants for model checking BranchMerge: "r" and "s" are read, a third  *)
(* branch is written.                                                       *)
EXTENDS BranchMerge

CONSTANTS rec, sim, out

MCSourceName == [b \in {rec, sim} |-> IF b = rec THEN "r" ELSE "s"]

MCBranchNames == {"r", "s"}

MCDetTypes == {"kModule", "kEventHeader"}

MCOrder == <<"matching_case", "r_signal", "r_x", "s_signal", "s_x",
             "signal", "x">>

MCNames == {MCOrder[i] : i \in DOMAIN MCOrder}

MCRank == [n \in MCNames |-> CHOOSE i \in DOMAIN MCOrder : MCOrder[i] = n]

MCPrefixed(b, n) == b \o "_" \o n

\* With the default field "signal" of kModule up to two floats in a branch; or
\* an int before "matching_case".
MCNewFields == {<<"x", "float">>, <<"x", "int">>}

MCPrefixes == {"", "r", "s"}

MCFlows == {<<out, rec>>, <<out, sim>>}
=============================================================================
