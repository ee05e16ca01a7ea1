------------------------------ MODULE MCBranch ------------------------------
(* Constants for model checking Branch.  The number of a Module and the    *)
(* vertex of an EventHeader are left out of the names.                     *)
EXTENDS Branch

CONSTANTS in, out

\* Tasks fill out from in.
MCFlows == {<<out, in>>}

MCBranchNames == {"s"}

MCDetTypes == {"kModule", "kEventHeader"}

MCOrder == <<"id", "signal", "x">>

MCNames == {MCOrder[i] : i \in DOMAIN MCOrder}

MCRank == [n \in MCNames |-> CHOOSE i \in DOMAIN MCOrder : MCOrder[i] = n]

MCPrefixed(b, n) == b \o "_" \o n

\* "signal" is a default float of kModule and free in the other types.
MCNewFields == {<<"x", "float">>, <<"signal", "bool">>}

MCPrefixes == {""}
=============================================================================
