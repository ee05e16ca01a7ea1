-------------------------- MODULE MCConfiguration --------------------------
(* Constants for model checking Configuration: two branches the program      *)
(* makes, a third one that an old file holds.  Ids 11 to 13 are the hashes of *)
(* the names.  An old file with ids of its own has A under 0, and C under the *)
(* id the program gives to A.                                                 *)
EXTENDS Configuration, TLC

MCSymmetry == Permutations(Objects)

MCBranchNames == {"A", "B", "C"}

MCIdOf == [A |-> 11, B |-> 12, C |-> 13]

MCNewNames == {"A", "B"}

MCIds == {0, 11, 12, 13}

MCDataBranch(m, n) == m \o "2" \o n

MCKeys == <<<<"A", "A">>, <<"A", "B">>, <<"A", "C">>,
            <<"B", "A">>, <<"B", "B">>, <<"B", "C">>,
            <<"C", "A">>, <<"C", "B">>, <<"C", "C">>>>

MCInMapOrder ==
  [S \in SUBSET ToSet(MCKeys) |-> SelectSeq(MCKeys, LAMBDA p : p \in S)]

\* A file of version 3 with ids of its own, A and C matched both ways, and a
\* file of a later version.
MCInitialFiles ==
  { Nothing,
    [version |-> 3, branches |-> 0 :> "A" @@ 11 :> "C",
     matches |-> <<"A", "C">> :> "A2C" @@ <<"C", "A">> :> "C2A"],
    [version |-> 5] }
=============================================================================
