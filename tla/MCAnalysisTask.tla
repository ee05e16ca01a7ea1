--------------------------- MODULE MCAnalysisTask ---------------------------
(* Constants for model checking AnalysisTask: an event header H, two branches *)
(* A and B with up to two channels and a branch C with one.                   *)
EXTENDS AnalysisTask, TLC

MCNameOrder == <<"A", "B", "C", "H">>

\* The matching of A and B in either direction, or none.
MCMatchIndexes == {{}, {<<"A", "B">>}, {<<"B", "A">>}}

\* Two equal cuts on A, one between A and B given by a function.
MCCutBranches == [a1 |-> {"A"}, a2 |-> {"A"}, ab |-> {"A", "B"}]

MCSignature == [a1 |-> "A.q < 1", a2 |-> "A.q < 1", ab |-> "lambda"]

MCPasses(c, at) == IF c = "ab" THEN at["A"] # at["B"] ELSE at["A"] < 1

Plain(b, f) == [key |-> <<b, f>>, branches |-> {b}, fn |-> "first"]

Pair(f) == [key |-> <<"AB">>, branches |-> {"A", "B"}, fn |-> f]

Request(s, c, w) == [vars |-> s, cut |-> c, weight |-> w]

MCNoWeight == [key |-> <<>>, branches |-> {}, fn |-> "first"]

MCRequests ==
  { Request(<<Plain("A", "p")>>, "a1", MCNoWeight),
    Request(<<Plain("A", "q"), Plain("A", "p"), Plain("H", "z")>>, "none", MCNoWeight),
    Request(<<Plain("A", "q"), Plain("A", "p")>>, "a2", MCNoWeight),
    Request(<<Pair("sum")>>, "none", MCNoWeight),
    Request(<<Plain("A", "p"), Pair("difference")>>, "none", MCNoWeight),
    Request(<<Plain("B", "p")>>, "none", MCNoWeight),
    Request(<<Plain("A", "p")>>, "ab", MCNoWeight),
    Request(<<Plain("H", "z")>>, "none", MCNoWeight),
    Request(<<Plain("A", "p")>>, "none", Plain("B", "w")),
    Request(<<Pair("sum"), Plain("C", "p")>>, "none", MCNoWeight) }

MCEventSizes ==
  {[b \in {"A", "B", "C"} |-> CASE b = "A" -> a [] b = "B" -> n [] OTHER -> 1] :
     a, n \in {0, 2}}
=============================================================================
