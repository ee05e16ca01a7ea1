-------------------------- MODULE MCPlainTreeFiller --------------------------
(* Constants for model checking PlainTreeFiller: a branch A with fields of   *)
(* each type, and an EventHeader.                                            *)
EXTENDS PlainTreeFiller, TLC

MCNameOrder == <<"A", "H">>

MCMatchIndexes == {{}}

MCCutBranches == [a1 |-> {"A"}, a2 |-> {"A"}, h |-> {"H"}]

MCSignature == [c \in DOMAIN MCCutBranches |-> c]

MCPasses(c, at) == IF c = "a1" THEN at["A"] # 1 ELSE TRUE

MCFields(b) ==
  IF b = "A"
  THEN << [name |-> "px", type |-> "F", id |-> -3], [name |-> "w", type |-> "F", id |-> 0],
          [name |-> "q", type |-> "I", id |-> -2], [name |-> "good", type |-> "O", id |-> 0] >>
  ELSE << [name |-> "z", type |-> "F", id |-> -1] >>

MCNoWeight == [key |-> <<>>, branches |-> {}, fn |-> "first"]
Request(s, c) == [vars |-> s, cut |-> c, weight |-> MCNoWeight]
Field(b, f) == [key |-> <<b, f>>, branches |-> {b}, fn |-> "first"]

\* A field of a branch, also under a cut; variables that are no field, one
\* under the name of a field.
MCRequests ==
  { Request(<<Field("A", f)>>, "none") : f \in {"px", "w", "q", "good"} } \cup
  { Request(<<Field("H", "z")>>, "none"),
    Request(<<Field("A", "q")>>, "a2"),
    Request(<<[key |-> <<"sum", "A", "px">>, branches |-> {"A"}, fn |-> "sum"]>>, "none"),
    Request(<<[Field("A", "w") EXCEPT !.fn = "square"]>>, "none") }

MCFieldLists == {{"w"}, {"q", "good"}}

MCEventSizes == {[b \in {"A"} |-> n] : n \in {0, 3}}
=============================================================================
