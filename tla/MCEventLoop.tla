---------------------------- MODULE MCEventLoop ----------------------------
(* Constants for model checking EventLoop: an EventHeader "ev", the tracks  *)
(* "rec" and "sim" with a matching of either direction, and a second file   *)
(* with the hits "tof", or with a branch of type kGeneric.                  *)
EXTENDS EventLoop

MCNameOrder == <<"ev", "gen", "rec", "sim", "tof">>

Field(b, f) == [key |-> <<b, f>>, branches |-> {b}, fn |-> "first"]

\* The difference of a field in two branches, and another under its name.
Difference(fn) == [key |-> <<"diff", "rec.px", "sim.px">>,
                   branches |-> {"rec", "sim"}, fn |-> fn]

MCBranchFields(b) ==
  CASE b \in {"rec", "sim"} -> <<Field(b, "px"), Field(b, "q")>>
    [] OTHER -> <<Field(b, "a")>>

MCCutObjects == {"recEven", "recOdd", "simEven", "evGood"}

MCCutBranches == [c \in MCCutObjects |->
  CASE c \in {"recEven", "recOdd"} -> {"rec"}
    [] c = "simEven" -> {"sim"}
    [] c = "evGood" -> {"ev"}]

\* Two cuts on one variable without a title, under one name.
MCSignature == [c \in MCCutObjects |-> IF c = "recOdd" THEN "recEven" ELSE c]

MCPasses(c, ev, at) ==
  CASE c = "recEven" -> at["rec"] % 2 = 0
    [] c = "recOdd" -> at["rec"] % 2 = 1
    [] c = "simEven" -> at["sim"] % 2 = 0
    [] c = "evGood" -> ev.good

Config(names, ids, index) ==
  [branch |-> [b \in names |->
     [type |-> CASE b = "ev" -> "kEventHeader" [] b = "gen" -> "kGeneric"
                 [] b = "tof" -> "kHit" [] OTHER -> "kTrack",
      id |-> ids[b]]],
   index |-> index]

\* The ids of version 3 files count, those of the newer ones are hashes.
Counted == [b \in ToSet(MCNameOrder) |->
  CHOOSE i \in DOMAIN MCNameOrder : MCNameOrder[i] = b]
Hashed == [b \in ToSet(MCNameOrder) |-> 70000 + Counted[b]]

File(names, ids, index, style) ==
  [tree |-> "tTree", config |-> Config(names, ids, index), entries |-> 2,
   stored |-> [n \in names \cup {index[p] : p \in DOMAIN index} |-> style]]

RecSim == [p \in {<<"rec", "sim">>} |-> "rec2sim"]
SimRec == [p \in {<<"sim", "rec">>} |-> "sim2rec"]

Main(ids, index) == File({"ev", "rec", "sim"}, ids, index, "dotted")
Extra == File({"tof"}, Counted, <<>>, "plain")
Generic == File({"gen"}, Counted, <<>>, "plain")

MCInputs == {
  <<Main(Counted, RecSim)>>, <<Main(Counted, SimRec), Generic, Extra>>,
  <<Main(Hashed, RecSim)>>, <<Main(Counted, RecSim), Main(Hashed, RecSim)>>}

MCInputsHashed == {<<Main(Hashed, RecSim)>>}

MCSettings == {[eventCuts |-> NoCut, outFile |-> TRUE, outTree |-> FALSE],
               [eventCuts |-> "evGood", outFile |-> TRUE, outTree |-> TRUE]}

NoCuts == <<>>
MCTaskSettings == {NoCuts, [b \in {"rec"} |-> "recEven"]}

Request(list, cut) == [vars |-> list, cut |-> cut]

MCRequests == {
  Request(<<Field("rec", "px")>>, NoCut),
  Request(<<Field("rec", "q"), Field("rec", "px")>>, "recEven"),
  Request(<<Field("rec", "q")>>, "recOdd"),
  Request(<<Field("rec", "px")>>, "recEven"),
  Request(<<Difference("minus")>>, NoCut),
  Request(<<Field("sim", "px"), Difference("plus")>>, NoCut),
  Request(<<Field("rec", "px")>>, "simEven"),
  Request(<<Field("ev", "a"), Field("rec", "px")>>, NoCut),
  Request(<<Field("ev", "a"), Difference("minus")>>, NoCut),
  Request(<<Field("tof", "a")>>, NoCut)}

Event(n, m, good, ij) ==
  [size |-> [b \in ToSet(MCNameOrder) |-> CASE b = "rec" -> n [] b = "ev" -> 1 [] OTHER -> m],
   good |-> good,
   pairs |-> [p \in {<<"rec", "sim">>} |-> ij],
   matching |-> LET made(p) == FoldLeft(LAMBDA acc, x : AddMatch(acc, x[p[1]], x[p[2]]),
                                        NoMatches, SetToSeq(ij))
                IN [p \in {<<"rec", "sim">>, <<"sim", "rec">>} |->
                      IF p = <<"rec", "sim">> THEN made(<<1, 2>>) ELSE made(<<2, 1>>)]]

MCEvents == {Event(2, 3, TRUE, {<<0, 2>>, <<1, 0>>}), Event(2, 1, FALSE, {<<1, 0>>})}

MCRunArguments == {-1, 1}
=============================================================================
